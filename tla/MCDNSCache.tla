----------------------------- MODULE MCDNSCache -----------------------------
EXTENDS DNSCache, TLC
Symmetry == Permutations(Request) \cup Permutations(Name)
\* No name has a line; one has the record of the rule; one has its own, and the other too.
Caches ==
  {[n \in Name |-> None]}
    \cup {[n \in Name |-> IF n = m THEN Suffix ELSE None] : m \in Name}
    \cup {[n \in Name |-> m] : m \in Name}
\* The line of the record that matters may have a fake address, and a list.
MCProfiles ==
  {p \in [cache : Caches, nose : {<< >>} \cup {<<k>> : k \in Line}, lists : {{}} \cup {{k} : k \in Line}] :
     LET k == IF \E n \in Name : p.cache[n] = n THEN CHOOSE n \in Name : p.cache[n] = n ELSE Suffix
     IN p.nose \in {<< >>, <<k>>} /\ p.lists \subseteq {k}}
=============================================================================
