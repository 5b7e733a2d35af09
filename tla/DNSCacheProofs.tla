--------------------------- MODULE DNSCacheProofs ---------------------------
(***************************************************************************)
(* That a fake address leads back to the name it was handed out for, and   *)
(* what queries for one record that never overlap may rely on, whatever    *)
(* those for other records do, for any number of queries and names; and    *)
(* that the nested read lock is the only way in which they lock up.        *)
(***************************************************************************)
EXTENDS DNSCache, TLAPS

(* What the profile says.                                                  *)

\* The records a name may be served from, by their keys.
Bases(p, n) == IF p.cache[n] = None THEN {n, Suffix} ELSE {p.cache[n]}

\* Names have keys, keys are their own, and a name without a line shares with no other.
LEMMA KeyFacts ==
  ASSUME NEW p \in Profiles
  PROVE  /\ Key(p, Suffix) = Suffix
         /\ \A n \in Name : Key(p, n) \in Line /\ Key(p, Key(p, n)) = Key(p, n)
         /\ \A n \in Name : p.cache[n] = None => Key(p, n) = n
         /\ \A n \in Name : p.cache[n] # None => Key(p, n) = p.cache[n]
         /\ \A n \in Name : p.cache[n] \in Line \cup {None}
<1> USE SuffixAssumption
<1>1. /\ p.cache \in [Name -> Line \cup {None}]
      /\ \A n \in Name : p.cache[n] \in Name => p.cache[p.cache[n]] = p.cache[n]
  BY ProfileAssumption
<1>2. \A n \in Name : p.cache[n] = None => Key(p, n) = n
  BY DEF Key
<1>3. \A n \in Name : p.cache[n] # None => Key(p, n) = p.cache[n]
  BY DEF Key
<1>4. Key(p, Suffix) = Suffix
  BY DEF Key
<1>5. \A n \in Name : p.cache[n] \in Line \cup {None}
  BY <1>1
<1>6. \A n \in Name : Key(p, n) \in Line
  BY <1>2, <1>3, <1>5 DEF Line
<1>7. ASSUME NEW n \in Name PROVE Key(p, Key(p, n)) = Key(p, n)
  <2>1. CASE p.cache[n] = None
    BY <1>2, <2>1
  <2>2. CASE p.cache[n] \in Name
    BY <1>1, <1>3, <2>2
  <2>3. CASE p.cache[n] = Suffix
    BY <1>3, <1>4, <2>3
  <2>. QED
    BY <1>5, <2>1, <2>2, <2>3 DEF Line
<1>. QED
  BY <1>2, <1>3, <1>4, <1>5, <1>6, <1>7

\* A name and the keys of its bases are kin.
LEMMA BaseKin ==
  ASSUME NEW p \in Profiles, NEW n \in Name, NEW k \in Line, Key(p, k) \in Bases(p, n)
  PROVE  k \in Kin(p, n)
BY KeyFacts DEF Kin, Bases

-----------------------------------------------------------------------------
(* Records and their names.                                                *)

\* The record was made for the name: by a query for it, or by the profile.
Of(m, n) ==
  /\ m \in Record
  /\ m \in Request => qname[m] = n /\ pc[m] # "idle" /\ profile.cache[n] = None
  /\ m \notin Request => m = profile.cache[n]

\* A query that has a record has one that was made for the name it asks for, and
\* a query that makes a record copies the rule's into it.
MineInv ==
  \A r \in Request :
    /\ pc[r] \notin {"idle", "load"} => Of(mine[r], qname[r])
    /\ pc[r] \in {"store", "top", "copy"} => mine[r] \in Request
    /\ pc[r] = "copy" => top[r] = Suffix

\* The record of a name was made for it; those of the profile are there.
MapInv ==
  \A n \in Name :
    /\ DNSCache[n] # None => Of(DNSCache[n], n)
    /\ DNSCache[n] = None => profile.cache[n] = None

Owners(m) == IF m \in Request THEN {qname[m], Suffix} ELSE {m}

\* The key of the entry that an index leads to.
KeyAt(i) == Key(profile, Nose[i + 1])

\* Every index in use is that of an entry of Nose with the right name.
IndexInv ==
  /\ \A m \in Record : rec[m].Index > 0 => KeyAt(rec[m].Index) \in Owners(m)
  /\ \A r \in Request : answer[r].index > 0 => KeyAt(answer[r].index) \in Bases(profile, qname[r])
  /\ \A r \in Request : pc[r] = "setindex" => Nose[lie[r] + 1] = qname[r]
  /\ \A r \in Request : pc[r] = "idle" => rec[r].Index = 0 /\ answer[r].index = 0
  /\ \A i \in 1..Len(Nose) - 1 : Nose[i + 1] \in Line

\* The inductive invariant.
IInv == TypeOK /\ MineInv /\ MapInv /\ IndexInv

-----------------------------------------------------------------------------
\* What the profile has brought: the entries of Nose, and the indexes of the records.
LEMMA InitNose ==
  ASSUME Init
  PROVE  /\ profile.nose \in Seq({k \in Line : k = Suffix \/ profile.cache[k] = k})
         /\ Nose \in Seq(Line \cup {None}) /\ Nose # << >>
         /\ Len(Nose) = Len(profile.nose) + 1 /\ Len(profile.nose) \in Nat
         /\ \A i \in 1..Len(profile.nose) :
              /\ Nose[i + 1] = profile.nose[i] /\ profile.nose[i] \in Line
              /\ profile.nose[i] = Suffix \/ profile.cache[profile.nose[i]] = profile.nose[i]
         /\ \A m \in Record :
              /\ rec[m].Index \in 0..Len(profile.nose)
              /\ rec[m].Index > 0 => profile.nose[rec[m].Index] = m
<1> DEFINE S == {k \in Line : k = Suffix \/ profile.cache[k] = k}
           nose == profile.nose
<1>1. nose \in Seq(S)
  BY ProfileAssumption DEF Init
<1>2. Nose = <<None>> \o nose /\ <<None>> \in Seq({None}) /\ Len(<<None>>) = 1 /\ <<None>>[1] = None
  BY DEF Init
<1>3. nose \in Seq(Line \cup {None}) /\ <<None>> \in Seq(Line \cup {None})
  BY <1>1
<1>4. /\ Nose \in Seq(Line \cup {None}) /\ Len(Nose) = Len(nose) + 1 /\ Len(nose) \in Nat
      /\ \A i \in 1..Len(nose) : Nose[i + 1] = nose[i]
  BY <1>2, <1>3
<1>5. \A i \in 1..Len(nose) : nose[i] \in S
  BY <1>1
<1>6. DOMAIN nose = 1..Len(nose)
  BY <1>1
<1>7. ASSUME NEW m \in Record
      PROVE  /\ rec[m].Index \in 0..Len(nose)
             /\ rec[m].Index > 0 => nose[rec[m].Index] = m
  <2>1. rec[m].Index = IF \E i \in DOMAIN nose : nose[i] = m
                       THEN CHOOSE i \in DOMAIN nose : nose[i] = m ELSE 0
    BY DEF Init
  <2>2. CASE \E i \in DOMAIN nose : nose[i] = m
    <3>1. rec[m].Index \in DOMAIN nose /\ nose[rec[m].Index] = m
      BY <2>1, <2>2
    <3> QED BY <1>4, <1>6, <3>1
  <2>3. CASE ~\E i \in DOMAIN nose : nose[i] = m
    BY <1>4, <2>1, <2>3
  <2> QED BY <2>2, <2>3
<1> QED BY <1>1, <1>4, <1>5, <1>7

\* Nobody has asked, and the indexes are the configuration's.
LEMMA InitInv == Init => IInv
<1> SUFFICES ASSUME Init PROVE IInv
  OBVIOUS
<1> USE SuffixAssumption, SpaceAssumption, LineAssumption
<1> DEFINE n == Len(profile.nose)
<1>1. n \in Nat /\ Len(Nose) = n + 1
  BY InitNose
<1>2. rec \in [Record -> [Index : 0..n, IPv4Hint : Line \cup {None}]]
  <2>1. \A m \in Record : rec[m] = [Index |-> rec[m].Index, IPv4Hint |-> rec[m].IPv4Hint]
    BY DEF Init
  <2>2. \A m \in Record : rec[m].IPv4Hint \in Line \cup {None}
    BY ProfileAssumption DEF Init
  <2>3. \A m \in Record : rec[m].Index \in 0..n
    BY InitNose
  <2>4. rec = [m \in Record |-> rec[m]]
    BY DEF Init
  <2> QED BY <2>1, <2>2, <2>3, <2>4
<1> HIDE DEF n
<1>3. rec \in [Record -> [Index : 0..Len(Nose) - 1, IPv4Hint : Hint \cup {None}]]
  <2>1. Line \subseteq Hint /\ 0..Len(Nose) - 1 = 0..n
    BY <1>1 DEF Hint
  <2> QED BY <1>2, <2>1
<1>4. answer \in [Request -> [index : 0..Len(Nose) - 1, addresses : Seq(Line)]]
  BY <1>1 DEF Init, NoAnswer
<1>5. qname \in [Request -> Name] /\ lie \in [Request -> 0..Len(Nose) - 1]
  BY NameAssumption, <1>1 DEF Init
<1>6. addresses \in [Hint -> Seq(Line)]
  <2>1. \A S : << >> \in Seq(S) /\ \A x \in S : <<x>> \in Seq(S)
    OBVIOUS
  <2>2. << >> \in Seq(Line) /\ \A x \in Line : <<x>> \in Seq(Line)
    BY <2>1
  <2>. QED
    BY <2>2 DEF Init
<1>7. DNSCache \in [Name -> Record \cup {None}]
  BY ProfileAssumption DEF Init, Record
<1>8. TypeOK
  BY <1>3, <1>4, <1>5, <1>6, <1>7, InitNose DEF Init, TypeOK, Label
<1>9. MineInv
  BY DEF Init, MineInv
<1>10. MapInv
  <2> SUFFICES ASSUME NEW x \in Name PROVE profile.cache[x] # None => Of(profile.cache[x], x)
    BY DEF Init, MapInv
  <2>1. profile.cache[x] \in Line \cup {None}
    BY ProfileAssumption DEF Init
  <2>. QED
    BY <2>1 DEF Of, Record, Line
<1>11. IndexInv
  <2>1. \A m \in Record : rec[m].Index > 0 => KeyAt(rec[m].Index) \in Owners(m)
    <3> SUFFICES ASSUME NEW m \in Record, rec[m].Index > 0 PROVE KeyAt(rec[m].Index) \in Owners(m)
      OBVIOUS
    <3>1. rec[m].Index \in 1..Len(profile.nose) /\ profile.nose[rec[m].Index] = m
      BY InitNose
    <3>2. Nose[rec[m].Index + 1] = m /\ m \in Line /\ (m = Suffix \/ profile.cache[m] = m)
      BY <3>1, InitNose
    <3>3. Key(profile, m) = m /\ m \notin Request
      BY <3>2 DEF Key, Line
    <3> QED BY <3>2, <3>3 DEF KeyAt, Owners
  <2>2. \A r \in Request : rec[r].Index = 0 /\ answer[r].index = 0
    <3> SUFFICES ASSUME NEW r \in Request PROVE rec[r].Index = 0
      BY DEF Init, NoAnswer
    <3>1. rec[r].Index \in 0..n /\ r \notin Line
      BY InitNose DEF n, Record, Line
    <3>2. rec[r].Index > 0 => r \in Line
      BY <1>1, InitNose DEF n, Record
    <3> QED BY <1>1, <3>1, <3>2
  <2>3. \A i \in 1..Len(Nose) - 1 : Nose[i + 1] \in Line
    <3>1. 1..Len(Nose) - 1 = 1..Len(profile.nose)
      BY InitNose
    <3>. QED
      BY <3>1, InitNose
  <2>4. \A r \in Request : pc[r] = "idle"
    BY DEF Init
  <2> QED BY <2>1, <2>2, <2>3, <2>4 DEF IndexInv
<1>. QED
  BY <1>8, <1>9, <1>10, <1>11 DEF IInv

-----------------------------------------------------------------------------
\* A new fake address leaves the others as they are.
LEMMA AppendNose ==
  ASSUME TypeOK, NEW n \in Name, Nose' = Append(Nose, n)
  PROVE  /\ Nose' \in Seq(Line \cup {None}) /\ Nose' # << >>
         /\ Len(Nose) \in Nat \ {0} /\ Len(Nose') = Len(Nose) + 1
         /\ Nose'[Len(Nose) + 1] = n
         /\ \A i \in 0..Len(Nose) - 1 : Nose'[i + 1] = Nose[i + 1]
<1> DEFINE S == Line \cup {None}
<1>1. Nose \in Seq(S) /\ n \in S
  BY DEF TypeOK, Line
<1> HIDE DEF S
<1>2. Len(Nose) \in Nat /\ (Nose # << >> => Len(Nose) # 0)
  BY <1>1
<1>3. Append(Nose, n) \in Seq(S) /\ Len(Append(Nose, n)) = Len(Nose) + 1
  BY <1>1
<1>4. /\ Append(Nose, n)[Len(Nose) + 1] = n
      /\ \A i \in 1..Len(Nose) : Append(Nose, n)[i] = Nose[i]
  BY <1>1
<1>5. Append(Nose, n) # << >>
  BY <1>2, <1>3
<1>. QED
  BY <1>2, <1>3, <1>4, <1>5 DEF TypeOK, S

\* A step that touches no index, and after which the query has its record still.
LEMMA QuietStep ==
  ASSUME IInv, NEW r \in Request, pc[r] \notin {"idle", "load"},
         NEW label \in Label \ {"idle", "load", "store", "top", "copy", "setindex"},
         pc' = [pc EXCEPT ![r] = label],
         UNCHANGED <<profile, DNSCache, Nose, qname, mine, top, lie>>,
         \A s \in Record : rec'[s].Index = rec[s].Index,
         \A s \in Request : answer'[s].index = answer[s].index
  PROVE  MineInv' /\ MapInv' /\ IndexInv'
<1>1. pc \in [Request -> Label] /\ Request \subseteq Record
  BY DEF IInv, TypeOK, Record
<1>2. \A s \in Request : pc'[s] = "idle" <=> pc[s] = "idle"
  BY <1>1
<1>3. \A m, n : Of(m, n) => Of(m, n)'
  BY <1>1, <1>2 DEF Of
<1>4. MineInv'
  BY <1>1, <1>2, <1>3 DEF IInv, MineInv
<1>5. MapInv'
  BY <1>1, <1>2, <1>3 DEF IInv, MapInv
<1>6. IndexInv'
  BY <1>1, <1>2 DEF IInv, IndexInv, Owners, KeyAt, Record
<1>. QED
  BY <1>4, <1>5, <1>6

\* The types of what a step changes.
LEMMA TypeStep ==
  ASSUME IInv, NEW r \in Request, Step(r) \/ Expire(r)
  PROVE  TypeOK'
<1> USE SuffixAssumption
<1> DEFINE RecordType == [Index : 0..Len(Nose) - 1, IPv4Hint : Hint \cup {None}]
<1>1. CASE \E n \in Name, e \in {"NSRequest", "NSLookup"} : Begin(r, n, e)
  <2>1. PICK n \in Name, e \in {"NSRequest", "NSLookup"} : Begin(r, n, e)
    BY <1>1
  <2>2. overlapped' \subseteq Line
    <3>1. Key(profile, n) \in Line
      BY KeyFacts DEF IInv, TypeOK
    <3>. QED
      BY <2>1, <3>1 DEF Begin, IInv, TypeOK
  <2>. QED
    BY <2>1, <2>2 DEF Begin, IInv, TypeOK, Goto, Label, sharedVars
<1>2. CASE LoadDNSCache(r)
  <2>1. mine' \in [Request -> Record \cup {None}]
    <3>1. DNSCache[qname[r]] \in Record \cup {None} /\ r \in Record
      BY DEF IInv, TypeOK, Record
    <3>. QED
      BY <1>2, <3>1 DEF LoadDNSCache, IInv, TypeOK
  <2>2. pc' \in [Request -> Label]
    <3>1. \E label \in {"check", "store"} : pc' = [pc EXCEPT ![r] = label]
      BY <1>2 DEF LoadDNSCache, Goto
    <3>. QED
      BY <3>1 DEF IInv, TypeOK, Label
  <2>. QED
    BY <1>2, <2>1, <2>2 DEF LoadDNSCache, IInv, TypeOK, sharedVars
<1>3. CASE StoreDNSCache(r)
  BY <1>3 DEF StoreDNSCache, IInv, TypeOK, Goto, Label, localVars
<1>4. CASE LoadTop(r)
  BY <1>4 DEF LoadTop, IInv, TypeOK, Goto, Label, sharedVars
<1>5. CASE CopyTop(r)
  <2>1. mine[r] \in Request /\ top[r] = Suffix
    BY <1>5 DEF CopyTop, IInv, MineInv
  <2>2. rec' \in [Record -> RecordType]
    <3>1. Suffix \in Record /\ mine[r] \in Record
      BY <2>1 DEF Record, Line
    <3>2. rec \in [Record -> RecordType] /\ rec' = [rec EXCEPT ![mine[r]] = rec[Suffix]]
      BY <1>5, <2>1 DEF CopyTop, IInv, TypeOK
    <3>. QED
      BY <3>1, <3>2
  <2>. QED
    BY <1>5, <2>2 DEF CopyTop, IInv, TypeOK, Goto, Label, localVars
<1>6. CASE \/ CheckRequest(r) \/ CheckLookup(r) \/ ResolveFake(r) \/ ResolveFails(r)
           \/ ResolveFiltered(r) \/ ResolveUnknown(r) \/ LogResponse(r)
  BY <1>6 DEF CheckRequest, CheckLookup, ResolveFake, ResolveFails, ResolveFiltered,
              ResolveUnknown, LogResponse, IInv, TypeOK, Goto, Label, sharedVars, localVars
<1>7. CASE ResolveReal(r)
  BY <1>7 DEF ResolveReal, IInv, TypeOK, Goto, Label, sharedVars
<1>8. CASE ClearHint(r)
  <2>1. rec' \in [Record -> RecordType]
    BY <1>8 DEF ClearHint, IInv, TypeOK
  <2>. QED
    BY <1>8, <2>1 DEF ClearHint, IInv, TypeOK, Goto, Label, localVars
<1>9. CASE AddDNSLie(r)
  <2>1. qname[r] \in Name /\ Nose' = Append(Nose, qname[r])
    BY <1>9 DEF AddDNSLie, IInv, TypeOK
  <2>2. /\ Nose' \in Seq(Line \cup {None}) /\ Nose' # << >>
        /\ Len(Nose) \in Nat \ {0} /\ Len(Nose') = Len(Nose) + 1
    BY <2>1, AppendNose DEF IInv
  <2>3. 0..Len(Nose) - 1 \subseteq 0..Len(Nose') - 1
    BY <2>2
  <2>4. rec' \in [Record -> [Index : 0..Len(Nose') - 1, IPv4Hint : Hint \cup {None}]]
    <3>1. rec' = rec /\ rec \in [Record -> RecordType]
      BY <1>9 DEF AddDNSLie, IInv, TypeOK
    <3>. QED
      BY <2>3, <3>1
  <2>5. answer' \in [Request -> [index : 0..Len(Nose') - 1, addresses : Seq(Line)]]
    <3>1. answer' = answer /\ answer \in [Request -> [index : 0..Len(Nose) - 1, addresses : Seq(Line)]]
      BY <1>9 DEF AddDNSLie, IInv, TypeOK
    <3>. QED
      BY <2>3, <3>1
  <2>6. lie' \in [Request -> 0..Len(Nose') - 1]
    BY <1>9, <2>2, <2>3 DEF AddDNSLie, IInv, TypeOK
  <2>. QED
    BY <1>9, <2>2, <2>4, <2>5, <2>6 DEF AddDNSLie, IInv, TypeOK, Goto, Label
<1>10. CASE SetIndex(r)
  <2>1. rec' \in [Record -> RecordType]
    <3>1. /\ rec \in [Record -> RecordType] /\ lie[r] \in 0..Len(Nose) - 1
          /\ rec' = [rec EXCEPT ![mine[r]].Index = lie[r]]
      BY <1>10 DEF SetIndex, IInv, TypeOK
    <3>. QED
      BY <3>1
  <2>. QED
    BY <1>10, <2>1 DEF SetIndex, IInv, TypeOK, Goto, Label, localVars
<1>11. CASE Lock(r)
  BY <1>11 DEF Lock, IInv, TypeOK, Goto, Label, localVars
<1>12. CASE GetAnswers(r)
  <2> DEFINE h == IF rec[mine[r]].IPv4Hint = None THEN <<r, "answers">> ELSE rec[mine[r]].IPv4Hint
  <2>1. mine[r] \in Record
    BY <1>12 DEF GetAnswers, IInv, MineInv, Of
  <2>2. h \in Hint
    BY <2>1 DEF IInv, TypeOK, Hint
  <2>3. rec' \in [Record -> RecordType]
    <3>1. rec \in [Record -> RecordType]
      BY DEF IInv, TypeOK
    <3>2. rec' = rec \/ rec' = [rec EXCEPT ![mine[r]].IPv4Hint = h]
      BY <1>12 DEF GetAnswers, hint
    <3> HIDE DEF h
    <3>. QED
      BY <2>1, <2>2, <3>1, <3>2
  <2>4. addresses[h] \in Seq(Line) /\ qname[r] \in Line
    BY <2>2 DEF IInv, TypeOK, Line
  <2>5. Append(addresses[h], qname[r]) \in Seq(Line)
    BY <2>4
  <2>6. addresses' \in [Hint -> Seq(Line)]
    BY <1>12, <2>5 DEF GetAnswers, hint, IInv, TypeOK
  <2>. QED
    BY <1>12, <2>3, <2>6 DEF GetAnswers, IInv, TypeOK, Goto, Label, localVars
<1>13. CASE Conclude(r)
  <2>1. rec' \in [Record -> RecordType]
    <3>1. rec \in [Record -> RecordType] /\ <<r, "empty">> \in Hint
      BY DEF IInv, TypeOK, Hint
    <3>2. rec' = rec \/ rec' = [rec EXCEPT ![mine[r]].IPv4Hint = <<r, "empty">>]
      BY <1>13 DEF Conclude
    <3>. QED
      BY <3>1, <3>2
  <2>. QED
    BY <1>13, <2>1 DEF Conclude, IInv, TypeOK, Goto, Label, localVars
<1>14. CASE BuildResponse(r)
  <2>1. mine[r] \in Record
    BY <1>14 DEF BuildResponse, IInv, MineInv, Of
  <2>2. answer' \in [Request -> [index : 0..Len(Nose) - 1, addresses : Seq(Line)]]
    <3>1. rec[mine[r]].Index \in 0..Len(Nose) - 1
      BY <2>1 DEF IInv, TypeOK
    <3>2. answer' = answer \/ answer' = [answer EXCEPT ![r].index = rec[mine[r]].Index]
      BY <1>14 DEF BuildResponse, index
    <3>3. answer \in [Request -> [index : 0..Len(Nose) - 1, addresses : Seq(Line)]]
      BY DEF IInv, TypeOK
    <3>. QED
      BY <3>1, <3>2, <3>3
  <2>. QED
    BY <1>14, <2>2 DEF BuildResponse, IInv, TypeOK, Goto, Label, sharedVars
<1>15. CASE PackAnswers(r)
  <2>1. mine[r] \in Record
    BY <1>15 DEF PackAnswers, IInv, MineInv, Of
  <2>2. (IF hint(r) = None THEN << >> ELSE addresses[hint(r)]) \in Seq(Line)
    BY <2>1 DEF hint, IInv, TypeOK
  <2>3. answer' \in [Request -> [index : 0..Len(Nose) - 1, addresses : Seq(Line)]]
    <3> DEFINE list == IF hint(r) = None THEN << >> ELSE addresses[hint(r)]
    <3>1. answer' = [answer EXCEPT ![r].addresses = list]
      BY <1>15 DEF PackAnswers
    <3> HIDE DEF list
    <3>2. list \in Seq(Line)
      BY <2>2 DEF list
    <3>. QED
      BY <3>1, <3>2 DEF IInv, TypeOK
  <2>. QED
    BY <1>15, <2>3 DEF PackAnswers, IInv, TypeOK, Goto, Label, sharedVars
<1>16. CASE AnswerLookup(r)
  <2>1. mine[r] \in Record
    BY <1>16 DEF AnswerLookup, IInv, MineInv, Of
  <2>2. hint(r) # None => addresses[hint(r)] \in Seq(Line)
    BY <2>1 DEF hint, IInv, TypeOK
  <2>3. answer' \in [Request -> [index : 0..Len(Nose) - 1, addresses : Seq(Line)]]
    <3> DEFINE list == addresses[hint(r)]
    <3>1. CASE hint(r) = None
      BY <1>16, <3>1 DEF AnswerLookup, IInv, TypeOK
    <3>2. CASE hint(r) # None
      <4>1. answer' = [answer EXCEPT ![r].addresses = list] /\ list \in Seq(Line)
        BY <1>16, <2>2, <3>2 DEF AnswerLookup
      <4> HIDE DEF list
      <4>. QED
        BY <4>1 DEF IInv, TypeOK
    <3>. QED
      BY <3>1, <3>2
  <2>. QED
    BY <1>16, <2>3 DEF AnswerLookup, IInv, TypeOK, Goto, Label
<1>17. CASE Expire(r)
  <2>1. expired' \subseteq Hint
    BY <1>17 DEF Expire, IInv, TypeOK, Hint
  <2>. QED
    BY <1>17, <2>1 DEF Expire, IInv, TypeOK, localVars
<1>. QED
  BY <1>1, <1>2, <1>3, <1>4, <1>5, <1>6, <1>7, <1>8, <1>9, <1>10, <1>11, <1>12, <1>13,
     <1>14, <1>15, <1>16, <1>17 DEF Step

-----------------------------------------------------------------------------
(* Every step keeps the names behind the indexes.                          *)

\* A record is nobody's but of the names it was made for.
LEMMA OwnersOf ==
  ASSUME IInv, NEW n \in Name, NEW m, Of(m, n)
  PROVE  Owners(m) \subseteq Bases(profile, n) /\ Key(profile, n) \in Owners(m)
<1> USE SuffixAssumption
<1>1. profile \in Profiles
  BY DEF IInv, TypeOK
<1>2. CASE m \in Request
  BY <1>1, <1>2, KeyFacts DEF Of, Owners, Bases
<1>3. CASE m \notin Request
  <2>1. m = profile.cache[n] /\ m \in Line
    BY <1>3 DEF Of, Record
  <2>2. m # None
    BY <2>1 DEF Line
  <2>. QED
    BY <1>1, <1>3, <2>1, <2>2, KeyFacts DEF Owners, Bases
<1>. QED
  BY <1>2, <1>3

\* A record stays that of its name while queries only move on.
LEMMA OfKept ==
  ASSUME NEW m, NEW n, Of(m, n), UNCHANGED profile,
         m \in Request => qname'[m] = qname[m] /\ pc'[m] # "idle"
  PROVE  Of(m, n)'
BY DEF Of

\* Every action keeps the inductive invariant.
LEMMA NextInv == IInv /\ [Next]_vars => IInv'
<1> SUFFICES ASSUME IInv, [Next]_vars PROVE IInv'
  OBVIOUS
<1> USE SuffixAssumption
<1> HIDE DEF IInv
<1>1. CASE UNCHANGED vars
  BY <1>1 DEF vars, sharedVars, localVars, IInv, TypeOK, MineInv, MapInv, IndexInv, Owners, KeyAt, Of
<1>2. ASSUME NEW r \in Request, Step(r) \/ Expire(r)
      PROVE  MineInv' /\ MapInv' /\ IndexInv'
  <2>0. pc \in [Request -> Label] /\ Request \subseteq Record
    BY DEF IInv, TypeOK, Record
  <2>1. CASE \E n \in Name, e \in {"NSRequest", "NSLookup"} : Begin(r, n, e)
    <3>1. PICK n \in Name, e \in {"NSRequest", "NSLookup"} : Begin(r, n, e)
      BY <2>1
    <3>2. /\ pc[r] = "idle" /\ pc' = [pc EXCEPT ![r] = "load"] /\ qname' = [qname EXCEPT ![r] = n]
          /\ UNCHANGED <<profile, DNSCache, Nose, rec, mine, top, lie, answer>>
      BY <3>1 DEF Begin, Goto, sharedVars
    <3>0. \A m, x : Of(m, x) => Of(m, x)'
      BY <2>0, <3>2 DEF Of, IInv, TypeOK
    <3>3. MineInv'
      BY <2>0, <3>0, <3>2 DEF IInv, TypeOK, MineInv
    <3>4. MapInv'
      BY <2>0, <3>0, <3>2 DEF IInv, TypeOK, MapInv
    <3>5. rec[r].Index = 0 /\ answer[r].index = 0
      BY <3>2 DEF IInv, IndexInv
    <3>6. /\ \A s \in Request : s # r => qname'[s] = qname[s] /\ pc'[s] = pc[s]
          /\ pc'[r] = "load"
      BY <2>0, <3>2 DEF IInv, TypeOK
    <3>7. IndexInv'
      <4>1. \A s \in Record : rec[s].Index > 0 => KeyAt(rec[s].Index) \in Owners(s)'
        <5> SUFFICES ASSUME NEW s \in Record, rec[s].Index > 0
                     PROVE  KeyAt(rec[s].Index) \in Owners(s)'
          OBVIOUS
        <5>1. s # r
          BY <3>5
        <5>. QED
          BY <3>6, <5>1 DEF IInv, IndexInv, Owners, Record
      <4>2. \A s \in Request : answer[s].index > 0 => KeyAt(answer[s].index) \in Bases(profile, qname'[s])
        <5> SUFFICES ASSUME NEW s \in Request, answer[s].index > 0
                     PROVE  KeyAt(answer[s].index) \in Bases(profile, qname'[s])
          OBVIOUS
        <5>1. s # r
          BY <3>5
        <5>. QED
          BY <3>6, <5>1 DEF IInv, IndexInv
      <4>3. \A s \in Request : pc'[s] = "setindex" => Nose[lie[s] + 1] = qname'[s]
        BY <3>6 DEF IInv, IndexInv
      <4>4. \A s \in Request : pc'[s] = "idle" => rec[s].Index = 0 /\ answer[s].index = 0
        BY <3>6 DEF IInv, IndexInv
      <4>. QED
        BY <3>2, <4>1, <4>2, <4>3, <4>4 DEF IInv, IndexInv, KeyAt
    <3>. QED
      BY <3>3, <3>4, <3>7
  <2>2. CASE LoadDNSCache(r)
    <3>1. /\ pc[r] = "load" /\ UNCHANGED <<profile, DNSCache, Nose, qname, rec, top, lie, answer>>
          /\ \E label \in {"check", "store"} : pc' = [pc EXCEPT ![r] = label]
          /\ \/ mine' = [mine EXCEPT ![r] = r]
             \/ DNSCache[qname[r]] # None /\ mine' = [mine EXCEPT ![r] = DNSCache[qname[r]]]
      BY <2>2 DEF LoadDNSCache, Goto, sharedVars
    <3>2. qname[r] \in Name /\ mine \in [Request -> Record \cup {None}]
      BY DEF IInv, TypeOK
    <3>3. \A s \in Request : pc'[s] = "idle" <=> pc[s] = "idle"
      BY <2>0, <3>1
    <3>4. \A m, x : Of(m, x) => Of(m, x)'
      BY <3>1, <3>3 DEF Of
    <3>5. Of(mine[r], qname[r])'
      <4>1. CASE DNSCache[qname[r]] # None
        <5>1. mine'[r] = DNSCache[qname[r]] /\ Of(DNSCache[qname[r]], qname[r])
          BY <2>2, <3>2, <4>1 DEF LoadDNSCache, IInv, MapInv
        <5>. QED
          BY <3>1, <3>4, <5>1
      <4>2. CASE DNSCache[qname[r]] = None
        <5>1. mine'[r] = r /\ profile.cache[qname[r]] = None
          BY <2>2, <3>2, <4>2 DEF LoadDNSCache, IInv, MapInv
        <5>. QED
          BY <2>0, <3>1, <3>3, <5>1 DEF Of
      <4>. QED
        BY <4>1, <4>2
    <3>6. MineInv'
      <4>1. \A s \in Request : s # r => mine'[s] = mine[s] /\ pc'[s] = pc[s]
        BY <2>0, <3>1, <3>2
      <4>2. pc'[r] # "copy" /\ (pc'[r] \in {"store", "top", "copy"} => mine'[r] = r)
        BY <2>0, <2>2, <3>2 DEF LoadDNSCache, Goto
      <4>. QED
        BY <3>1, <3>4, <3>5, <4>1, <4>2 DEF IInv, MineInv
    <3>7. MapInv'
      BY <2>0, <3>1, <3>4 DEF IInv, MapInv
    <3>8. IndexInv'
      BY <2>0, <3>1, <3>3 DEF IInv, IndexInv, Owners, KeyAt
    <3>. QED
      BY <3>6, <3>7, <3>8
  <2>3. CASE StoreDNSCache(r)
    <3>1. /\ pc[r] = "store" /\ pc' = [pc EXCEPT ![r] = "top"]
          /\ DNSCache' = [DNSCache EXCEPT ![qname[r]] = mine[r]]
          /\ UNCHANGED <<profile, Nose, qname, mine, rec, top, lie, answer>>
      BY <2>3 DEF StoreDNSCache, Goto, localVars
    <3>2. \A s \in Request : pc'[s] = "idle" <=> pc[s] = "idle"
      BY <2>0, <3>1
    <3>6. \A m, x : Of(m, x) => Of(m, x)'
      BY <3>1, <3>2 DEF Of
    <3>3. MineInv'
      BY <2>0, <3>1, <3>2, <3>6 DEF IInv, MineInv
    <3>4. MapInv'
      <4>1. Of(mine[r], qname[r]) /\ mine[r] \in Request
        BY <3>1 DEF IInv, MineInv
      <4>2. mine[r] # None
        BY <4>1
      <4>3. \A x \in Name : DNSCache'[x] = IF x = qname[r] THEN mine[r] ELSE DNSCache[x]
        BY <3>1 DEF IInv, TypeOK
      <4>. QED
        BY <3>1, <3>6, <4>1, <4>2, <4>3 DEF IInv, MapInv
    <3>5. IndexInv'
      BY <2>0, <3>1, <3>2 DEF IInv, IndexInv, Owners, KeyAt
    <3>. QED
      BY <3>3, <3>4, <3>5
  <2>4. CASE LoadTop(r)
    <3>1. /\ pc[r] = "top" /\ pc' = [pc EXCEPT ![r] = "copy"] /\ top' = [top EXCEPT ![r] = Suffix]
          /\ UNCHANGED <<profile, DNSCache, Nose, qname, mine, rec, lie, answer>>
      BY <2>4 DEF LoadTop, Goto, sharedVars
    <3>2. \A s \in Request : pc'[s] = "idle" <=> pc[s] = "idle"
      BY <2>0, <3>1
    <3>5. \A m, x : Of(m, x) => Of(m, x)'
      BY <3>1, <3>2 DEF Of
    <3>3. MineInv'
      BY <2>0, <3>1, <3>2, <3>5 DEF IInv, TypeOK, MineInv
    <3>4. MapInv' /\ IndexInv'
      BY <2>0, <3>1, <3>2, <3>5 DEF IInv, MapInv, IndexInv, Owners, KeyAt
    <3>. QED
      BY <3>3, <3>4
  <2>5. CASE CopyTop(r)
    <3>1. /\ pc[r] = "copy" /\ pc' = [pc EXCEPT ![r] = "check"]
          /\ rec' = [rec EXCEPT ![mine[r]] = rec[Suffix]] /\ mine[r] \in Request
          /\ UNCHANGED <<profile, DNSCache, Nose, qname, mine, top, lie, answer>>
      BY <2>5 DEF CopyTop, Goto, localVars, IInv, MineInv
    <3>2. \A s \in Request : pc'[s] = "idle" <=> pc[s] = "idle"
      BY <2>0, <3>1
    <3>6. \A m, x : Of(m, x) => Of(m, x)'
      BY <3>1, <3>2 DEF Of
    <3>3. MineInv' /\ MapInv'
      BY <2>0, <3>1, <3>2, <3>6 DEF IInv, MineInv, MapInv
    <3>4. pc[mine[r]] # "idle" /\ rec \in [Record -> [Index : 0..Len(Nose) - 1, IPv4Hint : Hint \cup {None}]]
      BY <3>1 DEF IInv, TypeOK, MineInv, Of
    <3>5. IndexInv'
      <4>1. Suffix \in Record /\ mine[r] \in Record
        BY <3>1 DEF Record, Line
      <4>2. \A s \in Record : rec'[s] = IF s = mine[r] THEN rec[Suffix] ELSE rec[s]
        BY <3>1, <3>4, <4>1
      <4>3. Suffix \in Owners(mine[r]) /\ (rec[Suffix].Index > 0 => KeyAt(rec[Suffix].Index) = Suffix)
        BY <3>1, <4>1 DEF IInv, IndexInv, Owners
      <4>4. \A s \in Record : rec'[s].Index > 0 => KeyAt(rec'[s].Index) \in Owners(s)
        BY <4>2, <4>3 DEF IInv, IndexInv
      <4>5. \A s \in Request : pc'[s] = "idle" => rec'[s].Index = 0
        <5> SUFFICES ASSUME NEW s \in Request, pc'[s] = "idle" PROVE rec'[s].Index = 0
          OBVIOUS
        <5>1. pc[s] = "idle" /\ s # mine[r] /\ s \in Record
          BY <2>0, <3>2, <3>4
        <5>. QED
          BY <4>2, <5>1 DEF IInv, IndexInv
      <4>6. \A s \in Request : pc'[s] = "setindex" => pc[s] = "setindex"
        BY <2>0, <3>1
      <4>. QED
        BY <3>1, <3>2, <4>4, <4>5, <4>6 DEF IInv, IndexInv, Owners, KeyAt
    <3>. QED
      BY <3>3, <3>5
  <2>6. CASE \/ CheckRequest(r) \/ CheckLookup(r) \/ ResolveFails(r) \/ ResolveFiltered(r)
             \/ LogResponse(r) \/ Lock(r) \/ ClearHint(r) \/ GetAnswers(r) \/ Conclude(r)
             \/ ResolveFake(r) \/ ResolveReal(r) \/ ResolveUnknown(r)
    <3>1. /\ pc[r] \notin {"idle", "load"}
          /\ \E label \in Label \ {"idle", "load", "store", "top", "copy", "setindex"} : pc' = [pc EXCEPT ![r] = label]
          /\ UNCHANGED <<profile, DNSCache, Nose, qname, mine, top, lie, answer>>
      BY <2>6 DEF CheckRequest, CheckLookup, ResolveFails, ResolveFiltered, LogResponse, Lock, ClearHint,
                  GetAnswers, Conclude, ResolveFake, ResolveReal, ResolveUnknown, AsksUpstream, Goto,
                  Label, sharedVars, localVars
    <3>2. rec' = rec \/ \E h \in Hint \cup {None} \cup {hint(r)} : rec' = [rec EXCEPT ![mine[r]].IPv4Hint = h]
      BY <2>6 DEF CheckRequest, CheckLookup, ResolveFails, ResolveFiltered, LogResponse, Lock, ClearHint,
                  GetAnswers, Conclude, ResolveFake, ResolveReal, ResolveUnknown, sharedVars, Hint
    <3>3. \A s \in Record : rec'[s].Index = rec[s].Index
      <4>1. DOMAIN rec = Record /\ rec = [s \in Record |-> rec[s]]
        BY DEF IInv, TypeOK
      <4>2. ASSUME NEW h, rec' = [rec EXCEPT ![mine[r]].IPv4Hint = h], NEW s \in Record
            PROVE  rec'[s].Index = rec[s].Index
        <5>1. rec[s] = [Index |-> rec[s].Index, IPv4Hint |-> rec[s].IPv4Hint]
          BY DEF IInv, TypeOK
        <5>2. rec'[s] = IF s = mine[r] THEN [rec[s] EXCEPT !.IPv4Hint = h] ELSE rec[s]
          BY <4>1, <4>2
        <5>3. [rec[s] EXCEPT !.IPv4Hint = h].Index = rec[s].Index
          BY <5>1
        <5>. QED
          BY <5>2, <5>3
      <4>. QED
        BY <3>2, <4>2
    <3>. QED
      BY <3>1, <3>3, QuietStep
  <2>7. CASE BuildResponse(r)
    <3>1. /\ pc[r] = "answer" /\ UNCHANGED <<profile, DNSCache, Nose, qname, mine, top, lie, rec>>
          /\ \E label \in {"pack", "done"} : pc' = [pc EXCEPT ![r] = label]
          /\ answer' = answer \/ answer' = [answer EXCEPT ![r].index = rec[mine[r]].Index]
      BY <2>7 DEF BuildResponse, index, Goto, sharedVars
    <3>2. \A s \in Request : pc'[s] = "idle" <=> pc[s] = "idle"
      BY <2>0, <3>1
    <3>7. \A m, x : Of(m, x) => Of(m, x)'
      BY <3>1, <3>2 DEF Of
    <3>3. MineInv' /\ MapInv'
      BY <2>0, <3>1, <3>2, <3>7 DEF IInv, MineInv, MapInv
    <3>4. rec[mine[r]].Index > 0 => KeyAt(rec[mine[r]].Index) \in Bases(profile, qname[r])
      <4>1. Of(mine[r], qname[r]) /\ mine[r] \in Record /\ qname[r] \in Name
        BY <3>1 DEF IInv, TypeOK, MineInv, Of
      <4>. QED
        BY <4>1, OwnersOf DEF IInv, IndexInv
    <3>5. \A s \in Request :
            \/ answer'[s].index = answer[s].index
            \/ s = r /\ answer'[s].index = rec[mine[r]].Index
      <4> DEFINE i == rec[mine[r]].Index
      <4>1. DOMAIN answer = Request /\ "index" \in DOMAIN answer[r] /\ r \in Request
        BY DEF IInv, TypeOK
      <4>2. answer' = answer \/ answer' = [answer EXCEPT ![r].index = i]
        BY <3>1
      <4> HIDE DEF i
      <4>3. answer = [s \in Request |-> answer[s]]
        BY DEF IInv, TypeOK
      <4>4. CASE answer' = [answer EXCEPT ![r].index = i]
        <5>1. \A s \in Request : answer'[s] = IF s = r THEN [answer[r] EXCEPT !.index = i] ELSE answer[s]
          BY <4>3, <4>4
        <5>2. [answer[r] EXCEPT !.index = i].index = i
          BY <4>1
        <5>. QED
          BY <5>1, <5>2 DEF i
      <4>. QED
        BY <4>2, <4>4
    <3>6. IndexInv'
      BY <2>0, <3>1, <3>2, <3>4, <3>5 DEF IInv, IndexInv, Owners, KeyAt
    <3>. QED
      BY <3>3, <3>6
  <2>8. CASE PackAnswers(r) \/ AnswerLookup(r)
    <3>1. /\ pc[r] \notin {"idle", "load"}
          /\ \E label \in {"done", "panic"} : pc' = [pc EXCEPT ![r] = label]
          /\ UNCHANGED <<profile, DNSCache, Nose, qname, mine, top, lie, rec>>
      BY <2>8 DEF PackAnswers, AnswerLookup, Goto, sharedVars
    <3>2. answer' = answer \/ answer' = [answer EXCEPT ![r].addresses = answer'[r].addresses]
      BY <2>8 DEF PackAnswers, AnswerLookup, IInv, TypeOK
    <3>3. \A s \in Request : answer'[s].index = answer[s].index
      <4> DEFINE list == answer'[r].addresses
      <4>1. /\ answer = [s \in Request |-> answer[s]]
            /\ \A s \in Request : answer[s] = [index |-> answer[s].index, addresses |-> answer[s].addresses]
        BY DEF IInv, TypeOK
      <4>2. answer' = answer \/ answer' = [answer EXCEPT ![r].addresses = list]
        BY <3>2
      <4> HIDE DEF list
      <4>3. [answer[r] EXCEPT !.addresses = list].index = answer[r].index
        BY <4>1
      <4>4. CASE answer' = [answer EXCEPT ![r].addresses = list]
        <5>1. \A s \in Request : answer'[s] = IF s = r THEN [answer[r] EXCEPT !.addresses = list] ELSE answer[s]
          BY <4>1, <4>4
        <5>. QED
          BY <4>3, <5>1
      <4>. QED
        BY <4>2, <4>4
    <3>4. {"done", "panic"} \subseteq Label \ {"idle", "load", "store", "top", "copy", "setindex"}
      BY DEF Label
    <3>. QED
      BY <3>1, <3>3, <3>4, QuietStep
  <2>9. CASE AddDNSLie(r)
    <3>1. /\ pc[r] = "lie" /\ pc' = [pc EXCEPT ![r] = "setindex"]
          /\ Nose' = Append(Nose, qname[r]) /\ lie' = [lie EXCEPT ![r] = Len(Nose)]
          /\ UNCHANGED <<profile, DNSCache, qname, mine, rec, top, answer>>
      BY <2>9 DEF AddDNSLie, Goto
    <3>2. qname[r] \in Name /\ TypeOK
      BY DEF IInv, TypeOK
    <3>3. /\ Len(Nose) \in Nat /\ Nose'[Len(Nose) + 1] = qname[r]
          /\ \A i \in 0..Len(Nose) - 1 : Nose'[i + 1] = Nose[i + 1]
      BY <3>1, <3>2, AppendNose
    <3>4. \A s \in Request : pc'[s] = "idle" <=> pc[s] = "idle"
      BY <2>0, <3>1
    <3>8. \A m, x : Of(m, x) => Of(m, x)'
      BY <3>1, <3>4 DEF Of
    <3>5. MineInv' /\ MapInv'
      BY <2>0, <3>1, <3>4, <3>8 DEF IInv, MineInv, MapInv
    <3>6. /\ \A s \in Record : rec[s].Index \in 0..Len(Nose) - 1
          /\ \A s \in Request : answer[s].index \in 0..Len(Nose) - 1 /\ lie[s] \in 0..Len(Nose) - 1
          /\ lie \in [Request -> 0..Len(Nose) - 1]
      BY DEF IInv, TypeOK
    <3>9. \A i \in 0..Len(Nose) - 1 : KeyAt(i)' = KeyAt(i)
      BY <3>1, <3>3 DEF KeyAt
    <3>10. \A s \in Request : pc'[s] = "setindex" => Nose'[lie'[s] + 1] = qname[s]
      <4> SUFFICES ASSUME NEW s \in Request, pc'[s] = "setindex" PROVE Nose'[lie'[s] + 1] = qname[s]
        OBVIOUS
      <4>1. CASE s = r
        BY <3>1, <3>3, <3>6, <4>1
      <4>2. CASE s # r
        <5>1. lie'[s] = lie[s] /\ pc[s] = "setindex"
          BY <2>0, <3>1, <3>6, <4>2
        <5>. QED
          BY <3>3, <3>6, <5>1 DEF IInv, IndexInv
      <4>. QED
        BY <4>1, <4>2
    <3>11. \A i \in 1..Len(Nose') - 1 : Nose'[i + 1] \in Line
      <4>1. Len(Nose') = Len(Nose) + 1
        BY <3>1, <3>2, AppendNose
      <4>2. \A i \in 1..Len(Nose') - 1 : i \in 1..Len(Nose) - 1 \/ i = Len(Nose)
        BY <3>3, <4>1
      <4>3. qname[r] \in Line
        BY <3>2 DEF Line
      <4>. QED
        BY <3>3, <4>2, <4>3 DEF IInv, IndexInv
    <3>7. IndexInv'
      <4>1. \A s \in Record : rec[s].Index > 0 => KeyAt(rec[s].Index)' \in Owners(s)
        BY <3>1, <3>6, <3>9 DEF IInv, IndexInv, KeyAt
      <4>2. \A s \in Request : answer[s].index > 0 => KeyAt(answer[s].index)' \in Bases(profile, qname[s])
        BY <3>1, <3>6, <3>9 DEF IInv, IndexInv, KeyAt
      <4>. QED
        BY <3>1, <3>4, <3>10, <3>11, <4>1, <4>2 DEF IInv, IndexInv, Owners
    <3>. QED
      BY <3>5, <3>7
  <2>10. CASE SetIndex(r)
    <3>1. /\ pc[r] = "setindex" /\ rec' = [rec EXCEPT ![mine[r]].Index = lie[r]]
          /\ \E label \in {"answer", "lock", "done"} : pc' = [pc EXCEPT ![r] = label]
          /\ UNCHANGED <<profile, DNSCache, Nose, qname, mine, top, lie, answer>>
      BY <2>10 DEF SetIndex, Goto, localVars
    <3>2. \A s \in Request : pc'[s] = "idle" <=> pc[s] = "idle"
      BY <2>0, <3>1
    <3>10. \A m, x : Of(m, x) => Of(m, x)'
      BY <3>1, <3>2 DEF Of
    <3>3. MineInv' /\ MapInv'
      BY <2>0, <3>1, <3>2, <3>10 DEF IInv, MineInv, MapInv
    <3>4. /\ Of(mine[r], qname[r]) /\ (mine[r] \in Request => pc[mine[r]] # "idle")
          /\ KeyAt(lie[r]) \in Owners(mine[r])
      <4>1. Of(mine[r], qname[r]) /\ Nose[lie[r] + 1] = qname[r] /\ qname[r] \in Name
        BY <3>1 DEF IInv, TypeOK, MineInv, IndexInv
      <4>. QED
        BY <4>1, OwnersOf DEF KeyAt, Of
    <3>5. \A s \in Record : rec'[s].Index = IF s = mine[r] THEN lie[r] ELSE rec[s].Index
      BY <3>1 DEF IInv, TypeOK
    <3>6. \A s \in Record : rec'[s].Index > 0 => KeyAt(rec'[s].Index) \in Owners(s)
      BY <3>4, <3>5 DEF IInv, IndexInv, Owners
    <3>7. \A s \in Request : pc'[s] = "setindex" => pc[s] = "setindex"
      BY <2>0, <3>1
    <3>8. \A s \in Request : pc'[s] = "idle" => rec'[s].Index = 0
      BY <2>0, <3>2, <3>4, <3>5 DEF IInv, IndexInv
    <3>9. IndexInv'
      BY <3>1, <3>2, <3>6, <3>7, <3>8 DEF IInv, IndexInv, Owners, KeyAt
    <3>. QED
      BY <3>3, <3>9
  <2>11. CASE Expire(r)
    BY <2>11 DEF Expire, localVars, IInv, MineInv, MapInv, IndexInv, Owners, KeyAt, Of
  <2>. QED
    BY <1>2, <2>1, <2>2, <2>3, <2>4, <2>5, <2>6, <2>7, <2>8, <2>9, <2>10, <2>11 DEF Step
<1>. QED
  BY <1>1, <1>2, TypeStep DEF Next, IInv

\* It holds in every reachable state.
LEMMA SpecInv == Spec => []IInv
  BY InitInv, NextInv, PTL DEF Spec

\* The types, for any number of queries: an index that is in use is one of Nose.
THEOREM TypeCorrect == Spec => []TypeOK
<1>1. IInv => TypeOK
  BY DEF IInv
<1>. QED
  BY <1>1, SpecInv, PTL

\* A fake address leads back to its name, to one that the profile has given the same
\* record, or to the rule, for any number of queries that race, any profile of the kind
\* modelled, and any number of fake addresses that is not exceeded.
THEOREM LieIsTrue == Spec => []LieTrue
<1>1. ASSUME IInv PROVE LieTrue
  <2> SUFFICES ASSUME Len(Nose) <= LieSpace, NEW r \in Request, answer[r].index > 0
               PROVE  Resolved(answer[r].index) \in Kin(profile, qname[r])
    BY DEF LieTrue
  <2>1. Len(Nose) \in Nat /\ answer[r].index \in 0..Len(Nose) - 1 /\ LieSpace \in Nat \ {0}
    BY <1>1, SpaceAssumption DEF IInv, TypeOK
  <2>2. \A i \in Nat : i < LieSpace => i % LieSpace = i
    BY SpaceAssumption
  <2>3. answer[r].index % LieSpace = answer[r].index
    BY <2>1, <2>2
  <2>4. KeyAt(answer[r].index) \in Bases(profile, qname[r])
    BY <1>1 DEF IInv, IndexInv
  <2>5. Nose[answer[r].index + 1] \in Line /\ profile \in Profiles /\ qname[r] \in Name
    BY <1>1, <2>1 DEF IInv, IndexInv, TypeOK
  <2>. QED
    BY <2>3, <2>4, <2>5, BaseKin DEF Resolved, KeyAt
<1>. QED
  BY <1>1, SpecInv, PTL

-----------------------------------------------------------------------------
(* Records whose queries never overlap.                                    *)

\* The key of the record that a query works on.
key(r) == Key(profile, qname[r])

Clean(k) == k \notin overlapped

\* At most one query for such a record is under way.
Single ==
  \A r, s \in Request :
    Active(r) /\ Active(s) /\ key(r) = key(s) /\ Clean(key(r)) => r = s

\* It works on the record in the map.
CurrentInv ==
  \A r \in Request : Active(r) /\ Clean(key(r)) =>
    /\ pc[r] = "store" => DNSCache[qname[r]] = None
    /\ pc[r] \notin {"load", "store"} => mine[r] = DNSCache[qname[r]]

\* The addresses of a record are its line's, or came with a query for it; one that was
\* made on the way has those of the rule, or its own.
Lists(k) == {q \in Request : pc[q] # "idle" /\ key(q) = k} \X {"answers", "empty"}

HintInv ==
  /\ \A k \in Line : rec[k].IPv4Hint \in {None, k} \cup Lists(k)
  /\ \A m \in Request :
       /\ rec[m].IPv4Hint \in {None, Suffix} \cup Lists(Suffix) \cup Lists(qname[m])
       /\ pc[m] = "idle" => rec[m].IPv4Hint = None

\* A list holds the address of its name, once, when its query was answered.
Early == {"load", "store", "top", "copy", "check", "clear", "cached", "resolve",
          "lie", "setindex", "lock", "answers"}

ListInv ==
  /\ overlapped = {} => \A k \in Line : addresses[k] = <<k>>
  /\ \A q \in Request :
       /\ pc[q] = "idle" \/ Alone(key(q)) => addresses[<<q, "empty">>] = << >>
       /\ pc[q] = "idle" \/ (Alone(key(q)) /\ pc[q] \in Early) => addresses[<<q, "answers">>] = << >>
       /\ Alone(key(q)) => addresses[<<q, "answers">>] \in {<< >>, <<qname[q]>>}

\* A query that asks for addresses has found none, and those it is to use are there.
FoundInv ==
  \A r \in Request : Clean(key(r)) =>
    /\ pc[r] \in {"resolve", "lie", "setindex", "lock", "answers"} => hint(r) = None
    /\ pc[r] \in {"cached", "locked", "log"} => hint(r) # None
    /\ pc[r] # "panic"

\* Addresses are asked for once, from a server that can be asked, and NSRequest asks for
\* none when it makes a fake address.
AskedInv ==
  \A r \in Request : got[r] =>
    /\ known
    /\ pc[r] \notin {"idle", "load", "store", "top", "copy", "check", "clear", "cached", "resolve"}
    /\ pc[r] \in {"lie", "setindex"} => entry[r] = "NSLookup"

\* What the server gave stays in the record until it is answered.
GotOwn(r) ==
  got[r] /\ Alone(key(r)) =>
    /\ pc[r] \in {"relock", "conclude", "locked", "log", "answer", "pack"} =>
         hint(r) = <<r, "answers">> /\ addresses[<<r, "answers">>] = <<qname[r]>>
    /\ pc[r] = "done" => answer[r].index > 0 \/ answer[r].addresses = <<qname[r]>>

GotInv == \A r \in Request : GotOwn(r)

UnansweredInv == \A r \in Request : pc[r] # "done" => answer[r].addresses = << >>

\* A list that queries for the name may be answered with.
Fair(p, n, a) == a = << >> \/ \E k \in Kin(p, n) : a = <<k>>

AnswerInv == overlapped = {} => \A r \in Request : Fair(profile, qname[r], answer[r].addresses)

\* A key with a fake address has its index in its record, or a query that is about to put
\* it there; and one that is about to get an address has none.
Named(k) == \E i \in DOMAIN Nose \ {1} : Key(profile, Nose[i]) = k

RecordOf(k) == IF k = Suffix THEN k ELSE IF profile.cache[k] = k THEN k ELSE DNSCache[k]

IndexKept ==
  known => \A k \in Line : Clean(k) /\ Named(k) =>
    /\ RecordOf(k) # None
    /\ rec[RecordOf(k)].Index > 0 \/ \E r \in Request : pc[r] = "setindex" /\ key(r) = k

NotNamed ==
  known => \A r \in Request :
    Clean(key(r)) /\ pc[r] \in {"top", "copy", "lie"} => ~Named(key(r))

LiePositive == \A r \in Request : pc[r] = "setindex" => lie[r] > 0

\* The inductive invariant of the clean records, on top of IInv.
CleanInv ==
  /\ Single /\ CurrentInv /\ HintInv /\ ListInv /\ FoundInv
  /\ AskedInv /\ GotInv /\ UnansweredInv /\ AnswerInv
  /\ IndexKept /\ NotNamed /\ LiePositive /\ OneLie

\* Before the first query no record is overlapped, and those with a fake address have
\* their index.
LEMMA InitClean == Init => CleanInv
<1> SUFFICES ASSUME Init PROVE CleanInv
  OBVIOUS
<1> USE SuffixAssumption, HintAssumption, LineAssumption
<1>0. /\ \A r \in Request : pc[r] = "idle" /\ ~got[r] /\ answer[r].addresses = << >>
      /\ overlapped = {}
  BY DEF Init, NoAnswer
<1>1. Single /\ CurrentInv /\ FoundInv
  BY <1>0 DEF Single, CurrentInv, FoundInv, Active
<1>2. HintInv
  <2>1. \A m \in Record : rec[m].IPv4Hint = IF m \in profile.lists THEN m ELSE None
    BY DEF Init
  <2>2. profile.lists \subseteq Line
    BY ProfileAssumption DEF Init
  <2>3. \A m \in Request : m \notin Line
    BY DEF Line
  <2>. QED
    BY <2>1, <2>2, <2>3 DEF HintInv, Record
<1>3. ListInv
  <2>1. \A h \in Hint : addresses[h] = IF h \in Line THEN <<h>> ELSE << >>
    BY DEF Init
  <2>2. \A q \in Request : \A x \in {"answers", "empty"} : <<q, x>> \in Hint /\ <<q, x>> \notin Line
    BY DEF Hint, Line
  <2>3. Line \subseteq Hint
    BY DEF Hint
  <2>. QED
    BY <2>1, <2>2, <2>3 DEF ListInv
<1>4. AskedInv /\ GotInv
  BY <1>0 DEF AskedInv, GotInv, GotOwn
<1>5. UnansweredInv /\ AnswerInv
  BY <1>0 DEF UnansweredInv, AnswerInv, Fair
<1> DEFINE nose == profile.nose
<1>6. \A i \in DOMAIN Nose \ {1} :
        /\ i - 1 \in DOMAIN nose /\ Nose[i] = nose[i - 1]
        /\ nose[i - 1] \in Line /\ Key(profile, nose[i - 1]) = nose[i - 1]
        /\ nose[i - 1] = Suffix \/ profile.cache[nose[i - 1]] = nose[i - 1]
  <2>1. /\ Nose \in Seq(Line \cup {None}) /\ Len(Nose) = Len(nose) + 1 /\ Len(nose) \in Nat
        /\ nose \in Seq({k \in Line : k = Suffix \/ profile.cache[k] = k})
    BY InitNose
  <2>2. DOMAIN Nose = 1..Len(nose) + 1 /\ DOMAIN nose = 1..Len(nose)
    BY <2>1
  <2>3. SUFFICES ASSUME NEW i \in DOMAIN Nose \ {1}
                 PROVE  /\ i - 1 \in DOMAIN nose /\ Nose[i] = nose[i - 1]
                        /\ nose[i - 1] \in Line /\ Key(profile, nose[i - 1]) = nose[i - 1]
                        /\ nose[i - 1] = Suffix \/ profile.cache[nose[i - 1]] = nose[i - 1]
    OBVIOUS
  <2>4. i - 1 \in 1..Len(nose) /\ (i - 1) + 1 = i
    BY <2>1, <2>2
  <2> DEFINE j == i - 1
  <2>5. j \in 1..Len(nose) /\ j + 1 = i
    BY <2>4
  <2> HIDE DEF j
  <2>6. /\ Nose[i] = nose[j] /\ nose[j] \in Line
        /\ nose[j] = Suffix \/ profile.cache[nose[j]] = nose[j]
    BY <2>5, InitNose
  <2>7. Key(profile, nose[j]) = nose[j]
    BY <2>6 DEF Key
  <2>. QED
    BY <2>2, <2>5, <2>6, <2>7 DEF j
<1>7. OneLie
  <2>1. \A i, j \in DOMAIN nose : nose[i] = nose[j] => i = j
    BY ProfileAssumption DEF Init
  <2>2. DOMAIN Nose \subseteq Nat
    BY InitNose
  <2>3. ASSUME NEW i \in DOMAIN Nose \ {1}, NEW j \in DOMAIN Nose \ {1},
               Key(profile, Nose[i]) = Key(profile, Nose[j])
        PROVE  i = j
    <3>1. i - 1 = j - 1
      BY <1>6, <2>1, <2>3
    <3>. QED
      BY <2>2, <3>1
  <2>. QED
    BY <2>3 DEF OneLie
<1>8. IndexKept
  <2>1. SUFFICES ASSUME NEW k \in Line, Named(k)
                 PROVE  RecordOf(k) # None /\ rec[RecordOf(k)].Index > 0
    BY DEF IndexKept
  <2>2. PICK i \in DOMAIN Nose \ {1} : Key(profile, Nose[i]) = k
    BY <2>1 DEF Named
  <2>3. k = nose[i - 1] /\ i - 1 \in DOMAIN nose /\ (k = Suffix \/ profile.cache[k] = k)
    BY <1>6, <2>2
  <2>4. RecordOf(k) = k /\ k # None /\ k \in Record
    BY <2>3 DEF RecordOf, Record, Line
  <2>5. rec[k].Index = CHOOSE x \in DOMAIN nose : nose[x] = k
    BY <2>3, <2>4 DEF Init
  <2>6. rec[k].Index \in DOMAIN nose
    BY <2>3, <2>5
  <2>7. DOMAIN nose \subseteq Nat \ {0}
    BY InitNose
  <2>. QED
    BY <2>4, <2>6, <2>7
<1>9. NotNamed /\ LiePositive
  BY <1>0 DEF NotNamed, LiePositive
<1> QED BY <1>1, <1>2, <1>3, <1>4, <1>5, <1>7, <1>8, <1>9 DEF CleanInv

\* A record that was made for a name has the key of the name.
RecordKey(m) == IF m \in Request THEN qname[m] ELSE m

LEMMA OfKey ==
  ASSUME IInv, NEW n \in Name, NEW m, Of(m, n)
  PROVE  RecordKey(m) = Key(profile, n) /\ m \in Record /\ m # None
<1>1. profile \in Profiles
  BY DEF IInv, TypeOK
<1>2. m # None
  BY SuffixAssumption DEF Of, Record, Line
<1> QED BY <1>1, <1>2, KeyFacts DEF Of, RecordKey

\* The record of a query under way.
LEMMA MineKey ==
  ASSUME IInv, NEW r \in Request, pc[r] \notin {"idle", "load"}
  PROVE  Of(mine[r], qname[r]) /\ RecordKey(mine[r]) = key(r) /\ mine[r] \in Record
<1>1. Of(mine[r], qname[r]) /\ qname[r] \in Name
  BY DEF IInv, MineInv, TypeOK
<1> QED BY <1>1, OfKey DEF key

\* Two queries under way work on different records, where the record of one is clean.
LEMMA Apart ==
  ASSUME IInv, CleanInv, NEW r \in Request, Active(r)
  PROVE  \A s \in Request : s # r /\ Active(s) /\ Clean(key(s)) =>
           /\ key(s) # key(r)
           /\ pc[r] # "load" /\ pc[s] # "load" => mine[s] # mine[r]
<1> SUFFICES ASSUME NEW s \in Request, s # r, Active(s), Clean(key(s))
             PROVE  /\ key(s) # key(r)
                    /\ pc[r] # "load" /\ pc[s] # "load" => mine[s] # mine[r]
  OBVIOUS
<1>1. key(s) # key(r)
  BY DEF CleanInv, Single
<1>2. pc[r] # "load" /\ pc[s] # "load" => RecordKey(mine[s]) = key(s) /\ RecordKey(mine[r]) = key(r)
  BY MineKey DEF Active
<1> QED BY <1>1, <1>2

\* The record of the key of a clean query is the one it works on.
LEMMA MineRecord ==
  ASSUME IInv, CleanInv, NEW r \in Request, Active(r), pc[r] \notin {"load", "store"}, Clean(key(r))
  PROVE  RecordOf(key(r)) = mine[r]
<1> USE SuffixAssumption
<1>1. mine[r] = DNSCache[qname[r]] /\ Of(mine[r], qname[r]) /\ profile \in Profiles /\ qname[r] \in Name
  BY DEF CleanInv, CurrentInv, IInv, MineInv, TypeOK, Active
<1>2. CASE mine[r] \in Request
  <2>1. profile.cache[qname[r]] = None /\ key(r) = qname[r]
    BY <1>1, <1>2, KeyFacts DEF Of, key
  <2>. QED
    BY <1>1, <2>1 DEF RecordOf
<1>3. CASE mine[r] \notin Request
  <2>1. mine[r] = profile.cache[qname[r]] /\ mine[r] \in Line /\ mine[r] # None
    BY <1>1, <1>3 DEF Of, Record, Line
  <2>2. key(r) = mine[r]
    BY <1>1, <2>1, KeyFacts DEF key
  <2>3. mine[r] = Suffix \/ profile.cache[mine[r]] = mine[r]
    BY <1>1, <2>1, ProfileAssumption DEF Line
  <2>. QED
    BY <2>2, <2>3 DEF RecordOf
<1> QED BY <1>2, <1>3

\* Where addresses of a record come from, seen from a name that the record was made for.
LEMMA HintBase ==
  ASSUME IInv, CleanInv, NEW n \in Name, NEW m, Of(m, n), rec[m].IPv4Hint # None
  PROVE  \/ rec[m].IPv4Hint \in Line /\ Key(profile, rec[m].IPv4Hint) \in Bases(profile, n)
         \/ \E k \in Bases(profile, n) : rec[m].IPv4Hint \in Lists(k)
<1> USE SuffixAssumption
<1>1. profile \in Profiles
  BY DEF IInv, TypeOK
<1>2. CASE m \in Request
  <2>1. qname[m] = n /\ Bases(profile, n) = {n, Suffix}
    BY <1>2 DEF Of, Bases
  <2>2. rec[m].IPv4Hint \in {Suffix} \cup Lists(Suffix) \cup Lists(n)
    BY <1>2, <2>1 DEF CleanInv, HintInv
  <2>3. Key(profile, Suffix) = Suffix /\ Suffix \in Line
    BY <1>1, KeyFacts DEF Line
  <2>. QED
    BY <2>1, <2>2, <2>3
<1>3. CASE m \notin Request
  <2>1. m = profile.cache[n] /\ m \in Line /\ m # None
    BY <1>3 DEF Of, Record, Line
  <2>2. Bases(profile, n) = {m} /\ Key(profile, m) = m
    BY <1>1, <2>1, KeyFacts DEF Bases
  <2>3. rec[m].IPv4Hint \in {m} \cup Lists(m)
    BY <2>1 DEF CleanInv, HintInv
  <2>. QED
    BY <2>1, <2>2, <2>3
<1> QED BY <1>2, <1>3

\* What an assignment to one field of a record, or of an answer, leaves as it is.
LEMMA HintSet ==
  ASSUME TypeOK, NEW m \in Record, NEW h, rec' = [rec EXCEPT ![m].IPv4Hint = h]
  PROVE  \A x \in Record : rec'[x].Index = rec[x].Index
           /\ rec'[x].IPv4Hint = IF x = m THEN h ELSE rec[x].IPv4Hint
BY DEF TypeOK

\* Whether or not the addresses of one record are set, the other records keep theirs.
LEMMA HintKept ==
  ASSUME TypeOK, NEW m \in Record, NEW h,
         rec' = [rec EXCEPT ![m].IPv4Hint = h] \/ rec' = rec
  PROVE  /\ \A x \in Record : rec'[x].Index = rec[x].Index
         /\ \A x \in Record : x # m => rec'[x].IPv4Hint = rec[x].IPv4Hint
BY DEF TypeOK

\* The same of the index of a record.
LEMMA IndexSet ==
  ASSUME TypeOK, NEW m \in Record, NEW i, rec' = [rec EXCEPT ![m].Index = i]
  PROVE  /\ \A x \in Record : rec'[x].IPv4Hint = rec[x].IPv4Hint
         /\ \A x \in Record : rec'[x].Index = IF x = m THEN i ELSE rec[x].Index
BY DEF TypeOK

\* The same of the addresses of an answer.
LEMMA AnswerSet ==
  ASSUME TypeOK, NEW r \in Request, NEW a, answer' = [answer EXCEPT ![r].addresses = a]
  PROVE  \A x \in Request : answer'[x].addresses = IF x = r THEN a ELSE answer[x].addresses
BY DEF TypeOK

\* The same of the index of an answer.
LEMMA AnswerIndexSet ==
  ASSUME TypeOK, NEW r \in Request, NEW i, answer' = [answer EXCEPT ![r].index = i]
  PROVE  \A x \in Request : answer'[x].addresses = answer[x].addresses
BY DEF TypeOK

\* GetAnswers adds to a list that some record of the same key has, or the rule's: to a new
\* one, where queries do not overlap.
LEMMA AnswersStored ==
  ASSUME IInv, CleanInv, NEW r \in Request, GetAnswers(r)
  PROVE  /\ pc[r] = "answers" /\ Of(mine[r], qname[r]) /\ mine[r] \in Record /\ RecordKey(mine[r]) = key(r)
         /\ \E label \in {"relock", "conclude"} : pc' = [pc EXCEPT ![r] = label]
         /\ UNCHANGED <<fakeip, known, profile, DNSCache, Nose, entry, qname, mine, lie, got, answer, overlapped>>
         /\ \E h \in (Line \cup Lists(key(r)) \cup Lists(Suffix)) \cap Hint :
              /\ Clean(key(r)) => h = <<r, "answers">>
              /\ rec[mine[r]].IPv4Hint = h \/ h = <<r, "answers">>
              /\ \/ /\ got[r] /\ rec' = [rec EXCEPT ![mine[r]].IPv4Hint = h]
                    /\ addresses' = [addresses EXCEPT ![h] = Append(@, qname[r])]
                 \/ ~got[r] /\ UNCHANGED <<rec, addresses>>
<1> USE SuffixAssumption, HintAssumption
<1> DEFINE h == IF hint(r) = None THEN <<r, "answers">> ELSE hint(r)
<1>1. pc[r] = "answers" /\ Of(mine[r], qname[r]) /\ mine[r] \in Record /\ RecordKey(mine[r]) = key(r)
  BY MineKey DEF GetAnswers
<1>2. /\ \E label \in {"relock", "conclude"} : pc' = [pc EXCEPT ![r] = label]
      /\ UNCHANGED <<fakeip, known, profile, DNSCache, Nose, entry, qname, mine, lie, got, answer, overlapped>>
  BY DEF GetAnswers, Goto, localVars
<1>3. \/ /\ got[r] /\ rec' = [rec EXCEPT ![mine[r]].IPv4Hint = h]
         /\ addresses' = [addresses EXCEPT ![h] = Append(@, qname[r])]
      \/ ~got[r] /\ UNCHANGED <<rec, addresses>>
  BY DEF GetAnswers
<1>4. h \in (Line \cup Lists(key(r)) \cup Lists(Suffix)) \cap Hint
  <2>1. CASE hint(r) = None
    BY <1>1, <2>1 DEF Lists, Hint
  <2>2. CASE hint(r) # None
    <3>1. qname[r] \in Name /\ profile \in Profiles
      BY DEF IInv, TypeOK
    <3>2. hint(r) \in Hint
      BY <1>1, <2>2 DEF IInv, TypeOK, hint
    <3>3. rec[mine[r]].IPv4Hint \in Line \/ \E k \in Bases(profile, qname[r]) : rec[mine[r]].IPv4Hint \in Lists(k)
      BY <1>1, <2>2, <3>1, HintBase DEF hint
    <3>4. Bases(profile, qname[r]) \subseteq {key(r), Suffix}
      BY <3>1, KeyFacts DEF Bases, key
    <3>. QED
      BY <2>2, <3>2, <3>3, <3>4 DEF hint
  <2>. QED
    BY <2>1, <2>2
<1>5. Clean(key(r)) => h = <<r, "answers">>
  BY <1>1 DEF CleanInv, FoundInv
<1>6. rec[mine[r]].IPv4Hint = h \/ h = <<r, "answers">>
  BY DEF hint
<1> HIDE DEF h
<1> QED BY <1>1, <1>2, <1>3, <1>4, <1>5, <1>6

\* A query that begins while another one asks for the same name spoils the name.
LEMMA StepSingle == ASSUME IInv, CleanInv, [Next]_vars PROVE Single'
<1>t. /\ pc \in [Request -> Label]
      /\ qname \in [Request -> Name]
  BY DEF IInv, TypeOK
<1>h. Single
  BY DEF CleanInv, IInv
<1> USE <1>t, <1>h, SuffixAssumption, HintAssumption
    DEF Single, Active, Label, sharedVars, localVars, Clean, key
<1>1. ASSUME NEW r \in Request, NEW n \in Name,
             NEW e \in {"NSRequest", "NSLookup"}, Begin(r, n, e)
      PROVE  Single'
  BY <1>1 DEF Begin, Goto
<1>2. ASSUME NEW r \in Request, LoadDNSCache(r) PROVE Single'
  BY <1>2 DEF LoadDNSCache, Goto
<1>3. ASSUME NEW r \in Request, StoreDNSCache(r) PROVE Single'
  BY <1>3 DEF StoreDNSCache, Goto
<1>4. ASSUME NEW r \in Request, LoadTop(r) PROVE Single'
  BY <1>4 DEF LoadTop, Goto
<1>5. ASSUME NEW r \in Request, CopyTop(r) PROVE Single'
  BY <1>5 DEF CopyTop, Goto
<1>6. ASSUME NEW r \in Request, CheckRequest(r) PROVE Single'
  BY <1>6 DEF CheckRequest, Goto
<1>7. ASSUME NEW r \in Request, CheckLookup(r) PROVE Single'
  BY <1>7 DEF CheckLookup, Goto
<1>8. ASSUME NEW r \in Request, ClearHint(r) PROVE Single'
  BY <1>8 DEF ClearHint, Goto
<1>9. ASSUME NEW r \in Request, ResolveFake(r) PROVE Single'
  BY <1>9 DEF ResolveFake, Goto
<1>10. ASSUME NEW r \in Request, ResolveFails(r) PROVE Single'
  BY <1>10 DEF ResolveFails, Goto, AsksUpstream
<1>11. ASSUME NEW r \in Request, ResolveFiltered(r) PROVE Single'
  BY <1>11 DEF ResolveFiltered, Goto, AsksUpstream
<1>12. ASSUME NEW r \in Request, ResolveReal(r) PROVE Single'
  BY <1>12 DEF ResolveReal, Goto, AsksUpstream
<1>13. ASSUME NEW r \in Request, ResolveUnknown(r) PROVE Single'
  BY <1>13 DEF ResolveUnknown, Goto, AsksUpstream
<1>14. ASSUME NEW r \in Request, AddDNSLie(r) PROVE Single'
  BY <1>14 DEF AddDNSLie, Goto
<1>15. ASSUME NEW r \in Request, SetIndex(r) PROVE Single'
  BY <1>15 DEF SetIndex, Goto
<1>16. ASSUME NEW r \in Request, Lock(r) PROVE Single'
  BY <1>16 DEF Lock, Goto
<1>17. ASSUME NEW r \in Request, GetAnswers(r) PROVE Single'
  BY <1>17 DEF GetAnswers, Goto
<1>18. ASSUME NEW r \in Request, Conclude(r) PROVE Single'
  BY <1>18 DEF Conclude, Goto
<1>19. ASSUME NEW r \in Request, LogResponse(r) PROVE Single'
  BY <1>19 DEF LogResponse, Goto
<1>20. ASSUME NEW r \in Request, BuildResponse(r) PROVE Single'
  BY <1>20 DEF BuildResponse, Goto
<1>21. ASSUME NEW r \in Request, PackAnswers(r) PROVE Single'
  BY <1>21 DEF PackAnswers, Goto
<1>22. ASSUME NEW r \in Request, AnswerLookup(r) PROVE Single'
  BY <1>22 DEF AnswerLookup, Goto
<1>23. ASSUME NEW r \in Request, Expire(r) PROVE Single'
  BY <1>23 DEF Expire, Goto
<1>24. ASSUME UNCHANGED vars PROVE Single'
  BY <1>24 DEF vars
<1> QED
  BY ONLY [Next]_vars, <1>1, <1>2, <1>3, <1>4, <1>5, <1>6, <1>7, <1>8, <1>9,
     <1>10, <1>11, <1>12, <1>13, <1>14, <1>15, <1>16, <1>17, <1>18, <1>19, <1>20,
     <1>21, <1>22, <1>23, <1>24 DEF Next, Step

\* Only a query for the name changes the map at it, and there is one.
LEMMA StepCurrent == ASSUME IInv, CleanInv, [Next]_vars PROVE CurrentInv'
<1>t. /\ pc \in [Request -> Label]
      /\ qname \in [Request -> Name]
      /\ mine \in [Request -> Record \cup {None}]
      /\ DNSCache \in [Name -> Record \cup {None}]
  BY DEF IInv, TypeOK
<1>h. CurrentInv
  BY DEF CleanInv, IInv
<1> USE <1>t, <1>h, SuffixAssumption, HintAssumption
    DEF CurrentInv, Active, sharedVars, localVars, Clean, key
<1>1. ASSUME NEW r \in Request, NEW n \in Name,
             NEW e \in {"NSRequest", "NSLookup"}, Begin(r, n, e)
      PROVE  CurrentInv'
  BY <1>1, Apart DEF Begin, Goto
<1>2. ASSUME NEW r \in Request, LoadDNSCache(r) PROVE CurrentInv'
  <2>1. CASE DNSCache[qname[r]] # None
    <3>1. /\ mine' = [mine EXCEPT ![r] = DNSCache[qname[r]]] /\ pc' = [pc EXCEPT ![r] = "check"]
      BY <1>2, <2>1 DEF LoadDNSCache, Goto
    <3> QED BY <1>2, <2>1, <3>1 DEF LoadDNSCache
  <2>2. CASE DNSCache[qname[r]] = None
    <3>1. /\ mine' = [mine EXCEPT ![r] = r] /\ pc' = [pc EXCEPT ![r] = "store"]
      BY <1>2, <2>2 DEF LoadDNSCache, Goto
    <3> QED BY <1>2, <2>2, <3>1 DEF LoadDNSCache
  <2> QED BY <2>1, <2>2
<1>3. ASSUME NEW r \in Request, StoreDNSCache(r) PROVE CurrentInv'
  BY <1>3, Apart DEF StoreDNSCache, Goto
<1>4. ASSUME NEW r \in Request, LoadTop(r) PROVE CurrentInv'
  BY <1>4, Apart DEF LoadTop, Goto
<1>5. ASSUME NEW r \in Request, CopyTop(r) PROVE CurrentInv'
  BY <1>5, Apart DEF CopyTop, Goto
<1>6. ASSUME NEW r \in Request, CheckRequest(r) PROVE CurrentInv'
  BY <1>6, Apart DEF CheckRequest, Goto
<1>7. ASSUME NEW r \in Request, CheckLookup(r) PROVE CurrentInv'
  BY <1>7, Apart DEF CheckLookup, Goto
<1>8. ASSUME NEW r \in Request, ClearHint(r) PROVE CurrentInv'
  BY <1>8, Apart DEF ClearHint, Goto
<1>9. ASSUME NEW r \in Request, ResolveFake(r) PROVE CurrentInv'
  BY <1>9, Apart DEF ResolveFake, Goto
<1>10. ASSUME NEW r \in Request, ResolveFails(r) PROVE CurrentInv'
  BY <1>10, Apart DEF ResolveFails, Goto, AsksUpstream
<1>11. ASSUME NEW r \in Request, ResolveFiltered(r) PROVE CurrentInv'
  BY <1>11, Apart DEF ResolveFiltered, Goto, AsksUpstream
<1>12. ASSUME NEW r \in Request, ResolveReal(r) PROVE CurrentInv'
  BY <1>12, Apart DEF ResolveReal, Goto, AsksUpstream
<1>13. ASSUME NEW r \in Request, ResolveUnknown(r) PROVE CurrentInv'
  BY <1>13, Apart DEF ResolveUnknown, Goto, AsksUpstream
<1>14. ASSUME NEW r \in Request, AddDNSLie(r) PROVE CurrentInv'
  BY <1>14, Apart DEF AddDNSLie, Goto
<1>15. ASSUME NEW r \in Request, SetIndex(r) PROVE CurrentInv'
  BY <1>15, Apart DEF SetIndex, Goto
<1>16. ASSUME NEW r \in Request, Lock(r) PROVE CurrentInv'
  BY <1>16, Apart DEF Lock, Goto
<1>17. ASSUME NEW r \in Request, GetAnswers(r) PROVE CurrentInv'
  BY <1>17, Apart DEF GetAnswers, Goto
<1>18. ASSUME NEW r \in Request, Conclude(r) PROVE CurrentInv'
  BY <1>18, Apart DEF Conclude, Goto
<1>19. ASSUME NEW r \in Request, LogResponse(r) PROVE CurrentInv'
  BY <1>19, Apart DEF LogResponse, Goto
<1>20. ASSUME NEW r \in Request, BuildResponse(r) PROVE CurrentInv'
  BY <1>20, Apart DEF BuildResponse, Goto
<1>21. ASSUME NEW r \in Request, PackAnswers(r) PROVE CurrentInv'
  BY <1>21, Apart DEF PackAnswers, Goto
<1>22. ASSUME NEW r \in Request, AnswerLookup(r) PROVE CurrentInv'
  BY <1>22, Apart DEF AnswerLookup, Goto
<1>23. ASSUME NEW r \in Request, Expire(r) PROVE CurrentInv'
  BY <1>23, Apart DEF Expire, Goto
<1>24. ASSUME UNCHANGED vars PROVE CurrentInv'
  BY <1>24 DEF vars
<1> QED
  BY ONLY [Next]_vars, <1>1, <1>2, <1>3, <1>4, <1>5, <1>6, <1>7, <1>8, <1>9,
     <1>10, <1>11, <1>12, <1>13, <1>14, <1>15, <1>16, <1>17, <1>18, <1>19, <1>20,
     <1>21, <1>22, <1>23, <1>24 DEF Next, Step

\* Addresses are stored in a record by queries for its name.
LEMMA StepHint == ASSUME IInv, CleanInv, [Next]_vars PROVE HintInv'
<1>t. /\ pc \in [Request -> Label]
      /\ qname \in [Request -> Name]
      /\ rec \in [Record -> [Index : 0..Len(Nose) - 1, IPv4Hint : Hint \cup {None}]]
  BY DEF IInv, TypeOK
<1>h. TypeOK /\ HintInv /\ MineInv
  BY DEF CleanInv, IInv
<1> USE <1>t, <1>h, SuffixAssumption, HintAssumption
    DEF HintInv, Lists, MineInv, hint, Record, sharedVars, localVars, Clean, key
<1>1. ASSUME NEW r \in Request, NEW n \in Name,
             NEW e \in {"NSRequest", "NSLookup"}, Begin(r, n, e)
      PROVE  HintInv'
  <2> HIDE DEF Lists, Record
  <2>1. /\ pc[r] = "idle" /\ pc' = [pc EXCEPT ![r] = "load"] /\ qname' = [qname EXCEPT ![r] = n]
        /\ UNCHANGED <<profile, rec>>
    BY <1>1 DEF Begin, Goto
  <2>2. \A k : Lists(k) \subseteq Lists(k)'
    BY <2>1 DEF Lists
  <2>3. \A m \in Request : m # r => qname'[m] = qname[m] /\ pc'[m] = pc[m]
    BY <2>1
  <2>4. rec[r].IPv4Hint = None
    BY <2>1
  <2> QED BY <2>1, <2>2, <2>3, <2>4
<1>2. ASSUME NEW r \in Request, LoadDNSCache(r) PROVE HintInv'
  BY <1>2 DEF LoadDNSCache, Goto
<1>3. ASSUME NEW r \in Request, StoreDNSCache(r) PROVE HintInv'
  BY <1>3 DEF StoreDNSCache, Goto
<1>4. ASSUME NEW r \in Request, LoadTop(r) PROVE HintInv'
  BY <1>4 DEF LoadTop, Goto
<1>5. ASSUME NEW r \in Request, CopyTop(r) PROVE HintInv'
  <2> HIDE DEF Lists, Record
  <2>1. /\ pc' = [pc EXCEPT ![r] = "check"] /\ pc[r] = "copy" /\ mine[r] \in Request
        /\ rec' = [rec EXCEPT ![mine[r]] = rec[Suffix]]
        /\ UNCHANGED <<profile, qname>>
    BY <1>5 DEF CopyTop, Goto
  <2>2. \A k : Lists(k)' = Lists(k)
    BY <2>1 DEF Lists
  <2>3. pc[mine[r]] # "idle" /\ mine[r] \notin Line /\ Suffix \in Line /\ mine[r] \in Record
    BY <2>1, LineAssumption DEF Of, Line, Record
  <2>4. \A m \in Record : rec'[m].IPv4Hint = IF m = mine[r] THEN rec[Suffix].IPv4Hint ELSE rec[m].IPv4Hint
    BY <2>1, <2>3
  <2>5. \A m \in Request : pc'[m] = "idle" => pc[m] = "idle"
    BY <2>1
  <2> QED BY <2>1, <2>2, <2>3, <2>4, <2>5
<1>6. ASSUME NEW r \in Request, CheckRequest(r) PROVE HintInv'
  BY <1>6 DEF CheckRequest, Goto
<1>7. ASSUME NEW r \in Request, CheckLookup(r) PROVE HintInv'
  BY <1>7 DEF CheckLookup, Goto
<1>8. ASSUME NEW r \in Request, ClearHint(r) PROVE HintInv'
  BY <1>8 DEF ClearHint, Goto
<1>9. ASSUME NEW r \in Request, ResolveFake(r) PROVE HintInv'
  BY <1>9 DEF ResolveFake, Goto
<1>10. ASSUME NEW r \in Request, ResolveFails(r) PROVE HintInv'
  BY <1>10 DEF ResolveFails, Goto, AsksUpstream
<1>11. ASSUME NEW r \in Request, ResolveFiltered(r) PROVE HintInv'
  BY <1>11 DEF ResolveFiltered, Goto, AsksUpstream
<1>12. ASSUME NEW r \in Request, ResolveReal(r) PROVE HintInv'
  BY <1>12 DEF ResolveReal, Goto, AsksUpstream
<1>13. ASSUME NEW r \in Request, ResolveUnknown(r) PROVE HintInv'
  BY <1>13 DEF ResolveUnknown, Goto, AsksUpstream
<1>14. ASSUME NEW r \in Request, AddDNSLie(r) PROVE HintInv'
  BY <1>14 DEF AddDNSLie, Goto
<1>15. ASSUME NEW r \in Request, SetIndex(r) PROVE HintInv'
  BY <1>15 DEF SetIndex, Goto
<1>16. ASSUME NEW r \in Request, Lock(r) PROVE HintInv'
  BY <1>16 DEF Lock, Goto
<1>17. ASSUME NEW r \in Request, GetAnswers(r) PROVE HintInv'
  <2> HIDE DEF Lists, Record
  <2>p. /\ pc[r] = "answers" /\ Of(mine[r], qname[r]) /\ mine[r] \in Record /\ RecordKey(mine[r]) = key(r)
        /\ \E label \in {"relock", "conclude"} : pc' = [pc EXCEPT ![r] = label]
        /\ UNCHANGED <<fakeip, known, profile, DNSCache, Nose, entry, qname, mine, lie, got, answer, overlapped>>
    BY <1>17, AnswersStored
  <2>q. PICK h \in (Line \cup Lists(key(r)) \cup Lists(Suffix)) \cap Hint :
          /\ Clean(key(r)) => h = <<r, "answers">>
          /\ rec[mine[r]].IPv4Hint = h \/ h = <<r, "answers">>
          /\ \/ /\ got[r] /\ rec' = [rec EXCEPT ![mine[r]].IPv4Hint = h]
                /\ addresses' = [addresses EXCEPT ![h] = Append(@, qname[r])]
             \/ ~got[r] /\ UNCHANGED <<rec, addresses>>
    BY <1>17, AnswersStored
  <2>1. \A x \in Record : rec'[x].IPv4Hint = rec[x].IPv4Hint \/ (x = mine[r] /\ rec'[x].IPv4Hint = h)
    BY <2>p, <2>q, HintSet
  <2>2. \A k : Lists(k)' = Lists(k)
    BY <2>p DEF Lists
  <2>3. \A m \in Request : pc'[m] = "idle" => pc[m] = "idle"
    BY <2>p
  <2>4. mine[r] \in Request => pc[mine[r]] # "idle"
    BY <2>p DEF Of
  <2>5. <<r, "answers">> \in Lists(RecordKey(mine[r]))
    BY <2>p DEF Lists
  <2>6. \A m \in Record : rec'[m].IPv4Hint = rec[m].IPv4Hint
                          \/ (m = mine[r] /\ rec'[m].IPv4Hint \in Lists(RecordKey(m)))
    <3>1. \/ rec[mine[r]].IPv4Hint = h
          \/ h \in Lists(RecordKey(mine[r]))
      BY ONLY <2>q, <2>5
    <3> QED BY ONLY <2>1, <3>1
  <2>7. \A m \in Request : m \notin Line
    BY LineAssumption DEF Line
  <2>8. Request \subseteq Record /\ Line \subseteq Record
    BY DEF Record
  <2> QED BY ONLY HintInv, <2>p, <2>2, <2>3, <2>4, <2>6, <2>7, <2>8 DEF RecordKey, HintInv
<1>18. ASSUME NEW r \in Request, Conclude(r) PROVE HintInv'
  <2> HIDE DEF Lists, Record
  <2>1. /\ pc[r] = "conclude" /\ UNCHANGED <<profile, qname>>
        /\ \E label \in Label \ {"idle"} : pc' = [pc EXCEPT ![r] = label]
        /\ rec' = rec \/ rec' = [rec EXCEPT ![mine[r]].IPv4Hint = <<r, "empty">>]
    BY <1>18 DEF Conclude, Goto, Label
  <2>2. \A k : Lists(k)' = Lists(k)
    BY <2>1 DEF Lists
  <2>3. \A m \in Request : pc'[m] = "idle" => pc[m] = "idle"
    BY <2>1
  <2>4. /\ Of(mine[r], qname[r]) /\ RecordKey(mine[r]) = key(r) /\ mine[r] \in Record
        /\ mine[r] \in Request => pc[mine[r]] # "idle"
    BY <2>1, MineKey DEF Of
  <2>5. <<r, "empty">> \in Lists(RecordKey(mine[r]))
    BY <2>1, <2>4 DEF Lists
  <2>6. \A m \in Record : rec'[m].IPv4Hint = rec[m].IPv4Hint
                          \/ (m = mine[r] /\ rec'[m].IPv4Hint \in Lists(RecordKey(m)))
    <3>1. CASE rec' = rec
      BY <3>1
    <3>2. CASE rec' = [rec EXCEPT ![mine[r]].IPv4Hint = <<r, "empty">>]
      <4>1. \A m \in Record : rec'[m].IPv4Hint = IF m = mine[r] THEN <<r, "empty">> ELSE rec[m].IPv4Hint
        BY <1>h, <2>4, <3>2, HintSet
      <4> QED BY ONLY <2>5, <4>1
    <3> QED BY ONLY <2>1, <3>1, <3>2
  <2>7. \A m \in Request : m \notin Line
    BY LineAssumption DEF Line
  <2>8. Request \subseteq Record /\ Line \subseteq Record
    BY DEF Record
  <2> QED BY ONLY HintInv, <2>1, <2>2, <2>3, <2>4, <2>6, <2>7, <2>8 DEF RecordKey, HintInv
<1>19. ASSUME NEW r \in Request, LogResponse(r) PROVE HintInv'
  BY <1>19 DEF LogResponse, Goto
<1>20. ASSUME NEW r \in Request, BuildResponse(r) PROVE HintInv'
  BY <1>20 DEF BuildResponse, Goto
<1>21. ASSUME NEW r \in Request, PackAnswers(r) PROVE HintInv'
  BY <1>21 DEF PackAnswers, Goto
<1>22. ASSUME NEW r \in Request, AnswerLookup(r) PROVE HintInv'
  BY <1>22 DEF AnswerLookup, Goto
<1>23. ASSUME NEW r \in Request, Expire(r) PROVE HintInv'
  BY <1>23 DEF Expire, Goto
<1>24. ASSUME UNCHANGED vars PROVE HintInv'
  BY <1>24 DEF vars
<1> QED
  BY ONLY [Next]_vars, <1>1, <1>2, <1>3, <1>4, <1>5, <1>6, <1>7, <1>8, <1>9,
     <1>10, <1>11, <1>12, <1>13, <1>14, <1>15, <1>16, <1>17, <1>18, <1>19, <1>20,
     <1>21, <1>22, <1>23, <1>24 DEF Next, Step

\* A list that is not empty is not stored again, where queries do not overlap.
LEMMA StepList == ASSUME IInv, CleanInv, [Next]_vars PROVE ListInv'
<1>t. /\ pc \in [Request -> Label]
      /\ qname \in [Request -> Name]
      /\ addresses \in [Hint -> Seq(Line)]
  BY DEF IInv, TypeOK
<1>h. TypeOK /\ ListInv /\ HintInv /\ FoundInv /\ MineInv
  BY DEF CleanInv, IInv
<1> USE <1>t, <1>h, SuffixAssumption, HintAssumption
    DEF ListInv, Early, Hint, sharedVars, localVars, Clean, Alone, key
<1>1. ASSUME NEW r \in Request, NEW n \in Name,
             NEW e \in {"NSRequest", "NSLookup"}, Begin(r, n, e)
      PROVE  ListInv'
  BY <1>1, Apart DEF Begin, Goto
<1>2. ASSUME NEW r \in Request, LoadDNSCache(r) PROVE ListInv'
  BY <1>2, Apart DEF LoadDNSCache, Goto
<1>3. ASSUME NEW r \in Request, StoreDNSCache(r) PROVE ListInv'
  BY <1>3, Apart DEF StoreDNSCache, Goto
<1>4. ASSUME NEW r \in Request, LoadTop(r) PROVE ListInv'
  BY <1>4, Apart DEF LoadTop, Goto
<1>5. ASSUME NEW r \in Request, CopyTop(r) PROVE ListInv'
  BY <1>5, Apart DEF CopyTop, Goto
<1>6. ASSUME NEW r \in Request, CheckRequest(r) PROVE ListInv'
  BY <1>6, Apart DEF CheckRequest, Goto
<1>7. ASSUME NEW r \in Request, CheckLookup(r) PROVE ListInv'
  BY <1>7, Apart DEF CheckLookup, Goto
<1>8. ASSUME NEW r \in Request, ClearHint(r) PROVE ListInv'
  BY <1>8, Apart DEF ClearHint, Goto
<1>9. ASSUME NEW r \in Request, ResolveFake(r) PROVE ListInv'
  BY <1>9, Apart DEF ResolveFake, Goto
<1>10. ASSUME NEW r \in Request, ResolveFails(r) PROVE ListInv'
  BY <1>10, Apart DEF ResolveFails, Goto, AsksUpstream
<1>11. ASSUME NEW r \in Request, ResolveFiltered(r) PROVE ListInv'
  BY <1>11, Apart DEF ResolveFiltered, Goto, AsksUpstream
<1>12. ASSUME NEW r \in Request, ResolveReal(r) PROVE ListInv'
  BY <1>12, Apart DEF ResolveReal, Goto, AsksUpstream
<1>13. ASSUME NEW r \in Request, ResolveUnknown(r) PROVE ListInv'
  BY <1>13, Apart DEF ResolveUnknown, Goto, AsksUpstream
<1>14. ASSUME NEW r \in Request, AddDNSLie(r) PROVE ListInv'
  BY <1>14, Apart DEF AddDNSLie, Goto
<1>15. ASSUME NEW r \in Request, SetIndex(r) PROVE ListInv'
  BY <1>15, Apart DEF SetIndex, Goto
<1>16. ASSUME NEW r \in Request, Lock(r) PROVE ListInv'
  BY <1>16, Apart DEF Lock, Goto
<1>17. ASSUME NEW r \in Request, GetAnswers(r) PROVE ListInv'
  <2>p. /\ pc[r] = "answers" /\ Of(mine[r], qname[r]) /\ mine[r] \in Record /\ RecordKey(mine[r]) = key(r)
        /\ \E label \in {"relock", "conclude"} : pc' = [pc EXCEPT ![r] = label]
        /\ UNCHANGED <<fakeip, known, profile, DNSCache, Nose, entry, qname, mine, lie, got, answer, overlapped>>
    BY <1>17, AnswersStored
  <2>q. PICK h \in (Line \cup Lists(key(r)) \cup Lists(Suffix)) \cap Hint :
          /\ Clean(key(r)) => h = <<r, "answers">>
          /\ rec[mine[r]].IPv4Hint = h \/ h = <<r, "answers">>
          /\ \/ /\ got[r] /\ rec' = [rec EXCEPT ![mine[r]].IPv4Hint = h]
                /\ addresses' = [addresses EXCEPT ![h] = Append(@, qname[r])]
             \/ ~got[r] /\ UNCHANGED <<rec, addresses>>
    BY <1>17, AnswersStored
  <2> HIDE DEF Alone, Clean, key, Hint, ListInv, Early
  <2>1. overlapped' = overlapped /\ \A q \in Request : key(q)' = key(q)
    BY <2>p DEF key
  <2>2. /\ \A q \in Request : Alone(key(q))' <=> Alone(key(q))
        /\ \A q \in Request : (pc[q] = "idle" <=> pc'[q] = "idle") /\ (pc'[q] \in Early => pc[q] \in Early)
        /\ pc'[r] \notin Early
    BY <2>p, <2>1 DEF Alone, Early
  <2>3. CASE UNCHANGED addresses
    BY <2>1, <2>2, <2>3, <2>p DEF ListInv
  <2>4. CASE addresses' = [addresses EXCEPT ![h] = Append(@, qname[r])]
    <3>1. \A x \in Hint : x # h => addresses'[x] = addresses[x]
      BY <2>4
    <3>2. \A q \in Request, x \in {"answers", "empty"} : <<q, x>> \in Hint
      BY DEF Hint
    <3>3. Line \subseteq Hint
      BY DEF Hint
    <3>4. CASE Alone(key(r))
      <4>1. Clean(key(r)) /\ pc[r] \in Early /\ pc[r] # "idle"
        BY <2>p, <3>4 DEF Alone, Clean, Early
      <4>2. h = <<r, "answers">> /\ addresses[h] = << >>
        BY <2>q, <3>4, <4>1 DEF ListInv
      <4>3. addresses'[h] = <<qname[r]>> /\ qname'[r] = qname[r]
        BY <2>p, <2>q, <2>4, <4>2
      <4>4. \A k \in Line : k # h
        BY <4>2, LineAssumption DEF Line
      <4>5. \A q \in Request : <<q, "empty">> # h /\ (q # r => <<q, "answers">> # h)
        BY <4>2
      <4>. QED
        BY <2>1, <2>2, <2>p, <3>1, <3>2, <3>3, <4>1, <4>2, <4>3, <4>4, <4>5 DEF ListInv
    <3>5. CASE ~Alone(key(r))
      <4>1. overlapped # {} /\ key(r) \in overlapped \cup {Suffix}
        BY <3>5 DEF Alone
      <4>2. \A q \in Request : pc[q] # "idle" /\ Alone(key(q)) => key(q) # key(r) /\ key(q) # Suffix
        BY <3>5, <4>1 DEF Alone
      <4>3. \A q \in Request, x \in {"answers", "empty"} : pc[q] = "idle" \/ Alone(key(q)) => <<q, x>> # h
        <5>1. SUFFICES ASSUME NEW q \in Request, NEW x \in {"answers", "empty"}, h = <<q, x>>
                       PROVE  pc[q] # "idle" /\ ~Alone(key(q))
          OBVIOUS
        <5>2. h \notin Line
          BY <5>1, LineAssumption DEF Line
        <5>3. pc[q] # "idle" /\ key(q) \in {key(r), Suffix}
          BY <2>q, <5>1, <5>2 DEF Lists
        <5>. QED
          BY <4>2, <5>3
      <4>. QED
        BY <2>1, <2>2, <2>p, <3>1, <3>2, <4>1, <4>3 DEF ListInv
    <3>. QED
      BY <3>4, <3>5
  <2> QED BY <2>q, <2>3, <2>4
<1>18. ASSUME NEW r \in Request, Conclude(r) PROVE ListInv'
  BY <1>18, Apart DEF Conclude, Goto
<1>19. ASSUME NEW r \in Request, LogResponse(r) PROVE ListInv'
  BY <1>19, Apart DEF LogResponse, Goto
<1>20. ASSUME NEW r \in Request, BuildResponse(r) PROVE ListInv'
  <2>1. /\ pc[r] = "answer" /\ \E label \in {"done", "pack"} : pc' = [pc EXCEPT ![r] = label]
        /\ UNCHANGED <<profile, qname, addresses, overlapped>>
    BY <1>20 DEF BuildResponse, Goto
  <2> QED BY <2>1
<1>21. ASSUME NEW r \in Request, PackAnswers(r) PROVE ListInv'
  BY <1>21, Apart DEF PackAnswers, Goto
<1>22. ASSUME NEW r \in Request, AnswerLookup(r) PROVE ListInv'
  <2>1. /\ pc[r] \in {"cached", "locked"} /\ \E label \in {"done", "panic"} : pc' = [pc EXCEPT ![r] = label]
        /\ UNCHANGED <<profile, qname, addresses, overlapped>>
    BY <1>22 DEF AnswerLookup, Goto
  <2> QED BY <2>1
<1>23. ASSUME NEW r \in Request, Expire(r) PROVE ListInv'
  BY <1>23, Apart DEF Expire, Goto
<1>24. ASSUME UNCHANGED vars PROVE ListInv'
  BY <1>24 DEF vars
<1> HIDE DEF ListInv, Early, Hint, Clean, Alone, key
<1> QED
  BY ONLY [Next]_vars, <1>1, <1>2, <1>3, <1>4, <1>5, <1>6, <1>7, <1>8, <1>9,
     <1>10, <1>11, <1>12, <1>13, <1>14, <1>15, <1>16, <1>17, <1>18, <1>19, <1>20,
     <1>21, <1>22, <1>23, <1>24 DEF Next, Step

\* No other query takes the addresses away, or brings any.
LEMMA StepFound == ASSUME IInv, CleanInv, [Next]_vars PROVE FoundInv'
<1>t. /\ pc \in [Request -> Label]
      /\ qname \in [Request -> Name]
      /\ rec \in [Record -> [Index : 0..Len(Nose) - 1, IPv4Hint : Hint \cup {None}]]
      /\ mine \in [Request -> Record \cup {None}]
  BY DEF IInv, TypeOK
<1>h. FoundInv /\ MineInv
  BY DEF CleanInv, IInv
<1> USE <1>t, <1>h, SuffixAssumption, HintAssumption
    DEF FoundInv, MineInv, Hint, hint, Active, Record, sharedVars, localVars, Clean, key
<1>1. ASSUME NEW r \in Request, NEW n \in Name,
             NEW e \in {"NSRequest", "NSLookup"}, Begin(r, n, e)
      PROVE  FoundInv'
  BY <1>1, Apart DEF Begin, Goto
<1>2. ASSUME NEW r \in Request, LoadDNSCache(r) PROVE FoundInv'
  <2>1. CASE DNSCache[qname[r]] # None
    <3>1. /\ mine' = [mine EXCEPT ![r] = DNSCache[qname[r]]] /\ pc' = [pc EXCEPT ![r] = "check"]
      BY <1>2, <2>1 DEF LoadDNSCache, Goto
    <3> QED BY <1>2, <2>1, <3>1 DEF LoadDNSCache
  <2>2. CASE DNSCache[qname[r]] = None
    <3>1. /\ mine' = [mine EXCEPT ![r] = r] /\ pc' = [pc EXCEPT ![r] = "store"]
      BY <1>2, <2>2 DEF LoadDNSCache, Goto
    <3> QED BY <1>2, <2>2, <3>1 DEF LoadDNSCache
  <2> QED BY <2>1, <2>2
<1>3. ASSUME NEW r \in Request, StoreDNSCache(r) PROVE FoundInv'
  BY <1>3, Apart DEF StoreDNSCache, Goto
<1>4. ASSUME NEW r \in Request, LoadTop(r) PROVE FoundInv'
  BY <1>4, Apart DEF LoadTop, Goto
<1>5. ASSUME NEW r \in Request, CopyTop(r) PROVE FoundInv'
  BY <1>5, Apart DEF CopyTop, Goto
<1>6. ASSUME NEW r \in Request, CheckRequest(r) PROVE FoundInv'
  BY <1>6, Apart DEF CheckRequest, Goto
<1>7. ASSUME NEW r \in Request, CheckLookup(r) PROVE FoundInv'
  BY <1>7, Apart DEF CheckLookup, Goto
<1>8. ASSUME NEW r \in Request, ClearHint(r) PROVE FoundInv'
  <2>1. /\ pc[r] = "clear" /\ pc' = [pc EXCEPT ![r] = "resolve"]
        /\ rec' = [rec EXCEPT ![mine[r]].IPv4Hint = None]
        /\ UNCHANGED <<profile, qname, mine, overlapped>>
    BY <1>8 DEF ClearHint, Goto
  <2>2. mine[r] \in Record
    BY <2>1, MineKey
  <2>3. \A s \in Request : s # r /\ Clean(key(s)) /\ pc[s] \notin {"idle", "done", "panic", "load"} =>
          mine[s] # mine[r] /\ mine[s] \in Record
    BY <2>1, Apart, MineKey
  <2>4. \A x \in Record : rec'[x].IPv4Hint = IF x = mine[r] THEN None ELSE rec[x].IPv4Hint
    BY <1>t, <2>1, <2>2
  <2> HIDE DEF Record, Hint, Clean
  <2> QED BY <2>1, <2>2, <2>3, <2>4 DEF Clean
<1>9. ASSUME NEW r \in Request, ResolveFake(r) PROVE FoundInv'
  BY <1>9, Apart DEF ResolveFake, Goto
<1>10. ASSUME NEW r \in Request, ResolveFails(r) PROVE FoundInv'
  BY <1>10, Apart DEF ResolveFails, Goto, AsksUpstream
<1>11. ASSUME NEW r \in Request, ResolveFiltered(r) PROVE FoundInv'
  BY <1>11, Apart DEF ResolveFiltered, Goto, AsksUpstream
<1>12. ASSUME NEW r \in Request, ResolveReal(r) PROVE FoundInv'
  BY <1>12, Apart DEF ResolveReal, Goto, AsksUpstream
<1>13. ASSUME NEW r \in Request, ResolveUnknown(r) PROVE FoundInv'
  BY <1>13, Apart DEF ResolveUnknown, Goto, AsksUpstream
<1>14. ASSUME NEW r \in Request, AddDNSLie(r) PROVE FoundInv'
  BY <1>14, Apart DEF AddDNSLie, Goto
<1>15. ASSUME NEW r \in Request, SetIndex(r) PROVE FoundInv'
  BY <1>15, Apart DEF SetIndex, Goto
<1>16. ASSUME NEW r \in Request, Lock(r) PROVE FoundInv'
  BY <1>16, Apart DEF Lock, Goto
<1>17. ASSUME NEW r \in Request, GetAnswers(r) PROVE FoundInv'
  <2>1. /\ pc[r] = "answers" /\ \E label \in {"relock", "conclude"} : pc' = [pc EXCEPT ![r] = label]
        /\ UNCHANGED <<profile, qname, mine, overlapped>>
    BY <1>17, AnswersStored
  <2>2. mine[r] \in Record
    BY <2>1, MineKey
  <2>3. \A s \in Request : s # r /\ Clean(key(s)) /\ pc[s] \notin {"idle", "done", "panic", "load"} =>
          mine[s] # mine[r] /\ mine[s] \in Record
    BY <2>1, Apart, MineKey
  <2>4. \A x \in Record : x # mine[r] => rec'[x].IPv4Hint = rec[x].IPv4Hint
    BY <1>17, <2>2 DEF GetAnswers
  <2> HIDE DEF Record, Hint, Clean
  <2> QED BY <2>1, <2>2, <2>3, <2>4 DEF Clean
<1>18. ASSUME NEW r \in Request, Conclude(r) PROVE FoundInv'
  <2>1. /\ pc[r] = "conclude" /\ UNCHANGED <<profile, qname, mine, overlapped>>
        /\ \E label \in {"locked", "answer", "log"} :
             pc' = [pc EXCEPT ![r] = label] /\ (label = "log" => hint(r) # None)
        /\ rec' = IF hint(r) = None THEN [rec EXCEPT ![mine[r]].IPv4Hint = <<r, "empty">>] ELSE rec
    BY <1>18 DEF Conclude, Goto
  <2>2. mine[r] \in Record
    BY <2>1, MineKey
  <2>3. \A s \in Request : s # r /\ Clean(key(s)) /\ pc[s] \notin {"idle", "done", "panic", "load"} =>
          mine[s] # mine[r] /\ mine[s] \in Record
    BY <2>1, Apart, MineKey
  <2>4. \A x \in Record : rec'[x].IPv4Hint =
          IF x = mine[r] /\ hint(r) = None THEN <<r, "empty">> ELSE rec[x].IPv4Hint
    BY <1>t, <2>1, <2>2
  <2>5. <<r, "empty">> # None
    OBVIOUS
  <2> HIDE DEF Record, Hint, Clean
  <2> QED BY <2>1, <2>2, <2>3, <2>4, <2>5 DEF Clean
<1>19. ASSUME NEW r \in Request, LogResponse(r) PROVE FoundInv'
  BY <1>19, Apart DEF LogResponse, Goto
<1>20. ASSUME NEW r \in Request, BuildResponse(r) PROVE FoundInv'
  BY <1>20, Apart DEF BuildResponse, Goto
<1>21. ASSUME NEW r \in Request, PackAnswers(r) PROVE FoundInv'
  BY <1>21, Apart DEF PackAnswers, Goto
<1>22. ASSUME NEW r \in Request, AnswerLookup(r) PROVE FoundInv'
  BY <1>22, Apart DEF AnswerLookup, Goto
<1>23. ASSUME NEW r \in Request, Expire(r) PROVE FoundInv'
  BY <1>23, Apart DEF Expire, Goto
<1>24. ASSUME UNCHANGED vars PROVE FoundInv'
  BY <1>24 DEF vars
<1> QED
  BY ONLY [Next]_vars, <1>1, <1>2, <1>3, <1>4, <1>5, <1>6, <1>7, <1>8, <1>9,
     <1>10, <1>11, <1>12, <1>13, <1>14, <1>15, <1>16, <1>17, <1>18, <1>19, <1>20,
     <1>21, <1>22, <1>23, <1>24 DEF Next, Step

\* A query asks a server once.
LEMMA StepAsked == ASSUME IInv, CleanInv, [Next]_vars PROVE AskedInv'
<1>t. /\ pc \in [Request -> Label]
      /\ got \in [Request -> BOOLEAN]
  BY DEF IInv, TypeOK
<1>h. AskedInv
  BY DEF CleanInv, IInv
<1> USE <1>t, <1>h, SuffixAssumption, HintAssumption DEF AskedInv, sharedVars, localVars, Clean, key
<1>1. ASSUME NEW r \in Request, NEW n \in Name,
             NEW e \in {"NSRequest", "NSLookup"}, Begin(r, n, e)
      PROVE  AskedInv'
  BY <1>1 DEF Begin, Goto
<1>2. ASSUME NEW r \in Request, LoadDNSCache(r) PROVE AskedInv'
  BY <1>2 DEF LoadDNSCache, Goto
<1>3. ASSUME NEW r \in Request, StoreDNSCache(r) PROVE AskedInv'
  BY <1>3 DEF StoreDNSCache, Goto
<1>4. ASSUME NEW r \in Request, LoadTop(r) PROVE AskedInv'
  BY <1>4 DEF LoadTop, Goto
<1>5. ASSUME NEW r \in Request, CopyTop(r) PROVE AskedInv'
  BY <1>5 DEF CopyTop, Goto
<1>6. ASSUME NEW r \in Request, CheckRequest(r) PROVE AskedInv'
  BY <1>6 DEF CheckRequest, Goto
<1>7. ASSUME NEW r \in Request, CheckLookup(r) PROVE AskedInv'
  BY <1>7 DEF CheckLookup, Goto
<1>8. ASSUME NEW r \in Request, ClearHint(r) PROVE AskedInv'
  BY <1>8 DEF ClearHint, Goto
<1>9. ASSUME NEW r \in Request, ResolveFake(r) PROVE AskedInv'
  BY <1>9 DEF ResolveFake, Goto
<1>10. ASSUME NEW r \in Request, ResolveFails(r) PROVE AskedInv'
  BY <1>10 DEF ResolveFails, Goto, AsksUpstream
<1>11. ASSUME NEW r \in Request, ResolveFiltered(r) PROVE AskedInv'
  BY <1>11 DEF ResolveFiltered, Goto, AsksUpstream
<1>12. ASSUME NEW r \in Request, ResolveReal(r) PROVE AskedInv'
  BY <1>12 DEF ResolveReal, Goto, AsksUpstream
<1>13. ASSUME NEW r \in Request, ResolveUnknown(r) PROVE AskedInv'
  BY <1>13 DEF ResolveUnknown, Goto, AsksUpstream
<1>14. ASSUME NEW r \in Request, AddDNSLie(r) PROVE AskedInv'
  BY <1>14 DEF AddDNSLie, Goto
<1>15. ASSUME NEW r \in Request, SetIndex(r) PROVE AskedInv'
  BY <1>15 DEF SetIndex, Goto
<1>16. ASSUME NEW r \in Request, Lock(r) PROVE AskedInv'
  BY <1>16 DEF Lock, Goto
<1>17. ASSUME NEW r \in Request, GetAnswers(r) PROVE AskedInv'
  BY <1>17 DEF GetAnswers, Goto
<1>18. ASSUME NEW r \in Request, Conclude(r) PROVE AskedInv'
  BY <1>18 DEF Conclude, Goto
<1>19. ASSUME NEW r \in Request, LogResponse(r) PROVE AskedInv'
  BY <1>19 DEF LogResponse, Goto
<1>20. ASSUME NEW r \in Request, BuildResponse(r) PROVE AskedInv'
  BY <1>20 DEF BuildResponse, Goto
<1>21. ASSUME NEW r \in Request, PackAnswers(r) PROVE AskedInv'
  BY <1>21 DEF PackAnswers, Goto
<1>22. ASSUME NEW r \in Request, AnswerLookup(r) PROVE AskedInv'
  BY <1>22 DEF AnswerLookup, Goto
<1>23. ASSUME NEW r \in Request, Expire(r) PROVE AskedInv'
  BY <1>23 DEF Expire, Goto
<1>24. ASSUME UNCHANGED vars PROVE AskedInv'
  BY <1>24 DEF vars
<1> QED
  BY ONLY [Next]_vars, <1>1, <1>2, <1>3, <1>4, <1>5, <1>6, <1>7, <1>8, <1>9,
     <1>10, <1>11, <1>12, <1>13, <1>14, <1>15, <1>16, <1>17, <1>18, <1>19, <1>20,
     <1>21, <1>22, <1>23, <1>24 DEF Next, Step

\* A step of one query that leaves the records and lists of the others alone need only be
\* looked at from that query.
LEMMA GotOthers ==
  ASSUME IInv, CleanInv, NEW r \in Request, Active(r),
         UNCHANGED <<profile, qname, overlapped>>,
         \A s \in Request : s # r => /\ pc'[s] = pc[s] /\ got'[s] = got[s]
                                     /\ mine'[s] = mine[s] /\ answer'[s] = answer[s],
         \A s \in Request :
           s # r /\ Active(s) /\ pc[s] # "load" /\ Alone(key(s)) =>
             /\ rec'[mine[s]].IPv4Hint = rec[mine[s]].IPv4Hint
             /\ addresses'[<<s, "answers">>] = addresses[<<s, "answers">>],
         GotOwn(r)'
  PROVE  GotInv'
<1>1. SUFFICES ASSUME NEW s \in Request, s # r PROVE GotOwn(s)'
  BY DEF GotInv
<1>2. GotOwn(s)
  BY DEF CleanInv, GotInv
<1>3. CASE Active(s) /\ pc[s] # "load" /\ Alone(key(s))
  BY <1>1, <1>2, <1>3 DEF GotOwn, hint, key, Alone
<1>4. CASE ~(Active(s) /\ pc[s] # "load" /\ Alone(key(s)))
  BY <1>1, <1>2, <1>4 DEF GotOwn, Active, key, Alone
<1> QED BY <1>3, <1>4

\* What the server gave stays there.
LEMMA StepGot == ASSUME IInv, CleanInv, [Next]_vars PROVE GotInv'
<1>t. /\ pc \in [Request -> Label]
      /\ qname \in [Request -> Name]
      /\ rec \in [Record -> [Index : 0..Len(Nose) - 1, IPv4Hint : Hint \cup {None}]]
      /\ mine \in [Request -> Record \cup {None}]
      /\ got \in [Request -> BOOLEAN]
      /\ addresses \in [Hint -> Seq(Line)]
      /\ answer \in [Request -> [index : 0..Len(Nose) - 1, addresses : Seq(Line)]]
  BY DEF IInv, TypeOK
<1>h. TypeOK /\ GotInv /\ AskedInv /\ FoundInv /\ ListInv /\ HintInv /\ MineInv
  BY DEF CleanInv, IInv
<1> USE <1>t, <1>h, SuffixAssumption, HintAssumption
    DEF GotInv, GotOwn, AskedInv, hint, Active, sharedVars, localVars, Clean, key, Alone
<1>1. ASSUME NEW r \in Request, NEW n \in Name,
             NEW e \in {"NSRequest", "NSLookup"}, Begin(r, n, e)
      PROVE  GotInv'
  BY <1>1, Apart DEF Begin, Goto
<1>2. ASSUME NEW r \in Request, LoadDNSCache(r) PROVE GotInv'
  <2>1. Active(r) /\ UNCHANGED <<profile, qname, overlapped>>
    BY <1>2 DEF LoadDNSCache, Goto, Active
  <2>2. \A s \in Request : s # r => /\ pc'[s] = pc[s] /\ got'[s] = got[s]
                                    /\ mine'[s] = mine[s] /\ answer'[s] = answer[s]
    BY <1>2 DEF LoadDNSCache, Goto
  <2>3. \A s \in Request :
          s # r /\ Active(s) /\ pc[s] # "load" /\ Alone(key(s)) =>
            /\ rec'[mine[s]].IPv4Hint = rec[mine[s]].IPv4Hint
            /\ addresses'[<<s, "answers">>] = addresses[<<s, "answers">>]
    BY <1>2 DEF LoadDNSCache, Goto
  <2>4. GotOwn(r)'
    BY <1>2 DEF LoadDNSCache, Goto, GotOwn, AskedInv
  <2> QED BY <2>1, <2>2, <2>3, <2>4, GotOthers
<1>3. ASSUME NEW r \in Request, StoreDNSCache(r) PROVE GotInv'
  BY <1>3, Apart DEF StoreDNSCache, Goto
<1>4. ASSUME NEW r \in Request, LoadTop(r) PROVE GotInv'
  BY <1>4, Apart DEF LoadTop, Goto
<1>5. ASSUME NEW r \in Request, CopyTop(r) PROVE GotInv'
  <2>1. Active(r) /\ UNCHANGED <<profile, qname, overlapped>>
    BY <1>5 DEF CopyTop, Goto, Active
  <2>2. \A s \in Request : s # r => /\ pc'[s] = pc[s] /\ got'[s] = got[s]
                                    /\ mine'[s] = mine[s] /\ answer'[s] = answer[s]
    BY <1>5 DEF CopyTop, Goto
  <2>3. \A s \in Request :
          s # r /\ Active(s) /\ pc[s] # "load" /\ Alone(key(s)) =>
            /\ rec'[mine[s]].IPv4Hint = rec[mine[s]].IPv4Hint
            /\ addresses'[<<s, "answers">>] = addresses[<<s, "answers">>]
    <3>1. mine[r] \in Record /\ UNCHANGED addresses /\ \A x \in Record : x # mine[r] => rec'[x] = rec[x]
      BY <1>5, MineKey DEF CopyTop
    <3>3. \A s \in Request : s # r /\ Active(s) /\ pc[s] # "load" /\ Alone(key(s)) =>
            mine[s] # mine[r] /\ mine[s] \in Record
      BY <1>5, <2>1, Apart, MineKey DEF CopyTop, Alone
    <3> QED BY <3>1, <3>3
  <2>4. GotOwn(r)'
    BY <1>5 DEF CopyTop, Goto, GotOwn, AskedInv
  <2> QED BY <2>1, <2>2, <2>3, <2>4, GotOthers
<1>6. ASSUME NEW r \in Request, CheckRequest(r) PROVE GotInv'
  BY <1>6, Apart DEF CheckRequest, Goto
<1>7. ASSUME NEW r \in Request, CheckLookup(r) PROVE GotInv'
  BY <1>7, Apart DEF CheckLookup, Goto
<1>8. ASSUME NEW r \in Request, ClearHint(r) PROVE GotInv'
  <2>1. Active(r) /\ UNCHANGED <<profile, qname, overlapped>>
    BY <1>8 DEF ClearHint, Goto, Active
  <2>2. \A s \in Request : s # r => /\ pc'[s] = pc[s] /\ got'[s] = got[s]
                                    /\ mine'[s] = mine[s] /\ answer'[s] = answer[s]
    BY <1>8 DEF ClearHint, Goto
  <2>3. \A s \in Request :
          s # r /\ Active(s) /\ pc[s] # "load" /\ Alone(key(s)) =>
            /\ rec'[mine[s]].IPv4Hint = rec[mine[s]].IPv4Hint
            /\ addresses'[<<s, "answers">>] = addresses[<<s, "answers">>]
    <3>1. mine[r] \in Record /\ UNCHANGED addresses /\ rec' = [rec EXCEPT ![mine[r]].IPv4Hint = None]
      BY <1>8, MineKey DEF ClearHint
    <3>3. \A s \in Request : s # r /\ Active(s) /\ pc[s] # "load" /\ Alone(key(s)) =>
            mine[s] # mine[r] /\ mine[s] \in Record
      BY <1>8, <2>1, Apart, MineKey DEF ClearHint, Alone
    <3> QED BY <3>1, <3>3, HintSet
  <2>4. GotOwn(r)'
    BY <1>8 DEF ClearHint, Goto, GotOwn, AskedInv
  <2> QED BY <2>1, <2>2, <2>3, <2>4, GotOthers
<1>9. ASSUME NEW r \in Request, ResolveFake(r) PROVE GotInv'
  BY <1>9, Apart DEF ResolveFake, Goto
<1>10. ASSUME NEW r \in Request, ResolveFails(r) PROVE GotInv'
  BY <1>10, Apart DEF ResolveFails, Goto, AsksUpstream
<1>11. ASSUME NEW r \in Request, ResolveFiltered(r) PROVE GotInv'
  BY <1>11, Apart DEF ResolveFiltered, Goto, AsksUpstream
<1>12. ASSUME NEW r \in Request, ResolveReal(r) PROVE GotInv'
  <2>1. Active(r) /\ UNCHANGED <<profile, qname, overlapped>>
    BY <1>12 DEF ResolveReal, Goto, AsksUpstream, Active
  <2>2. \A s \in Request : s # r => /\ pc'[s] = pc[s] /\ got'[s] = got[s]
                                    /\ mine'[s] = mine[s] /\ answer'[s] = answer[s]
    BY <1>12 DEF ResolveReal, Goto, AsksUpstream
  <2>3. \A s \in Request :
          s # r /\ Active(s) /\ pc[s] # "load" /\ Alone(key(s)) =>
            /\ rec'[mine[s]].IPv4Hint = rec[mine[s]].IPv4Hint
            /\ addresses'[<<s, "answers">>] = addresses[<<s, "answers">>]
    BY <1>12 DEF ResolveReal, Goto, AsksUpstream
  <2>4. GotOwn(r)'
    BY <1>12 DEF ResolveReal, Goto, AsksUpstream, GotOwn
  <2> QED BY <2>1, <2>2, <2>3, <2>4, GotOthers
<1>13. ASSUME NEW r \in Request, ResolveUnknown(r) PROVE GotInv'
  BY <1>13, Apart DEF ResolveUnknown, Goto, AsksUpstream
<1>14. ASSUME NEW r \in Request, AddDNSLie(r) PROVE GotInv'
  BY <1>14, Apart DEF AddDNSLie, Goto
<1>15. ASSUME NEW r \in Request, SetIndex(r) PROVE GotInv'
  <2>1. Active(r) /\ UNCHANGED <<profile, qname, overlapped>>
    BY <1>15 DEF SetIndex, Goto, Active
  <2>2. \A s \in Request : s # r => /\ pc'[s] = pc[s] /\ got'[s] = got[s]
                                    /\ mine'[s] = mine[s] /\ answer'[s] = answer[s]
    BY <1>15 DEF SetIndex, Goto
  <2>3. \A s \in Request :
          s # r /\ Active(s) /\ pc[s] # "load" /\ Alone(key(s)) =>
            /\ rec'[mine[s]].IPv4Hint = rec[mine[s]].IPv4Hint
            /\ addresses'[<<s, "answers">>] = addresses[<<s, "answers">>]
    <3>1. mine[r] \in Record /\ UNCHANGED addresses /\ rec' = [rec EXCEPT ![mine[r]].Index = lie[r]]
      BY <1>15, MineKey DEF SetIndex
    <3>3. \A s \in Request : s # r /\ Active(s) /\ pc[s] # "load" /\ Alone(key(s)) =>
            mine[s] # mine[r] /\ mine[s] \in Record
      BY <1>15, <2>1, Apart, MineKey DEF SetIndex, Alone
    <3> QED BY <3>1, <3>3, IndexSet
  <2>4. GotOwn(r)'
    <3>1. mine[r] \in Record /\ UNCHANGED addresses /\ rec' = [rec EXCEPT ![mine[r]].Index = lie[r]]
      BY <1>15, MineKey DEF SetIndex
    <3>3. got[r] => known /\ entry[r] = "NSLookup"
      BY <1>15 DEF AskedInv, SetIndex
    <3>4. got[r] => pc'[r] = "lock"
      BY <1>15, <3>3 DEF SetIndex, Goto
    <3> QED BY <1>15, <3>4 DEF SetIndex, GotOwn
  <2> QED BY <2>1, <2>2, <2>3, <2>4, GotOthers
<1>16. ASSUME NEW r \in Request, Lock(r) PROVE GotInv'
  <2>1. Active(r) /\ UNCHANGED <<profile, qname, overlapped>>
    BY <1>16 DEF Lock, Goto, Active
  <2>2. \A s \in Request : s # r => /\ pc'[s] = pc[s] /\ got'[s] = got[s]
                                    /\ mine'[s] = mine[s] /\ answer'[s] = answer[s]
    BY <1>16 DEF Lock, Goto
  <2>3. \A s \in Request :
          s # r /\ Active(s) /\ pc[s] # "load" /\ Alone(key(s)) =>
            /\ rec'[mine[s]].IPv4Hint = rec[mine[s]].IPv4Hint
            /\ addresses'[<<s, "answers">>] = addresses[<<s, "answers">>]
    BY <1>16 DEF Lock, Goto
  <2>4. GotOwn(r)'
    BY <1>16 DEF Lock, Goto, GotOwn
  <2> QED BY <2>1, <2>2, <2>3, <2>4, GotOthers
<1>17. ASSUME NEW r \in Request, GetAnswers(r) PROVE GotInv'
  <2>p. /\ pc[r] = "answers" /\ Of(mine[r], qname[r]) /\ mine[r] \in Record /\ RecordKey(mine[r]) = key(r)
        /\ \E label \in {"relock", "conclude"} : pc' = [pc EXCEPT ![r] = label]
        /\ UNCHANGED <<fakeip, known, profile, DNSCache, Nose, entry, qname, mine, lie, got, answer, overlapped>>
    BY <1>17, AnswersStored
  <2>q. PICK h \in (Line \cup Lists(key(r)) \cup Lists(Suffix)) \cap Hint :
          /\ Clean(key(r)) => h = <<r, "answers">>
          /\ rec[mine[r]].IPv4Hint = h \/ h = <<r, "answers">>
          /\ \/ /\ got[r] /\ rec' = [rec EXCEPT ![mine[r]].IPv4Hint = h]
                /\ addresses' = [addresses EXCEPT ![h] = Append(@, qname[r])]
             \/ ~got[r] /\ UNCHANGED <<rec, addresses>>
    BY <1>17, AnswersStored
  <2>1. Active(r) /\ UNCHANGED <<profile, qname, overlapped>>
    BY <1>17 DEF GetAnswers, Goto, Active
  <2>2. \A s \in Request : s # r => /\ pc'[s] = pc[s] /\ got'[s] = got[s]
                                    /\ mine'[s] = mine[s] /\ answer'[s] = answer[s]
    BY <1>17 DEF GetAnswers, Goto
  <2>3. \A s \in Request :
          s # r /\ Active(s) /\ pc[s] # "load" /\ Alone(key(s)) =>
            /\ rec'[mine[s]].IPv4Hint = rec[mine[s]].IPv4Hint
            /\ addresses'[<<s, "answers">>] = addresses[<<s, "answers">>]
    <3>1. SUFFICES ASSUME NEW s \in Request, s # r, Active(s), pc[s] # "load", Alone(key(s))
                   PROVE  /\ rec'[mine[s]].IPv4Hint = rec[mine[s]].IPv4Hint
                          /\ addresses'[<<s, "answers">>] = addresses[<<s, "answers">>]
      OBVIOUS
    <3>2. key(s) # key(r) /\ mine[s] # mine[r] /\ mine[s] \in Record
      BY <2>p, <2>1, <3>1, Apart, MineKey DEF Alone
    <3>3. <<s, "answers">> # h
      <4>1. CASE Clean(key(r))
        BY <2>q, <3>1, <4>1
      <4>2. CASE ~Clean(key(r))
        <5>1. key(s) # Suffix
          BY <3>1, <4>2 DEF Alone
        <5>2. <<s, "answers">> \notin Lists(key(r)) \cup Lists(Suffix)
          BY <3>2, <5>1 DEF Lists
        <5>3. <<s, "answers">> \notin Line
          BY LineAssumption DEF Line
        <5>. QED
          BY <2>q, <5>2, <5>3
      <4>. QED
        BY <4>1, <4>2
    <3>4. rec'[mine[s]].IPv4Hint = rec[mine[s]].IPv4Hint
      <4>1. rec' = [rec EXCEPT ![mine[r]].IPv4Hint = h] \/ rec' = rec
        BY <2>q
      <4> QED BY <2>p, <3>2, <4>1, HintKept
    <3>5. addresses'[<<s, "answers">>] = addresses[<<s, "answers">>]
      BY <2>p, <2>q, <3>3 DEF Hint
    <3> QED BY <3>4, <3>5
  <2>4. GotOwn(r)'
    <3>1. CASE got[r] /\ Alone(key(r))
      <4>0. Clean(key(r)) /\ pc[r] \in Early
        BY <2>p, <3>1 DEF Alone, Early
      <4>1. h = <<r, "answers">> /\ addresses[h] = << >>
        BY <2>p, <2>q, <3>1, <4>0 DEF ListInv
      <4>i. /\ rec' = [rec EXCEPT ![mine[r]].IPv4Hint = h]
            /\ addresses' = [addresses EXCEPT ![h] = Append(@, qname[r])]
        BY ONLY <2>q, <3>1
      <4>2. rec' = [rec EXCEPT ![mine[r]].IPv4Hint = h] /\ addresses'[h] = Append(<< >>, qname[r])
        BY <2>q, <4>i, <4>1
      <4>k. rec'[mine[r]].IPv4Hint = h
        BY <2>p, <4>2, HintSet
      <4>3. Append(<< >>, qname[r]) = <<qname[r]>>
        OBVIOUS
      <4> QED BY <2>p, <4>1, <4>2, <4>k, <4>3 DEF GotOwn, hint
    <3>2. CASE ~(got[r] /\ Alone(key(r)))
      BY <2>p, <3>2 DEF GotOwn, Alone
    <3> QED BY <3>1, <3>2
  <2> QED BY <2>1, <2>2, <2>3, <2>4, GotOthers
<1>18. ASSUME NEW r \in Request, Conclude(r) PROVE GotInv'
  <2>1. Active(r) /\ UNCHANGED <<profile, qname, overlapped>>
    BY <1>18 DEF Conclude, Goto, Active
  <2>2. \A s \in Request : s # r => /\ pc'[s] = pc[s] /\ got'[s] = got[s]
                                    /\ mine'[s] = mine[s] /\ answer'[s] = answer[s]
    BY <1>18 DEF Conclude, Goto
  <2>3. \A s \in Request :
          s # r /\ Active(s) /\ pc[s] # "load" /\ Alone(key(s)) =>
            /\ rec'[mine[s]].IPv4Hint = rec[mine[s]].IPv4Hint
            /\ addresses'[<<s, "answers">>] = addresses[<<s, "answers">>]
    <3>1. rec' = rec \/ rec' = [rec EXCEPT ![mine[r]].IPv4Hint = <<r, "empty">>]
      BY <1>18 DEF Conclude
    <3>2. mine[r] \in Record /\ UNCHANGED addresses
      BY <1>18, MineKey DEF Conclude
    <3>3. \A s \in Request : s # r /\ Active(s) /\ pc[s] # "load" /\ Alone(key(s)) =>
            mine[s] # mine[r] /\ mine[s] \in Record
      BY <1>18, <2>1, Apart, MineKey DEF Conclude, Alone
    <3> QED BY <3>1, <3>2, <3>3, HintSet
  <2>4. GotOwn(r)'
    <3>1. <<r, "answers">> # None
      OBVIOUS
    <3>2. GotOwn(r) /\ pc[r] = "conclude" /\ UNCHANGED <<profile, got, fakeip, qname, overlapped, addresses, mine>>
      BY <1>18 DEF Conclude, GotInv
    <3>3. pc'[r] \in {"locked", "answer", "log"} /\ (hint(r) # None => rec' = rec)
      BY <1>18 DEF Conclude, Goto
    <3> QED BY <3>1, <3>2, <3>3 DEF GotOwn, hint
  <2> QED BY <2>1, <2>2, <2>3, <2>4, GotOthers
<1>19. ASSUME NEW r \in Request, LogResponse(r) PROVE GotInv'
  <2>1. Active(r) /\ UNCHANGED <<profile, qname, overlapped>>
    BY <1>19 DEF LogResponse, Goto, Active
  <2>2. \A s \in Request : s # r => /\ pc'[s] = pc[s] /\ got'[s] = got[s]
                                    /\ mine'[s] = mine[s] /\ answer'[s] = answer[s]
    BY <1>19 DEF LogResponse, Goto
  <2>3. \A s \in Request :
          s # r /\ Active(s) /\ pc[s] # "load" /\ Alone(key(s)) =>
            /\ rec'[mine[s]].IPv4Hint = rec[mine[s]].IPv4Hint
            /\ addresses'[<<s, "answers">>] = addresses[<<s, "answers">>]
    BY <1>19 DEF LogResponse, Goto
  <2>4. GotOwn(r)'
    BY <1>19 DEF LogResponse, Goto, GotOwn
  <2> QED BY <2>1, <2>2, <2>3, <2>4, GotOthers
<1>20. ASSUME NEW r \in Request, BuildResponse(r) PROVE GotInv'
  <2>1. Active(r) /\ UNCHANGED <<profile, qname, overlapped>>
    BY <1>20 DEF BuildResponse, Goto, Active
  <2>2. \A s \in Request : s # r => /\ pc'[s] = pc[s] /\ got'[s] = got[s]
                                    /\ mine'[s] = mine[s] /\ answer'[s] = answer[s]
    BY <1>20 DEF BuildResponse, Goto
  <2>3. \A s \in Request :
          s # r /\ Active(s) /\ pc[s] # "load" /\ Alone(key(s)) =>
            /\ rec'[mine[s]].IPv4Hint = rec[mine[s]].IPv4Hint
            /\ addresses'[<<s, "answers">>] = addresses[<<s, "answers">>]
    BY <1>20 DEF BuildResponse, Goto
  <2>4. GotOwn(r)'
    <3>1. CASE index(r) > 0
      <4>1. answer'[r].index = index(r) /\ pc'[r] = "done"
        BY <1>20, <3>1 DEF BuildResponse, Goto
      <4> QED BY <3>1, <4>1 DEF GotOwn
    <3>2. CASE ~(index(r) > 0)
      BY <1>20, <3>2 DEF BuildResponse, Goto, GotOwn
    <3> QED BY <3>1, <3>2
  <2> QED BY <2>1, <2>2, <2>3, <2>4, GotOthers
<1>21. ASSUME NEW r \in Request, PackAnswers(r) PROVE GotInv'
  <2>1. Active(r) /\ UNCHANGED <<profile, qname, overlapped>>
    BY <1>21 DEF PackAnswers, Goto, Active
  <2>2. \A s \in Request : s # r => /\ pc'[s] = pc[s] /\ got'[s] = got[s]
                                    /\ mine'[s] = mine[s] /\ answer'[s] = answer[s]
    BY <1>21 DEF PackAnswers, Goto
  <2>3. \A s \in Request :
          s # r /\ Active(s) /\ pc[s] # "load" /\ Alone(key(s)) =>
            /\ rec'[mine[s]].IPv4Hint = rec[mine[s]].IPv4Hint
            /\ addresses'[<<s, "answers">>] = addresses[<<s, "answers">>]
    BY <1>21 DEF PackAnswers, Goto
  <2>4. GotOwn(r)'
    <3>1. answer'[r].addresses = IF hint(r) = None THEN << >> ELSE addresses[hint(r)]
      BY <1>21 DEF PackAnswers
    <3>2. pc[r] = "pack" /\ pc'[r] = "done" /\ UNCHANGED <<profile, got, fakeip, qname, overlapped>>
      BY <1>21 DEF PackAnswers, Goto
    <3>3. <<r, "answers">> # None
      OBVIOUS
    <3> QED BY <3>1, <3>2, <3>3 DEF GotOwn
  <2> QED BY <2>1, <2>2, <2>3, <2>4, GotOthers
<1>22. ASSUME NEW r \in Request, AnswerLookup(r) PROVE GotInv'
  <2>1. Active(r) /\ UNCHANGED <<profile, qname, overlapped>>
    BY <1>22 DEF AnswerLookup, Goto, Active
  <2>2. \A s \in Request : s # r => /\ pc'[s] = pc[s] /\ got'[s] = got[s]
                                    /\ mine'[s] = mine[s] /\ answer'[s] = answer[s]
    BY <1>22 DEF AnswerLookup, Goto
  <2>3. \A s \in Request :
          s # r /\ Active(s) /\ pc[s] # "load" /\ Alone(key(s)) =>
            /\ rec'[mine[s]].IPv4Hint = rec[mine[s]].IPv4Hint
            /\ addresses'[<<s, "answers">>] = addresses[<<s, "answers">>]
    BY <1>22 DEF AnswerLookup, Goto
  <2>4. GotOwn(r)'
    <3>1. CASE hint(r) = None
      BY <1>22, <3>1 DEF AnswerLookup, Goto, GotOwn
    <3>2. CASE hint(r) # None
      <4>1. /\ answer'[r].addresses = addresses[hint(r)] /\ pc'[r] = "done"
            /\ pc[r] \in {"cached", "locked"} /\ UNCHANGED <<profile, got, fakeip, qname, overlapped>>
        BY <1>22, <3>2 DEF AnswerLookup, Goto
      <4>2. got[r] => pc[r] = "locked"
        BY <4>1 DEF AskedInv
      <4> QED BY <4>1, <4>2 DEF GotOwn
    <3> QED BY <3>1, <3>2
  <2> QED BY <2>1, <2>2, <2>3, <2>4, GotOthers
<1>23. ASSUME NEW r \in Request, Expire(r) PROVE GotInv'
  BY <1>23, Apart DEF Expire, Goto
<1>24. ASSUME UNCHANGED vars PROVE GotInv'
  BY <1>24 DEF vars
<1> QED
  BY ONLY [Next]_vars, <1>1, <1>2, <1>3, <1>4, <1>5, <1>6, <1>7, <1>8, <1>9,
     <1>10, <1>11, <1>12, <1>13, <1>14, <1>15, <1>16, <1>17, <1>18, <1>19, <1>20,
     <1>21, <1>22, <1>23, <1>24 DEF Next, Step

\* An answer is given once.
LEMMA StepUnanswered == ASSUME IInv, CleanInv, [Next]_vars PROVE UnansweredInv'
<1>t. /\ pc \in [Request -> Label]
      /\ answer \in [Request -> [index : 0..Len(Nose) - 1, addresses : Seq(Line)]]
  BY DEF IInv, TypeOK
<1>h. UnansweredInv
  BY DEF CleanInv, IInv
<1> USE <1>t, <1>h, SuffixAssumption, HintAssumption DEF UnansweredInv, sharedVars, localVars, Clean, key
<1>1. ASSUME NEW r \in Request, NEW n \in Name,
             NEW e \in {"NSRequest", "NSLookup"}, Begin(r, n, e)
      PROVE  UnansweredInv'
  BY <1>1 DEF Begin, Goto
<1>2. ASSUME NEW r \in Request, LoadDNSCache(r) PROVE UnansweredInv'
  BY <1>2 DEF LoadDNSCache, Goto
<1>3. ASSUME NEW r \in Request, StoreDNSCache(r) PROVE UnansweredInv'
  BY <1>3 DEF StoreDNSCache, Goto
<1>4. ASSUME NEW r \in Request, LoadTop(r) PROVE UnansweredInv'
  BY <1>4 DEF LoadTop, Goto
<1>5. ASSUME NEW r \in Request, CopyTop(r) PROVE UnansweredInv'
  BY <1>5 DEF CopyTop, Goto
<1>6. ASSUME NEW r \in Request, CheckRequest(r) PROVE UnansweredInv'
  BY <1>6 DEF CheckRequest, Goto
<1>7. ASSUME NEW r \in Request, CheckLookup(r) PROVE UnansweredInv'
  BY <1>7 DEF CheckLookup, Goto
<1>8. ASSUME NEW r \in Request, ClearHint(r) PROVE UnansweredInv'
  BY <1>8 DEF ClearHint, Goto
<1>9. ASSUME NEW r \in Request, ResolveFake(r) PROVE UnansweredInv'
  BY <1>9 DEF ResolveFake, Goto
<1>10. ASSUME NEW r \in Request, ResolveFails(r) PROVE UnansweredInv'
  BY <1>10 DEF ResolveFails, Goto, AsksUpstream
<1>11. ASSUME NEW r \in Request, ResolveFiltered(r) PROVE UnansweredInv'
  BY <1>11 DEF ResolveFiltered, Goto, AsksUpstream
<1>12. ASSUME NEW r \in Request, ResolveReal(r) PROVE UnansweredInv'
  BY <1>12 DEF ResolveReal, Goto, AsksUpstream
<1>13. ASSUME NEW r \in Request, ResolveUnknown(r) PROVE UnansweredInv'
  BY <1>13 DEF ResolveUnknown, Goto, AsksUpstream
<1>14. ASSUME NEW r \in Request, AddDNSLie(r) PROVE UnansweredInv'
  BY <1>14 DEF AddDNSLie, Goto
<1>15. ASSUME NEW r \in Request, SetIndex(r) PROVE UnansweredInv'
  BY <1>15 DEF SetIndex, Goto
<1>16. ASSUME NEW r \in Request, Lock(r) PROVE UnansweredInv'
  BY <1>16 DEF Lock, Goto
<1>17. ASSUME NEW r \in Request, GetAnswers(r) PROVE UnansweredInv'
  BY <1>17 DEF GetAnswers, Goto
<1>18. ASSUME NEW r \in Request, Conclude(r) PROVE UnansweredInv'
  BY <1>18 DEF Conclude, Goto
<1>19. ASSUME NEW r \in Request, LogResponse(r) PROVE UnansweredInv'
  BY <1>19 DEF LogResponse, Goto
<1>20. ASSUME NEW r \in Request, BuildResponse(r) PROVE UnansweredInv'
  BY <1>20 DEF BuildResponse, Goto
<1>21. ASSUME NEW r \in Request, PackAnswers(r) PROVE UnansweredInv'
  BY <1>21 DEF PackAnswers, Goto
<1>22. ASSUME NEW r \in Request, AnswerLookup(r) PROVE UnansweredInv'
  BY <1>22 DEF AnswerLookup, Goto
<1>23. ASSUME NEW r \in Request, Expire(r) PROVE UnansweredInv'
  BY <1>23 DEF Expire, Goto
<1>24. ASSUME UNCHANGED vars PROVE UnansweredInv'
  BY <1>24 DEF vars
<1> QED
  BY ONLY [Next]_vars, <1>1, <1>2, <1>3, <1>4, <1>5, <1>6, <1>7, <1>8, <1>9,
     <1>10, <1>11, <1>12, <1>13, <1>14, <1>15, <1>16, <1>17, <1>18, <1>19, <1>20,
     <1>21, <1>22, <1>23, <1>24 DEF Next, Step

\* Where no queries overlap, the addresses of the record of a query are such a list.
LEMMA FairHint ==
  ASSUME IInv, CleanInv, NEW r \in Request, pc[r] \notin {"idle", "load"},
         overlapped = {}, hint(r) # None
  PROVE  Fair(profile, qname[r], addresses[hint(r)])
<1>1. profile \in Profiles /\ qname[r] \in Name /\ Of(mine[r], qname[r])
  BY MineKey DEF IInv, TypeOK
<1>2. ListInv /\ \A k : Alone(k)
  BY DEF CleanInv, Alone
<1>3. ASSUME NEW k \in Line, Key(profile, k) \in Bases(profile, qname[r]), addresses[hint(r)] = <<k>>
      PROVE  Fair(profile, qname[r], addresses[hint(r)])
  BY <1>1, <1>3, BaseKin DEF Fair
<1>4. CASE hint(r) \in Line /\ Key(profile, hint(r)) \in Bases(profile, qname[r])
  <2>1. addresses[hint(r)] = <<hint(r)>>
    BY <1>2, <1>4 DEF ListInv
  <2>. QED
    BY <1>3, <1>4, <2>1
<1>5. ASSUME NEW k \in Bases(profile, qname[r]), hint(r) \in Lists(k)
      PROVE  Fair(profile, qname[r], addresses[hint(r)])
  <2>1. PICK q \in Request : key(q) = k /\ hint(r) \in {<<q, "answers">>, <<q, "empty">>}
    BY <1>5 DEF Lists
  <2>2. addresses[hint(r)] = << >> \/ addresses[hint(r)] = <<qname[q]>>
    BY <1>2, <2>1, <1>5 DEF ListInv, Lists
  <2>3. qname[q] \in Line /\ Key(profile, qname[q]) = k
    BY <2>1 DEF key, Line, IInv, TypeOK
  <2>. QED
    BY <1>3, <1>5, <2>2, <2>3 DEF Fair
<1>. QED
  BY <1>1, <1>4, <1>5, HintBase DEF hint

\* Answers are made of such lists.
LEMMA StepAnswer == ASSUME IInv, CleanInv, [Next]_vars PROVE AnswerInv'
<1>t. /\ pc \in [Request -> Label]
      /\ qname \in [Request -> Name]
      /\ answer \in [Request -> [index : 0..Len(Nose) - 1, addresses : Seq(Line)]]
  BY DEF IInv, TypeOK
<1>h. TypeOK /\ AnswerInv /\ UnansweredInv /\ ListInv /\ HintInv /\ MineInv
  BY DEF CleanInv, IInv
<1> USE <1>t, <1>h, SuffixAssumption, HintAssumption
    DEF AnswerInv, UnansweredInv, sharedVars, localVars, Clean, key
<1>1. ASSUME NEW r \in Request, NEW n \in Name,
             NEW e \in {"NSRequest", "NSLookup"}, Begin(r, n, e)
      PROVE  AnswerInv'
  BY <1>1 DEF Begin, Goto, Fair
<1>2. ASSUME NEW r \in Request, LoadDNSCache(r) PROVE AnswerInv'
  BY <1>2 DEF LoadDNSCache, Goto
<1>3. ASSUME NEW r \in Request, StoreDNSCache(r) PROVE AnswerInv'
  BY <1>3 DEF StoreDNSCache, Goto
<1>4. ASSUME NEW r \in Request, LoadTop(r) PROVE AnswerInv'
  BY <1>4 DEF LoadTop, Goto
<1>5. ASSUME NEW r \in Request, CopyTop(r) PROVE AnswerInv'
  BY <1>5 DEF CopyTop, Goto
<1>6. ASSUME NEW r \in Request, CheckRequest(r) PROVE AnswerInv'
  BY <1>6 DEF CheckRequest, Goto
<1>7. ASSUME NEW r \in Request, CheckLookup(r) PROVE AnswerInv'
  BY <1>7 DEF CheckLookup, Goto
<1>8. ASSUME NEW r \in Request, ClearHint(r) PROVE AnswerInv'
  BY <1>8 DEF ClearHint, Goto
<1>9. ASSUME NEW r \in Request, ResolveFake(r) PROVE AnswerInv'
  BY <1>9 DEF ResolveFake, Goto
<1>10. ASSUME NEW r \in Request, ResolveFails(r) PROVE AnswerInv'
  BY <1>10 DEF ResolveFails, Goto, AsksUpstream
<1>11. ASSUME NEW r \in Request, ResolveFiltered(r) PROVE AnswerInv'
  BY <1>11 DEF ResolveFiltered, Goto, AsksUpstream
<1>12. ASSUME NEW r \in Request, ResolveReal(r) PROVE AnswerInv'
  BY <1>12 DEF ResolveReal, Goto, AsksUpstream
<1>13. ASSUME NEW r \in Request, ResolveUnknown(r) PROVE AnswerInv'
  BY <1>13 DEF ResolveUnknown, Goto, AsksUpstream
<1>14. ASSUME NEW r \in Request, AddDNSLie(r) PROVE AnswerInv'
  BY <1>14 DEF AddDNSLie, Goto
<1>15. ASSUME NEW r \in Request, SetIndex(r) PROVE AnswerInv'
  BY <1>15 DEF SetIndex, Goto
<1>16. ASSUME NEW r \in Request, Lock(r) PROVE AnswerInv'
  BY <1>16 DEF Lock, Goto
<1>17. ASSUME NEW r \in Request, GetAnswers(r) PROVE AnswerInv'
  BY <1>17 DEF GetAnswers, Goto
<1>18. ASSUME NEW r \in Request, Conclude(r) PROVE AnswerInv'
  BY <1>18 DEF Conclude, Goto
<1>19. ASSUME NEW r \in Request, LogResponse(r) PROVE AnswerInv'
  BY <1>19 DEF LogResponse, Goto
<1>20. ASSUME NEW r \in Request, BuildResponse(r) PROVE AnswerInv'
  <2>1. UNCHANGED <<profile, qname, overlapped>>
    BY <1>20 DEF BuildResponse
  <2>2. answer' = answer \/ answer' = [answer EXCEPT ![r].index = index(r)]
    BY <1>20 DEF BuildResponse
  <2>3. \A x \in Request : answer'[x].addresses = answer[x].addresses
    BY <2>2, AnswerIndexSet
  <2> QED BY <2>1, <2>3 DEF AnswerInv
<1>21. ASSUME NEW r \in Request, PackAnswers(r) PROVE AnswerInv'
  <2>1. pc[r] \notin {"idle", "load"}
    BY <1>21 DEF PackAnswers
  <2>2. overlapped = {} /\ hint(r) # None => Fair(profile, qname[r], addresses[hint(r)])
    BY <2>1, FairHint
  <2>3. \/ answer' = answer
        \/ answer' = [answer EXCEPT ![r].addresses = << >>]
        \/ hint(r) # None /\ answer' = [answer EXCEPT ![r].addresses = addresses[hint(r)]]
    BY <1>21 DEF PackAnswers
  <2>4. UNCHANGED <<profile, qname, overlapped>>
    BY <1>21 DEF PackAnswers
  <2>5. CASE answer' = answer
    BY <2>4, <2>5 DEF AnswerInv
  <2>6. CASE answer' = [answer EXCEPT ![r].addresses = << >>]
    BY <2>4, <2>6, AnswerSet DEF AnswerInv, Fair
  <2>7. CASE hint(r) # None /\ answer' = [answer EXCEPT ![r].addresses = addresses[hint(r)]]
    <3>1. \A x \in Request : answer'[x].addresses = IF x = r THEN addresses[hint(r)] ELSE answer[x].addresses
      BY <2>7, AnswerSet
    <3> QED BY <2>2, <2>4, <2>7, <3>1 DEF AnswerInv
  <2> QED BY <2>3, <2>5, <2>6, <2>7
<1>22. ASSUME NEW r \in Request, AnswerLookup(r) PROVE AnswerInv'
  <2>1. pc[r] \notin {"idle", "load"}
    BY <1>22 DEF AnswerLookup
  <2>2. overlapped = {} /\ hint(r) # None => Fair(profile, qname[r], addresses[hint(r)])
    BY <2>1, FairHint
  <2>3. \/ answer' = answer
        \/ answer' = [answer EXCEPT ![r].addresses = << >>]
        \/ hint(r) # None /\ answer' = [answer EXCEPT ![r].addresses = addresses[hint(r)]]
    BY <1>22 DEF AnswerLookup
  <2>4. UNCHANGED <<profile, qname, overlapped>>
    BY <1>22 DEF AnswerLookup
  <2>5. CASE answer' = answer
    BY <2>4, <2>5 DEF AnswerInv
  <2>6. CASE answer' = [answer EXCEPT ![r].addresses = << >>]
    BY <2>4, <2>6, AnswerSet DEF AnswerInv, Fair
  <2>7. CASE hint(r) # None /\ answer' = [answer EXCEPT ![r].addresses = addresses[hint(r)]]
    <3>1. \A x \in Request : answer'[x].addresses = IF x = r THEN addresses[hint(r)] ELSE answer[x].addresses
      BY <2>7, AnswerSet
    <3> QED BY <2>2, <2>4, <2>7, <3>1 DEF AnswerInv
  <2> QED BY <2>3, <2>5, <2>6, <2>7
<1>23. ASSUME NEW r \in Request, Expire(r) PROVE AnswerInv'
  BY <1>23 DEF Expire, Goto
<1>24. ASSUME UNCHANGED vars PROVE AnswerInv'
  BY <1>24 DEF vars
<1> QED
  BY ONLY [Next]_vars, <1>1, <1>2, <1>3, <1>4, <1>5, <1>6, <1>7, <1>8, <1>9,
     <1>10, <1>11, <1>12, <1>13, <1>14, <1>15, <1>16, <1>17, <1>18, <1>19, <1>20,
     <1>21, <1>22, <1>23, <1>24 DEF Next, Step

\* A new entry of Nose names one key.
LEMMA NamedAppend ==
  ASSUME TypeOK, NEW r \in Request, Nose' = Append(Nose, qname[r]), profile' = profile
  PROVE  \A k : Named(k)' => Named(k) \/ k = key(r)
BY DEF TypeOK, Named, key

\* The record of a key: its line's, or one that a query for it has made.
LEMMA RecordOfKey ==
  ASSUME IInv, NEW k \in Line
  PROVE  /\ RecordOf(k) \in Record \cup {None}
         /\ RecordOf(k) \in Request => RecordKey(RecordOf(k)) = k
<1> USE SuffixAssumption, LineAssumption
<1>1. profile \in Profiles /\ DNSCache \in [Name -> Record \cup {None}]
  BY DEF IInv, TypeOK
<1>2. CASE k = Suffix
  BY <1>2 DEF RecordOf, Record, Line
<1>3. CASE k # Suffix /\ profile.cache[k] = k
  BY <1>3 DEF RecordOf, Record, Line
<1>4. CASE k # Suffix /\ profile.cache[k] # k
  <2>1. k \in Name /\ RecordOf(k) = DNSCache[k]
    BY <1>4 DEF RecordOf, Line
  <2>2. ASSUME DNSCache[k] \in Request PROVE RecordKey(DNSCache[k]) = k
    BY <2>1, <2>2 DEF IInv, MapInv, Of, RecordKey
  <2>. QED
    BY <1>1, <2>1, <2>2
<1>. QED
  BY <1>2, <1>3, <1>4

\* A step that leaves the indexes alone.
LEMMA KeptAside ==
  ASSUME IInv, IndexKept, UNCHANGED <<known, profile, DNSCache, Nose>>, overlapped \subseteq overlapped',
         \A x \in Record : rec'[x].Index = rec[x].Index,
         \A s \in Request : pc[s] = "setindex" => pc'[s] = "setindex" /\ qname'[s] = qname[s]
  PROVE  IndexKept'
<1>1. SUFFICES ASSUME NEW k \in Line, known, Clean(k), Named(k)
               PROVE  /\ RecordOf(k) # None
                      /\ rec'[RecordOf(k)].Index > 0 \/ \E s \in Request : pc'[s] = "setindex" /\ key(s)' = k
  BY DEF IndexKept, Named, Clean, RecordOf
<1>2. /\ RecordOf(k) # None
      /\ rec[RecordOf(k)].Index > 0 \/ \E s \in Request : pc[s] = "setindex" /\ key(s) = k
  BY <1>1 DEF IndexKept
<1>3. RecordOf(k) \in Record
  BY <1>2, RecordOfKey
<1>4. \A s \in Request : pc[s] = "setindex" => pc'[s] = "setindex" /\ key(s)' = key(s)
  BY DEF key
<1>. QED
  BY <1>2, <1>3, <1>4

\* The index goes into the record in the map, and stays there.
LEMMA StepKept == ASSUME IInv, CleanInv, [Next]_vars PROVE IndexKept'
<1>t. /\ pc \in [Request -> Label]
      /\ qname \in [Request -> Name]
      /\ DNSCache \in [Name -> Record \cup {None}]
      /\ profile \in Profiles
  BY DEF IInv, TypeOK
<1>h. TypeOK /\ IndexKept /\ CurrentInv /\ NotNamed /\ LiePositive
  BY DEF CleanInv, IInv
<1> USE <1>t, <1>h, SuffixAssumption
<1>1. ASSUME NEW r \in Request, NEW n \in Name,
             NEW e \in {"NSRequest", "NSLookup"}, Begin(r, n, e)
      PROVE  IndexKept'
  BY <1>1, KeptAside DEF Begin, Goto, sharedVars, localVars
<1>2. ASSUME NEW r \in Request, LoadDNSCache(r) PROVE IndexKept'
  BY <1>2, KeptAside DEF LoadDNSCache, Goto, sharedVars, localVars
<1>3. ASSUME NEW r \in Request, StoreDNSCache(r) PROVE IndexKept'
  <2>1. /\ pc[r] = "store" /\ pc' = [pc EXCEPT ![r] = "top"] /\ mine[r] \in Request
        /\ DNSCache' = [DNSCache EXCEPT ![qname[r]] = mine[r]]
        /\ UNCHANGED <<known, profile, rec, Nose, qname, overlapped>>
    BY <1>3 DEF StoreDNSCache, Goto, localVars, IInv, MineInv
  <2>2. profile.cache[qname[r]] = None /\ key(r) = qname[r]
    <3>1. Of(mine[r], qname[r])
      BY <2>1, MineKey
    <3>. QED
      BY <2>1, <3>1, KeyFacts DEF Of, key
  <2>3. Clean(key(r)) => RecordOf(key(r)) = None
    BY <2>1, <2>2 DEF CurrentInv, Active, RecordOf
  <2>4. SUFFICES ASSUME NEW k \in Line, known, Clean(k), Named(k)
                 PROVE  /\ RecordOf(k)' # None
                        /\ rec[RecordOf(k)'].Index > 0 \/ \E s \in Request : pc'[s] = "setindex" /\ key(s) = k
    BY <2>1 DEF IndexKept, Named, Clean, key
  <2>5. /\ RecordOf(k) # None
        /\ rec[RecordOf(k)].Index > 0 \/ \E s \in Request : pc[s] = "setindex" /\ key(s) = k
    BY <2>4 DEF IndexKept
  <2>6. k # qname[r]
    BY <2>2, <2>3, <2>4, <2>5
  <2>7. RecordOf(k)' = RecordOf(k)
    BY <2>1, <2>6 DEF RecordOf, Line
  <2> QED BY <2>1, <2>5, <2>7
<1>4. ASSUME NEW r \in Request, LoadTop(r) PROVE IndexKept'
  BY <1>4, KeptAside DEF LoadTop, Goto, sharedVars, localVars
<1>5. ASSUME NEW r \in Request, CopyTop(r) PROVE IndexKept'
  <2>1. /\ pc[r] = "copy" /\ pc' = [pc EXCEPT ![r] = "check"] /\ mine[r] \in Request
        /\ UNCHANGED <<known, profile, DNSCache, Nose, qname, overlapped>>
    BY <1>5 DEF CopyTop, Goto, localVars, IInv, MineInv
  <2>2. rec' = [rec EXCEPT ![mine[r]] = rec[top[r]]]
    BY <1>5 DEF CopyTop
  <2>3. \A x \in Record : x # mine[r] => rec'[x] = rec[x]
    BY <2>2 DEF TypeOK
  <2>4. SUFFICES ASSUME NEW k \in Line, known, Clean(k), Named(k)
                 PROVE  /\ RecordOf(k) # None
                        /\ rec'[RecordOf(k)].Index > 0 \/ \E s \in Request : pc'[s] = "setindex" /\ key(s) = k
    BY <2>1 DEF IndexKept, Named, Clean, key, RecordOf
  <2>5. k # key(r)
    BY <2>1, <2>4 DEF NotNamed
  <2>6. /\ RecordOf(k) # None
        /\ rec[RecordOf(k)].Index > 0 \/ \E s \in Request : pc[s] = "setindex" /\ key(s) = k
    BY <2>4 DEF IndexKept
  <2>7. RecordOf(k) \in Record /\ (RecordOf(k) \in Request => RecordKey(RecordOf(k)) = k)
    BY <2>6, RecordOfKey
  <2>8. RecordKey(mine[r]) = key(r)
    BY <2>1, MineKey
  <2>9. RecordOf(k) # mine[r]
    BY <2>1, <2>5, <2>7, <2>8
  <2> QED BY <2>1, <2>3, <2>6, <2>7, <2>9
<1>6. ASSUME NEW r \in Request, CheckRequest(r) PROVE IndexKept'
  BY <1>6, KeptAside DEF CheckRequest, Goto, sharedVars, localVars
<1>7. ASSUME NEW r \in Request, CheckLookup(r) PROVE IndexKept'
  BY <1>7, KeptAside DEF CheckLookup, Goto, sharedVars, localVars
<1>8. ASSUME NEW r \in Request, ClearHint(r) PROVE IndexKept'
  <2>1. /\ pc[r] \notin {"idle", "load", "setindex"} /\ \A s \in Request : s # r => pc'[s] = pc[s]
        /\ UNCHANGED <<known, profile, DNSCache, Nose, qname, overlapped>>
    BY <1>8 DEF ClearHint, Goto, localVars
  <2>2. PICK h : rec' = [rec EXCEPT ![mine[r]].IPv4Hint = h] \/ rec' = rec
    BY <1>8 DEF ClearHint
  <2>3. mine[r] \in Record
    BY <2>1, MineKey
  <2>4. \A x \in Record : rec'[x].Index = rec[x].Index
    BY ONLY <1>h, <2>2, <2>3, HintKept
  <2> QED BY <2>1, <2>4, KeptAside
<1>9. ASSUME NEW r \in Request, ResolveFake(r) PROVE IndexKept'
  BY <1>9, KeptAside DEF ResolveFake, Goto, sharedVars, localVars
<1>10. ASSUME NEW r \in Request, ResolveFails(r) PROVE IndexKept'
  BY <1>10, KeptAside DEF ResolveFails, Goto, sharedVars, localVars, AsksUpstream
<1>11. ASSUME NEW r \in Request, ResolveFiltered(r) PROVE IndexKept'
  BY <1>11, KeptAside DEF ResolveFiltered, Goto, sharedVars, localVars, AsksUpstream
<1>12. ASSUME NEW r \in Request, ResolveReal(r) PROVE IndexKept'
  BY <1>12, KeptAside DEF ResolveReal, Goto, sharedVars, localVars, AsksUpstream
<1>13. ASSUME NEW r \in Request, ResolveUnknown(r) PROVE IndexKept'
  BY <1>13, KeptAside DEF ResolveUnknown, Goto, sharedVars, localVars, AsksUpstream
<1>14. ASSUME NEW r \in Request, AddDNSLie(r) PROVE IndexKept'
  <2>1. /\ pc[r] = "lie" /\ pc' = [pc EXCEPT ![r] = "setindex"] /\ Nose' = Append(Nose, qname[r])
        /\ UNCHANGED <<known, profile, DNSCache, rec, qname, overlapped>>
    BY <1>14 DEF AddDNSLie, Goto
  <2>2. SUFFICES ASSUME NEW k \in Line, known, Clean(k), Named(k)'
                 PROVE  /\ RecordOf(k) # None
                        /\ rec[RecordOf(k)].Index > 0 \/ \E s \in Request : pc'[s] = "setindex" /\ key(s) = k
    BY <2>1 DEF IndexKept, Clean, key, RecordOf
  <2>3. CASE k = key(r)
    <3>1. RecordOf(k) = mine[r] /\ mine[r] # None
      BY <2>1, <2>2, <2>3, MineRecord, MineKey, OfKey DEF Active
    <3> QED BY <2>1, <2>3, <3>1
  <2>4. CASE k # key(r)
    <3>1. Named(k)
      BY <2>1, <2>2, <2>4, NamedAppend
    <3> QED BY <2>1, <2>2, <3>1 DEF IndexKept
  <2> QED BY <2>3, <2>4
<1>15. ASSUME NEW r \in Request, SetIndex(r) PROVE IndexKept'
  <2>1. /\ pc[r] = "setindex" /\ rec' = [rec EXCEPT ![mine[r]].Index = lie[r]]
        /\ \A s \in Request : s # r => pc'[s] = pc[s]
        /\ UNCHANGED <<known, profile, DNSCache, Nose, qname, overlapped>>
    BY <1>15 DEF SetIndex, Goto, localVars
  <2>2. mine[r] \in Record /\ lie[r] > 0 /\ (Clean(key(r)) => RecordOf(key(r)) = mine[r])
    BY <2>1, MineKey, MineRecord DEF LiePositive, Active
  <2>3. \A x \in Record : rec'[x].Index = IF x = mine[r] THEN lie[r] ELSE rec[x].Index
    <3>1. TypeOK /\ mine[r] \in Record /\ rec' = [rec EXCEPT ![mine[r]].Index = lie[r]]
      BY <2>1, <2>2
    <3>2. \A x \in Record : x # mine[r] => rec'[x] = rec[x]
      BY <3>1 DEF TypeOK
    <3>3. rec'[mine[r]].Index = lie[r]
      BY <3>1 DEF TypeOK
    <3> QED BY <3>2, <3>3
  <2>4. SUFFICES ASSUME NEW k \in Line, known, Clean(k), Named(k)
                 PROVE  /\ RecordOf(k) # None
                        /\ rec'[RecordOf(k)].Index > 0 \/ \E s \in Request : pc'[s] = "setindex" /\ key(s) = k
    BY <2>1 DEF IndexKept, Named, Clean, key, RecordOf
  <2>5. /\ RecordOf(k) # None
        /\ rec[RecordOf(k)].Index > 0 \/ \E s \in Request : pc[s] = "setindex" /\ key(s) = k
    BY <2>4 DEF IndexKept
  <2>6. RecordOf(k) \in Record
    BY <2>5, RecordOfKey
  <2>7. CASE k = key(r)
    BY <2>2, <2>3, <2>4, <2>5, <2>7
  <2>8. CASE k # key(r)
    BY <2>1, <2>2, <2>3, <2>5, <2>6, <2>8
  <2> QED BY <2>7, <2>8
<1>16. ASSUME NEW r \in Request, Lock(r) PROVE IndexKept'
  BY <1>16, KeptAside DEF Lock, Goto, sharedVars, localVars
<1>17. ASSUME NEW r \in Request, GetAnswers(r) PROVE IndexKept'
  <2>1. /\ pc[r] = "answers" /\ \A s \in Request : s # r => pc'[s] = pc[s]
        /\ UNCHANGED <<known, profile, DNSCache, Nose, qname, overlapped>>
    BY <1>17, AnswersStored
  <2>2. PICK h : rec' = [rec EXCEPT ![mine[r]].IPv4Hint = h] \/ rec' = rec
    BY <1>17 DEF GetAnswers
  <2>3. mine[r] \in Record
    BY <2>1, MineKey
  <2>4. \A x \in Record : rec'[x].Index = rec[x].Index
    BY ONLY <1>h, <2>2, <2>3, HintKept
  <2> QED BY <2>1, <2>4, KeptAside
<1>18. ASSUME NEW r \in Request, Conclude(r) PROVE IndexKept'
  <2>1. /\ pc[r] \notin {"idle", "load", "setindex"} /\ \A s \in Request : s # r => pc'[s] = pc[s]
        /\ UNCHANGED <<known, profile, DNSCache, Nose, qname, overlapped>>
    BY <1>18 DEF Conclude, Goto, localVars
  <2>2. PICK h : rec' = [rec EXCEPT ![mine[r]].IPv4Hint = h] \/ rec' = rec
    BY <1>18 DEF Conclude
  <2>3. mine[r] \in Record
    BY <2>1, MineKey
  <2>4. \A x \in Record : rec'[x].Index = rec[x].Index
    BY ONLY <1>h, <2>2, <2>3, HintKept
  <2> QED BY <2>1, <2>4, KeptAside
<1>19. ASSUME NEW r \in Request, LogResponse(r) PROVE IndexKept'
  BY <1>19, KeptAside DEF LogResponse, Goto, sharedVars, localVars
<1>20. ASSUME NEW r \in Request, BuildResponse(r) PROVE IndexKept'
  BY <1>20, KeptAside DEF BuildResponse, Goto, sharedVars, localVars
<1>21. ASSUME NEW r \in Request, PackAnswers(r) PROVE IndexKept'
  BY <1>21, KeptAside DEF PackAnswers, Goto, sharedVars, localVars
<1>22. ASSUME NEW r \in Request, AnswerLookup(r) PROVE IndexKept'
  BY <1>22, KeptAside DEF AnswerLookup, Goto, sharedVars, localVars
<1>23. ASSUME NEW r \in Request, Expire(r) PROVE IndexKept'
  BY <1>23, KeptAside DEF Expire, Goto, sharedVars, localVars
<1>24. ASSUME UNCHANGED vars PROVE IndexKept'
  BY <1>24, KeptAside DEF vars, sharedVars, localVars
<1> QED
  BY ONLY [Next]_vars, <1>1, <1>2, <1>3, <1>4, <1>5, <1>6, <1>7, <1>8, <1>9,
     <1>10, <1>11, <1>12, <1>13, <1>14, <1>15, <1>16, <1>17, <1>18, <1>19, <1>20,
     <1>21, <1>22, <1>23, <1>24 DEF Next, Step

\* A name has its index in its record, before another one can be made.
LEMMA NoLieYet ==
  ASSUME IInv, CleanInv, known, NEW r \in Request, Active(r), Clean(key(r)),
         \/ pc[r] = "store" /\ mine[r] \in Request
         \/ pc[r] \notin {"load", "store", "setindex"} /\ ~(index(r) > 0)
  PROVE  ~Named(key(r))
<1> USE SuffixAssumption
<1>1. SUFFICES ASSUME Named(key(r)) PROVE FALSE
  OBVIOUS
<1>2. profile \in Profiles /\ qname[r] \in Name
  BY DEF IInv, TypeOK
<1>3. key(r) \in Line
  BY <1>2, KeyFacts DEF key
<1>4. /\ RecordOf(key(r)) # None
      /\ rec[RecordOf(key(r))].Index > 0 \/ \E s \in Request : pc[s] = "setindex" /\ key(s) = key(r)
  BY <1>1, <1>3 DEF CleanInv, IndexKept
<1>5. CASE pc[r] = "store" /\ mine[r] \in Request
  <2>1. profile.cache[qname[r]] = None /\ key(r) = qname[r]
    <3>1. Of(mine[r], qname[r])
      BY <1>5, MineKey
    <3>. QED
      BY <1>2, <1>5, <3>1, KeyFacts DEF Of, key
  <2>2. DNSCache[qname[r]] = None
    BY <1>5 DEF CleanInv, CurrentInv
  <2>. QED
    BY <1>2, <1>4, <2>1, <2>2 DEF RecordOf
<1>6. CASE pc[r] \notin {"load", "store", "setindex"} /\ ~(index(r) > 0)
  <2>1. RecordOf(key(r)) = mine[r]
    BY <1>6, MineRecord
  <2>2. PICK s \in Request : pc[s] = "setindex" /\ key(s) = key(r)
    BY <1>4, <1>6, <2>1 DEF index
  <2>. QED
    BY <1>6, <2>2 DEF CleanInv, Single, Active
<1>. QED
  BY <1>5, <1>6

\* And is given it before another query for it gets there.
LEMMA StepNotNamed == ASSUME IInv, CleanInv, [Next]_vars PROVE NotNamed'
<1>t. /\ pc \in [Request -> Label]
      /\ qname \in [Request -> Name]
      /\ rec \in [Record -> [Index : 0..Len(Nose) - 1, IPv4Hint : Hint \cup {None}]]
      /\ mine \in [Request -> Record \cup {None}]
      /\ DNSCache \in [Name -> Record \cup {None}]
  BY DEF IInv, TypeOK
<1>h. TypeOK /\ NotNamed /\ IndexKept /\ CurrentInv /\ MineInv
  BY DEF CleanInv, IInv
<1> USE <1>t, <1>h, SuffixAssumption, HintAssumption
    DEF IndexKept, CurrentInv, NotNamed, MineInv, Named, index, Active, sharedVars, localVars, Clean, key
<1>1. ASSUME NEW r \in Request, NEW n \in Name,
             NEW e \in {"NSRequest", "NSLookup"}, Begin(r, n, e)
      PROVE  NotNamed'
  BY <1>1, Apart DEF Begin, Goto
<1>2. ASSUME NEW r \in Request, LoadDNSCache(r) PROVE NotNamed'
  BY <1>2, Apart DEF LoadDNSCache, Goto
<1>3. ASSUME NEW r \in Request, StoreDNSCache(r) PROVE NotNamed'
  <2>1. /\ pc[r] = "store" /\ pc' = [pc EXCEPT ![r] = "top"] /\ mine[r] \in Request
        /\ UNCHANGED <<known, profile, Nose, qname, overlapped>>
    BY <1>3 DEF StoreDNSCache, Goto
  <2>2. ASSUME known, Clean(key(r)) PROVE ~Named(key(r))
    <3>1. Active(r)
      BY <2>1 DEF Active
    <3> HIDE DEF Named, index, Active, Clean, key
    <3> QED BY <2>1, <2>2, <3>1, NoLieYet
  <2> QED BY <2>1, <2>2 DEF NotNamed
<1>4. ASSUME NEW r \in Request, LoadTop(r) PROVE NotNamed'
  BY <1>4, Apart DEF LoadTop, Goto
<1>5. ASSUME NEW r \in Request, CopyTop(r) PROVE NotNamed'
  BY <1>5, Apart DEF CopyTop, Goto
<1>6. ASSUME NEW r \in Request, CheckRequest(r) PROVE NotNamed'
  BY <1>6, Apart DEF CheckRequest, Goto
<1>7. ASSUME NEW r \in Request, CheckLookup(r) PROVE NotNamed'
  BY <1>7, Apart DEF CheckLookup, Goto
<1>8. ASSUME NEW r \in Request, ClearHint(r) PROVE NotNamed'
  BY <1>8, Apart DEF ClearHint, Goto
<1>9. ASSUME NEW r \in Request, ResolveFake(r) PROVE NotNamed'
  <2>1. pc[r] = "resolve" /\ UNCHANGED <<known, profile, qname, Nose, overlapped>>
    BY <1>9 DEF ResolveFake, AsksUpstream
  <2>2. pc'[r] = "lie" => index(r) = 0
    BY <1>9 DEF ResolveFake, Goto, AsksUpstream
  <2>3. \A s \in Request : s # r => pc'[s] = pc[s]
    BY <1>9 DEF ResolveFake, Goto
  <2>4. ASSUME known, Clean(key(r)), pc'[r] = "lie" PROVE ~Named(key(r))
    <3>1. Active(r) /\ pc[r] \notin {"load", "store", "setindex"}
      BY <2>1 DEF Active
    <3>2. ~(index(r) > 0)
      BY <2>2, <2>4
    <3> HIDE DEF Named, index, Active, Clean, key
    <3> QED BY <2>4, <3>1, <3>2, NoLieYet
  <2>5. pc'[r] \notin {"top", "copy"}
    BY <1>9 DEF ResolveFake, Goto
  <2> QED BY <2>1, <2>3, <2>4, <2>5 DEF NotNamed
<1>10. ASSUME NEW r \in Request, ResolveFails(r) PROVE NotNamed'
  BY <1>10, Apart DEF ResolveFails, Goto, AsksUpstream
<1>11. ASSUME NEW r \in Request, ResolveFiltered(r) PROVE NotNamed'
  BY <1>11, Apart DEF ResolveFiltered, Goto, AsksUpstream
<1>12. ASSUME NEW r \in Request, ResolveReal(r) PROVE NotNamed'
  <2>1. pc[r] = "resolve" /\ UNCHANGED <<known, profile, qname, Nose, overlapped>>
    BY <1>12 DEF ResolveReal, AsksUpstream
  <2>2. pc'[r] = "lie" => index(r) = 0
    BY <1>12 DEF ResolveReal, Goto, AsksUpstream
  <2>3. \A s \in Request : s # r => pc'[s] = pc[s]
    BY <1>12 DEF ResolveReal, Goto
  <2>4. ASSUME known, Clean(key(r)), pc'[r] = "lie" PROVE ~Named(key(r))
    <3>1. Active(r) /\ pc[r] \notin {"load", "store", "setindex"}
      BY <2>1 DEF Active
    <3>2. ~(index(r) > 0)
      BY <2>2, <2>4
    <3> HIDE DEF Named, index, Active, Clean, key
    <3> QED BY <2>4, <3>1, <3>2, NoLieYet
  <2>5. pc'[r] \notin {"top", "copy"}
    BY <1>12 DEF ResolveReal, Goto
  <2> QED BY <2>1, <2>3, <2>4, <2>5 DEF NotNamed
<1>13. ASSUME NEW r \in Request, ResolveUnknown(r) PROVE NotNamed'
  BY <1>13, Apart DEF ResolveUnknown, Goto, AsksUpstream
<1>14. ASSUME NEW r \in Request, AddDNSLie(r) PROVE NotNamed'
  <2>1. /\ pc[r] = "lie" /\ pc' = [pc EXCEPT ![r] = "setindex"] /\ Nose' = Append(Nose, qname[r])
        /\ UNCHANGED <<known, profile, qname, overlapped>>
    BY <1>14 DEF AddDNSLie, Goto
  <2> HIDE DEF Named, key
  <2>2. SUFFICES ASSUME known, NEW s \in Request, Clean(key(s)), pc'[s] \in {"top", "copy", "lie"}, Named(key(s))'
                 PROVE  FALSE
    BY <2>1 DEF NotNamed, key
  <2>3. s # r /\ pc[s] = pc'[s]
    BY <2>1, <2>2
  <2>4. key(s) # key(r) /\ key(s)' = key(s)
    BY <2>1, <2>2, <2>3, Apart DEF Active, key
  <2>5. Named(key(s))
    <3>1. \E k : k = key(s) /\ Named(k)'
      BY <2>2, <2>4 DEF Named
    <3> QED BY <2>1, <2>4, <3>1, NamedAppend
  <2> QED BY <2>2, <2>3, <2>5 DEF NotNamed
<1>15. ASSUME NEW r \in Request, SetIndex(r) PROVE NotNamed'
  BY <1>15, Apart DEF SetIndex, Goto
<1>16. ASSUME NEW r \in Request, Lock(r) PROVE NotNamed'
  BY <1>16, Apart DEF Lock, Goto
<1>17. ASSUME NEW r \in Request, GetAnswers(r) PROVE NotNamed'
  BY <1>17, Apart DEF GetAnswers, Goto
<1>18. ASSUME NEW r \in Request, Conclude(r) PROVE NotNamed'
  BY <1>18, Apart DEF Conclude, Goto
<1>19. ASSUME NEW r \in Request, LogResponse(r) PROVE NotNamed'
  BY <1>19, Apart DEF LogResponse, Goto
<1>20. ASSUME NEW r \in Request, BuildResponse(r) PROVE NotNamed'
  BY <1>20, Apart DEF BuildResponse, Goto
<1>21. ASSUME NEW r \in Request, PackAnswers(r) PROVE NotNamed'
  BY <1>21, Apart DEF PackAnswers, Goto
<1>22. ASSUME NEW r \in Request, AnswerLookup(r) PROVE NotNamed'
  BY <1>22, Apart DEF AnswerLookup, Goto
<1>23. ASSUME NEW r \in Request, Expire(r) PROVE NotNamed'
  BY <1>23, Apart DEF Expire, Goto
<1>24. ASSUME UNCHANGED vars PROVE NotNamed'
  BY <1>24 DEF vars
<1> QED
  BY ONLY [Next]_vars, <1>1, <1>2, <1>3, <1>4, <1>5, <1>6, <1>7, <1>8, <1>9,
     <1>10, <1>11, <1>12, <1>13, <1>14, <1>15, <1>16, <1>17, <1>18, <1>19, <1>20,
     <1>21, <1>22, <1>23, <1>24 DEF Next, Step

\* Index 0 is nobody's.
LEMMA StepPositive == ASSUME IInv, CleanInv, [Next]_vars PROVE LiePositive'
<1>t. /\ pc \in [Request -> Label]
      /\ lie \in [Request -> 0..Len(Nose) - 1]
  BY DEF IInv, TypeOK
<1>h. LiePositive
  BY DEF CleanInv, IInv
<1> USE <1>t, <1>h, SuffixAssumption, HintAssumption DEF LiePositive, sharedVars, localVars, Clean, key
<1>1. ASSUME NEW r \in Request, NEW n \in Name,
             NEW e \in {"NSRequest", "NSLookup"}, Begin(r, n, e)
      PROVE  LiePositive'
  BY <1>1 DEF Begin, Goto
<1>2. ASSUME NEW r \in Request, LoadDNSCache(r) PROVE LiePositive'
  BY <1>2 DEF LoadDNSCache, Goto
<1>3. ASSUME NEW r \in Request, StoreDNSCache(r) PROVE LiePositive'
  BY <1>3 DEF StoreDNSCache, Goto
<1>4. ASSUME NEW r \in Request, LoadTop(r) PROVE LiePositive'
  BY <1>4 DEF LoadTop, Goto
<1>5. ASSUME NEW r \in Request, CopyTop(r) PROVE LiePositive'
  BY <1>5 DEF CopyTop, Goto
<1>6. ASSUME NEW r \in Request, CheckRequest(r) PROVE LiePositive'
  BY <1>6 DEF CheckRequest, Goto
<1>7. ASSUME NEW r \in Request, CheckLookup(r) PROVE LiePositive'
  BY <1>7 DEF CheckLookup, Goto
<1>8. ASSUME NEW r \in Request, ClearHint(r) PROVE LiePositive'
  BY <1>8 DEF ClearHint, Goto
<1>9. ASSUME NEW r \in Request, ResolveFake(r) PROVE LiePositive'
  BY <1>9 DEF ResolveFake, Goto
<1>10. ASSUME NEW r \in Request, ResolveFails(r) PROVE LiePositive'
  BY <1>10 DEF ResolveFails, Goto, AsksUpstream
<1>11. ASSUME NEW r \in Request, ResolveFiltered(r) PROVE LiePositive'
  BY <1>11 DEF ResolveFiltered, Goto, AsksUpstream
<1>12. ASSUME NEW r \in Request, ResolveReal(r) PROVE LiePositive'
  BY <1>12 DEF ResolveReal, Goto, AsksUpstream
<1>13. ASSUME NEW r \in Request, ResolveUnknown(r) PROVE LiePositive'
  BY <1>13 DEF ResolveUnknown, Goto, AsksUpstream
<1>14. ASSUME NEW r \in Request, AddDNSLie(r) PROVE LiePositive'
  BY <1>14 DEF AddDNSLie, Goto
<1>15. ASSUME NEW r \in Request, SetIndex(r) PROVE LiePositive'
  BY <1>15 DEF SetIndex, Goto
<1>16. ASSUME NEW r \in Request, Lock(r) PROVE LiePositive'
  BY <1>16 DEF Lock, Goto
<1>17. ASSUME NEW r \in Request, GetAnswers(r) PROVE LiePositive'
  BY <1>17 DEF GetAnswers, Goto
<1>18. ASSUME NEW r \in Request, Conclude(r) PROVE LiePositive'
  BY <1>18 DEF Conclude, Goto
<1>19. ASSUME NEW r \in Request, LogResponse(r) PROVE LiePositive'
  BY <1>19 DEF LogResponse, Goto
<1>20. ASSUME NEW r \in Request, BuildResponse(r) PROVE LiePositive'
  BY <1>20 DEF BuildResponse, Goto
<1>21. ASSUME NEW r \in Request, PackAnswers(r) PROVE LiePositive'
  BY <1>21 DEF PackAnswers, Goto
<1>22. ASSUME NEW r \in Request, AnswerLookup(r) PROVE LiePositive'
  BY <1>22 DEF AnswerLookup, Goto
<1>23. ASSUME NEW r \in Request, Expire(r) PROVE LiePositive'
  BY <1>23 DEF Expire, Goto
<1>24. ASSUME UNCHANGED vars PROVE LiePositive'
  BY <1>24 DEF vars
<1> QED
  BY ONLY [Next]_vars, <1>1, <1>2, <1>3, <1>4, <1>5, <1>6, <1>7, <1>8, <1>9,
     <1>10, <1>11, <1>12, <1>13, <1>14, <1>15, <1>16, <1>17, <1>18, <1>19, <1>20,
     <1>21, <1>22, <1>23, <1>24 DEF Next, Step

\* A name that has a fake address is given no other.
LEMMA StepOneLie == ASSUME IInv, CleanInv, [Next]_vars PROVE OneLie'
<1>t. /\ pc \in [Request -> Label]
      /\ qname \in [Request -> Name]
  BY DEF IInv, TypeOK
<1>h. OneLie /\ NotNamed
  BY DEF CleanInv, IInv
<1> USE <1>t, <1>h, SuffixAssumption, HintAssumption
    DEF OneLie, NotNamed, Named, sharedVars, localVars, Clean, key
<1>1. ASSUME NEW r \in Request, NEW n \in Name,
             NEW e \in {"NSRequest", "NSLookup"}, Begin(r, n, e)
      PROVE  OneLie'
  BY <1>1 DEF Begin, Goto
<1>2. ASSUME NEW r \in Request, LoadDNSCache(r) PROVE OneLie'
  BY <1>2 DEF LoadDNSCache, Goto
<1>3. ASSUME NEW r \in Request, StoreDNSCache(r) PROVE OneLie'
  BY <1>3 DEF StoreDNSCache, Goto
<1>4. ASSUME NEW r \in Request, LoadTop(r) PROVE OneLie'
  BY <1>4 DEF LoadTop, Goto
<1>5. ASSUME NEW r \in Request, CopyTop(r) PROVE OneLie'
  BY <1>5 DEF CopyTop, Goto
<1>6. ASSUME NEW r \in Request, CheckRequest(r) PROVE OneLie'
  BY <1>6 DEF CheckRequest, Goto
<1>7. ASSUME NEW r \in Request, CheckLookup(r) PROVE OneLie'
  BY <1>7 DEF CheckLookup, Goto
<1>8. ASSUME NEW r \in Request, ClearHint(r) PROVE OneLie'
  BY <1>8 DEF ClearHint, Goto
<1>9. ASSUME NEW r \in Request, ResolveFake(r) PROVE OneLie'
  BY <1>9 DEF ResolveFake, Goto
<1>10. ASSUME NEW r \in Request, ResolveFails(r) PROVE OneLie'
  BY <1>10 DEF ResolveFails, Goto, AsksUpstream
<1>11. ASSUME NEW r \in Request, ResolveFiltered(r) PROVE OneLie'
  BY <1>11 DEF ResolveFiltered, Goto, AsksUpstream
<1>12. ASSUME NEW r \in Request, ResolveReal(r) PROVE OneLie'
  BY <1>12 DEF ResolveReal, Goto, AsksUpstream
<1>13. ASSUME NEW r \in Request, ResolveUnknown(r) PROVE OneLie'
  BY <1>13 DEF ResolveUnknown, Goto, AsksUpstream
<1>14. ASSUME NEW r \in Request, AddDNSLie(r) PROVE OneLie'
  <2>1. /\ pc[r] = "lie" /\ Nose' = Append(Nose, qname[r]) /\ UNCHANGED <<known, profile, overlapped>>
    BY <1>14 DEF AddDNSLie
  <2>2. known /\ Clean(key(r)) => ~Named(key(r))
    BY <2>1
  <2>3. /\ Nose \in Seq(Line \cup {None}) /\ Len(Nose) \in Nat /\ DOMAIN Nose = 1..Len(Nose)
        /\ qname[r] \in Line \cup {None}
    BY DEF IInv, TypeOK, Line
  <2>4. /\ DOMAIN Nose' = 1..Len(Nose) + 1 /\ Nose'[Len(Nose) + 1] = qname[r]
        /\ \A i \in 1..Len(Nose) : Nose'[i] = Nose[i]
    BY <2>1, <2>3
  <2>5. \A i \in DOMAIN Nose' \ {1} : i \in DOMAIN Nose \ {1} \/ i = Len(Nose) + 1
    BY <2>3, <2>4
  <2>6. \A i \in DOMAIN Nose \ {1} : known /\ Clean(key(r)) => Key(profile, Nose[i]) # key(r)
    BY <2>2
  <2> HIDE DEF Named, NotNamed
  <2> QED BY <2>1, <2>3, <2>4, <2>5, <2>6
<1>15. ASSUME NEW r \in Request, SetIndex(r) PROVE OneLie'
  BY <1>15 DEF SetIndex, Goto
<1>16. ASSUME NEW r \in Request, Lock(r) PROVE OneLie'
  BY <1>16 DEF Lock, Goto
<1>17. ASSUME NEW r \in Request, GetAnswers(r) PROVE OneLie'
  BY <1>17 DEF GetAnswers, Goto
<1>18. ASSUME NEW r \in Request, Conclude(r) PROVE OneLie'
  BY <1>18 DEF Conclude, Goto
<1>19. ASSUME NEW r \in Request, LogResponse(r) PROVE OneLie'
  BY <1>19 DEF LogResponse, Goto
<1>20. ASSUME NEW r \in Request, BuildResponse(r) PROVE OneLie'
  BY <1>20 DEF BuildResponse, Goto
<1>21. ASSUME NEW r \in Request, PackAnswers(r) PROVE OneLie'
  BY <1>21 DEF PackAnswers, Goto
<1>22. ASSUME NEW r \in Request, AnswerLookup(r) PROVE OneLie'
  BY <1>22 DEF AnswerLookup, Goto
<1>23. ASSUME NEW r \in Request, Expire(r) PROVE OneLie'
  BY <1>23 DEF Expire, Goto
<1>24. ASSUME UNCHANGED vars PROVE OneLie'
  BY <1>24 DEF vars
<1> QED
  BY ONLY [Next]_vars, <1>1, <1>2, <1>3, <1>4, <1>5, <1>6, <1>7, <1>8, <1>9,
     <1>10, <1>11, <1>12, <1>13, <1>14, <1>15, <1>16, <1>17, <1>18, <1>19, <1>20,
     <1>21, <1>22, <1>23, <1>24 DEF Next, Step

\* Every action keeps what holds of clean names.
LEMMA CleanStep == IInv /\ CleanInv /\ [Next]_vars => CleanInv'
<1> SUFFICES ASSUME IInv, CleanInv, [Next]_vars PROVE CleanInv'
  OBVIOUS
<1>1. Single' /\ CurrentInv' /\ HintInv' /\ ListInv' /\ FoundInv'
  BY StepSingle, StepCurrent, StepHint, StepList, StepFound
<1>2. AskedInv' /\ GotInv' /\ UnansweredInv' /\ AnswerInv'
  BY StepAsked, StepGot, StepUnanswered, StepAnswer
<1>3. IndexKept' /\ NotNamed' /\ LiePositive' /\ OneLie'
  BY StepKept, StepNotNamed, StepPositive, StepOneLie
<1> QED BY <1>1, <1>2, <1>3 DEF CleanInv

\* It holds in every reachable state.
LEMMA SpecClean == Spec => []CleanInv
  BY InitClean, CleanStep, SpecInv, PTL DEF Spec

\* Names whose queries never overlap, on the record they share, are given one fake address
\* at most, by NSRequest and NSLookup together, whatever happens to the other records.
THEOREM NameHasOneLie == Spec => []OneLie
<1>1. CleanInv => OneLie
  BY DEF CleanInv
<1> QED BY <1>1, SpecClean, PTL

\* No query for such a record comes upon a pointer that another one has cleared (NSLookup
\* after the cache, and under the lock; the log of NSRequest).
THEOREM PanicNeedsOverlap == Spec => []PanicOnlyOverlapped
<1>1. CleanInv => PanicOnlyOverlapped
  BY DEF CleanInv, FoundInv, Clean, PanicOnlyOverlapped, key
<1> QED BY <1>1, SpecClean, PTL

\* Answers are what the server or the profile gave for the name or one that shares its
\* record, as long as no queries overlap; and what the server gave to a query for such a
\* record is what the query answers, unless it is the record of the rule.
THEOREM AnswersAreExact == Spec => []AnswerExact
<1>1. CleanInv => AnswerExact
  <2>1. SUFFICES ASSUME CleanInv PROVE AnswerExact
    OBVIOUS
  <2>2. overlapped = {} => \A k \in Line : addresses[k] = <<k>>
    BY <2>1 DEF CleanInv, ListInv
  <2>3. \A r \in Request : overlapped = {} => Fair(profile, qname[r], answer[r].addresses)
    BY <2>1 DEF CleanInv, AnswerInv
  <2>4. \A r \in Request : pc[r] = "done" /\ got[r] /\ answer[r].index = 0 /\ Alone(key(r)) =>
          answer[r].addresses = <<qname[r]>>
    <3>1. \A r \in Request : GotOwn(r)
      BY <2>1 DEF CleanInv, GotInv
    <3>2. ASSUME NEW r \in Request, GotOwn(r), pc[r] = "done", got[r], answer[r].index = 0, Alone(key(r))
          PROVE  answer[r].addresses = <<qname[r]>>
      BY <3>2 DEF GotOwn
    <3> QED BY <3>1, <3>2
  <2> QED BY <2>2, <2>3, <2>4 DEF AnswerExact, Fair, key
<1> QED BY <1>1, SpecClean, PTL

-----------------------------------------------------------------------------
(* DNSRecordMutex.                                                         *)

\* The query that has the mutex for writing, or is next to have it.
Holds(r) ==
  \/ pc[r] \in {"answers", "locked"}
  \/ pc[r] = "conclude" /\ entry[r] = "NSLookup"

\* Whoever is in a section under the mutex is its writer, and the other way round;
\* only NSLookup asks for it twice.
MutexInv ==
  /\ pc \in [Request -> Label]
  /\ entry \in [Request -> {"NSRequest", "NSLookup"}]
  /\ \A r \in Request : Holds(r) <=> writer = r
  /\ writer \in Request \cup {None}
  /\ \A r \in Request : pc[r] \in {"relock", "locked"} => entry[r] = "NSLookup"

LEMMA InitMutex == Init => MutexInv
  BY SuffixAssumption DEF Init, MutexInv, Holds, Label

\* A step of r that is not about the mutex.
LEMMA MutexAside ==
  ASSUME MutexInv, NEW r \in Request, NEW l \in Label, Goto(r, l),
         pc[r] \notin {"answers", "locked", "conclude"},
         l \notin {"answers", "locked", "relock"},
         l # "conclude",
         UNCHANGED <<entry, writer>>
  PROVE  MutexInv'
<1>1. pc' \in [Request -> Label] /\ \A q \in Request : pc'[q] = IF q = r THEN l ELSE pc[q]
  BY DEF MutexInv, Goto
<1> QED BY <1>1 DEF MutexInv, Holds

LEMMA StepMutex == ASSUME MutexInv, [Next]_vars PROVE MutexInv'
<1>1. CASE UNCHANGED vars
  BY <1>1 DEF vars, sharedVars, localVars, MutexInv, Holds
<1>2. ASSUME NEW r \in Request, Step(r) \/ Expire(r)
      PROVE  MutexInv'
  <2>1. \A l \in Label : Goto(r, l) =>
          /\ pc' \in [Request -> Label]
          /\ \A q \in Request : pc'[q] = IF q = r THEN l ELSE pc[q]
    BY DEF MutexInv, Goto
  <2>2. ASSUME NEW n \in Name, NEW e \in {"NSRequest", "NSLookup"}, Begin(r, n, e)
        PROVE  MutexInv'
    <3>1. pc' = [pc EXCEPT ![r] = "load"] /\ entry' = [entry EXCEPT ![r] = e] /\ pc[r] = "idle" /\ writer' = writer
      BY <2>2 DEF Begin, Goto, sharedVars
    <3>2. "load" \in Label
      BY DEF Label
    <3> QED BY <3>1, <3>2 DEF MutexInv, Holds
  <2>3. CASE LoadDNSCache(r) \/ StoreDNSCache(r) \/ LoadTop(r) \/ CopyTop(r)
    <3>1. \E l \in Label : Goto(r, l) /\ l \in {"check", "store", "top", "copy"}
      BY <2>3 DEF LoadDNSCache, StoreDNSCache, LoadTop, CopyTop, Label
    <3>2. pc[r] \in {"load", "store", "top", "copy"} /\ UNCHANGED <<entry, writer>>
      BY <2>3 DEF LoadDNSCache, StoreDNSCache, LoadTop, CopyTop, sharedVars, localVars
    <3> QED BY <3>1, <3>2, MutexAside
  <2>4. CASE CheckRequest(r) \/ CheckLookup(r) \/ ClearHint(r)
    <3>1. \E l \in Label : Goto(r, l) /\ l \in {"clear", "answer", "resolve", "cached"}
      BY <2>4 DEF CheckRequest, CheckLookup, ClearHint, Label
    <3>2. pc[r] \in {"check", "clear"} /\ UNCHANGED <<entry, writer>>
      BY <2>4 DEF CheckRequest, CheckLookup, ClearHint, sharedVars, localVars
    <3> QED BY <3>1, <3>2, MutexAside
  <2>5. CASE ResolveFake(r) \/ ResolveFails(r) \/ ResolveFiltered(r) \/ ResolveReal(r) \/ ResolveUnknown(r)
    <3>1. \E l \in Label : Goto(r, l) /\ l \in {"lie", "answer", "done", "lock"}
      BY <2>5 DEF ResolveFake, ResolveFails, ResolveFiltered, ResolveReal, ResolveUnknown, Label
    <3>2. pc[r] = "resolve" /\ UNCHANGED <<entry, writer>>
      BY <2>5 DEF ResolveFake, ResolveFails, ResolveFiltered, ResolveReal, ResolveUnknown,
                  AsksUpstream, sharedVars, localVars
    <3> QED BY <3>1, <3>2, MutexAside
  <2>6. CASE AddDNSLie(r) \/ SetIndex(r) \/ LogResponse(r)
    <3>1. \E l \in Label : Goto(r, l) /\ l \in {"setindex", "answer", "lock", "done", "panic"}
      BY <2>6 DEF AddDNSLie, SetIndex, LogResponse, Label
    <3>2. pc[r] \in {"lie", "setindex", "log"} /\ UNCHANGED <<entry, writer>>
      BY <2>6 DEF AddDNSLie, SetIndex, LogResponse, sharedVars, localVars
    <3> QED BY <3>1, <3>2, MutexAside
  <2>7. CASE Lock(r)
    <3>1. pc[r] \in {"lock", "relock"} /\ writer = None /\ writer' = r /\ entry' = entry
      BY <2>7 DEF Lock, localVars
    <3>2. pc' \in [Request -> Label]
          /\ \A q \in Request : pc'[q] = IF q # r THEN pc[q]
                                         ELSE IF pc[r] = "lock" THEN "answers" ELSE "conclude"
      BY <2>1, <2>7 DEF Lock, Label
    <3>3. \A q \in Request : ~Holds(q)
      BY <3>1, SuffixAssumption DEF MutexInv
    <3> QED BY <3>1, <3>2, <3>3 DEF MutexInv, Holds
  <2>8. CASE GetAnswers(r)
    <3>1. pc[r] = "answers" /\ writer' = None /\ entry' = entry
      BY <2>8 DEF GetAnswers, localVars
    <3>2. pc' \in [Request -> Label]
          /\ \A q \in Request : pc'[q] = IF q # r THEN pc[q]
                                         ELSE IF entry[r] = "NSLookup" THEN "relock" ELSE "conclude"
      BY <2>1, <2>8 DEF GetAnswers, Label
    <3>3. writer = r /\ None \notin Request
      BY <3>1, SuffixAssumption DEF MutexInv, Holds
    <3>4. \A q \in Request : q # r => ~Holds(q)
      BY <3>3 DEF MutexInv
    <3> QED BY <3>1, <3>2, <3>3, <3>4 DEF MutexInv, Holds
  <2>9. CASE Conclude(r)
    <3>1. pc[r] = "conclude" /\ UNCHANGED <<entry, writer>>
      BY <2>9 DEF Conclude, localVars
    <3>2. \E l \in {"answer", "log"} :
            /\ pc' \in [Request -> Label]
            /\ \A q \in Request : pc'[q] = IF q # r THEN pc[q]
                                           ELSE IF entry[r] = "NSLookup" THEN "locked" ELSE l
      BY <2>1, <2>9 DEF Conclude, Label
    <3> QED BY <3>1, <3>2 DEF MutexInv, Holds
  <2>10. CASE BuildResponse(r) \/ PackAnswers(r)
    <3>1. \E l \in Label : Goto(r, l) /\ l \in {"pack", "done"}
      BY <2>10 DEF BuildResponse, PackAnswers, Label
    <3>2. pc[r] \in {"answer", "pack"} /\ UNCHANGED <<entry, writer>>
      BY <2>10 DEF BuildResponse, PackAnswers, sharedVars
    <3> QED BY <3>1, <3>2, MutexAside
  <2>11. CASE AnswerLookup(r)
    <3>1. /\ pc[r] \in {"cached", "locked"} /\ entry' = entry
          /\ writer' = IF pc[r] = "locked" THEN None ELSE writer
      BY <2>11 DEF AnswerLookup
    <3>2. \E l \in {"panic", "done"} :
            /\ pc' \in [Request -> Label]
            /\ \A q \in Request : pc'[q] = IF q # r THEN pc[q] ELSE l
      BY <2>1, <2>11 DEF AnswerLookup, Label
    <3>3. None \notin Request
      BY SuffixAssumption
    <3> QED BY <3>1, <3>2, <3>3 DEF MutexInv, Holds
  <2>12. CASE Expire(r)
    BY <2>12 DEF Expire, localVars, MutexInv, Holds
  <2> QED BY <1>2, <2>2, <2>3, <2>4, <2>5, <2>6, <2>7, <2>8, <2>9, <2>10, <2>11, <2>12 DEF Step
<1> QED BY <1>1, <1>2 DEF Next

\* Queries that all wait for DNSRecordMutex do so because BuildResponse has it for
\* reading and wants it again in PackAnswers, while the writer waits.
THEOREM LockUpIsNested == Spec => []OnlyNested
<1>1. MutexInv => OnlyNested
  <2> SUFFICES ASSUME MutexInv, LockedUp
               PROVE  Reading /\ writer # None /\ pc[writer] \in {"answers", "conclude"}
    BY DEF OnlyNested
  <2>1. PICK r \in Request : Active(r) /\ Waits(r)
    BY DEF LockedUp
  <2>2. writer \in Request
    BY <2>1 DEF Waits, MutexInv, Holds
  <2>3. Holds(writer) /\ Active(writer)
    BY <2>2 DEF MutexInv, Holds, Active
  <2>4. Waits(writer)
    BY <2>2, <2>3 DEF LockedUp
  <2> QED BY <2>2, <2>3, <2>4, SuffixAssumption DEF Waits, Holds
<1>2. MutexInv /\ [Next]_vars => MutexInv'
  BY StepMutex
<1> QED BY <1>1, <1>2, InitMutex, PTL DEF Spec
=============================================================================
