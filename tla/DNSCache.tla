------------------------------ MODULE DNSCache ------------------------------
(***************************************************************************)
(* The DNS cache and the fake addresses of src/phantomtcp/dns.go.  Every   *)
(* query is a goroutine in NSRequest (a client asks) or NSLookup (a dial   *)
(* asks).  The maps are locked, each access by itself; the fields of a     *)
(* record in them are mostly read and written without a lock, and the      *)
(* pointers to its addresses are shared when a record is copied.           *)
(*                                                                         *)
(* A query for type A is modelled; AAAA takes the same path with IPv6Hint. *)
(* A lock held, or one access to a record, is one action; a field tested   *)
(* and then used with no call in between is one access.  An address is     *)
(* known by the name it was asked for, or by the line that configures it.  *)
(* All rules have one outbound.                                            *)
(***************************************************************************)
EXTENDS Naturals, Sequences, FiniteSets

CONSTANTS Request,     \* the queries
          Name,        \* names that are asked for
          Suffix,      \* the suffix rule that covers every one of them (".example.com")
          Profiles,    \* what LoadProfile and LoadHosts may leave behind
          None,        \* nil
          LieSpace     \* fake addresses there are: 2^16

ASSUME SuffixAssumption == Suffix \notin Name \cup Request /\ None \notin Name \cup Request \cup {Suffix}
\* The lists that queries store are new ones.
ASSUME HintAssumption == {Suffix, None} \cap (Request \X {"answers", "empty"}) = {}
ASSUME NameAssumption == Name # {}
ASSUME SpaceAssumption == LieSpace \in Nat \ {0}

\* A record, and an address list, is known by the query or the line that made it.
Line == Name \cup {Suffix}
Record == Request \cup Line
Hint == (Request \X {"answers", "empty"}) \cup Line
ASSUME LineAssumption == Name \cap Request = {} /\ Name \cap (Request \X {"answers", "empty"}) = {}

\* A name's own line (domain, domain=ip, a hosts entry) gives it a record of its own;
\* domain=[domain] gives it the record there is of another name, or of the suffix rule.
\* AddDNSLie is called for the lines in nose, once each, and those in lists have addresses.
ASSUME ProfileAssumption == \A p \in Profiles :
  /\ p.cache \in [Name -> Line \cup {None}]
  /\ \A n \in Name : p.cache[n] \in Name => p.cache[p.cache[n]] = p.cache[n]
  /\ p.nose \in Seq({k \in Line : k = Suffix \/ p.cache[k] = k})
  /\ \A i, j \in DOMAIN p.nose : p.nose[i] = p.nose[j] => i = j
  /\ p.lists \subseteq {k \in Line : k = Suffix \/ p.cache[k] = k}

VARIABLES
  fakeip,    \* the outbound of the rule has HINT_FAKEIP
  known,     \* its DNS server has a scheme that NSLookup knows
  profile,   \* what was loaded at start
  DNSCache,  \* the record of every name
  rec,       \* per record: Index, and IPv4Hint
  addresses, \* RecordAddresses.Addresses
  expired,   \* address lists whose TTL is over
  Nose,      \* the names behind the fake addresses, index 0 first
  writer,    \* DNSRecordMutex: the query that has it, or is next to have it
  pc,        \* where each query is
  entry,     \* NSRequest or NSLookup
  qname,     \* the name it asks for
  mine,      \* its records variable
  top,       \* its top variable
  lie,       \* the index AddDNSLie has returned to it
  answer,    \* what it has answered
  got,       \* history: the upstream server gave it an address
  overlapped \* history: names with two queries at once, or the record such names share

sharedVars == <<fakeip, known, profile, DNSCache, rec, addresses, expired, Nose, writer>>
localVars == <<entry, qname, mine, top, lie, answer, got>>
vars == <<sharedVars, pc, localVars, overlapped>>

Goto(r, label) == pc' = [pc EXCEPT ![r] = label]

NoAnswer == [index |-> 0, addresses |-> << >>]

\* What names with one record by the profile p have in common.
Key(p, n) == IF n = Suffix \/ p.cache[n] = None THEN n ELSE p.cache[n]

Init ==
  /\ fakeip \in BOOLEAN
  /\ known \in BOOLEAN
  /\ profile \in Profiles
  /\ DNSCache = profile.cache
  /\ Nose = <<None>> \o profile.nose
  /\ rec = [r \in Record |->
              [Index |-> IF \E i \in DOMAIN profile.nose : profile.nose[i] = r
                         THEN CHOOSE i \in DOMAIN profile.nose : profile.nose[i] = r ELSE 0,
               IPv4Hint |-> IF r \in profile.lists THEN r ELSE None]]
  /\ addresses = [h \in Hint |-> IF h \in Line THEN <<h>> ELSE << >>]
  /\ expired = {}
  /\ writer = None
  /\ pc = [r \in Request |-> "idle"]
  /\ entry = [r \in Request |-> "NSRequest"]
  /\ qname = [r \in Request |-> CHOOSE n \in Name : TRUE]
  /\ mine = [r \in Request |-> None]
  /\ top = [r \in Request |-> None]
  /\ lie = [r \in Request |-> 0]
  /\ answer = [r \in Request |-> NoAnswer]
  /\ got = [r \in Request |-> FALSE]
  /\ overlapped = {}

Active(r) == pc[r] \notin {"idle", "done", "panic"}

-----------------------------------------------------------------------------
(* The record of the name.                                                 *)

Begin(r, n, e) ==
  /\ pc[r] = "idle"
  /\ Goto(r, "load")
  /\ qname' = [qname EXCEPT ![r] = n]
  /\ entry' = [entry EXCEPT ![r] = e]
  /\ overlapped' =
       IF \E s \in Request : Active(s) /\ Key(profile, qname[s]) = Key(profile, n)
       THEN overlapped \cup {Key(profile, n)} ELSE overlapped
  /\ UNCHANGED <<sharedVars, mine, top, lie, answer, got>>

\* LoadDNSCache(name); a new record on a miss.
LoadDNSCache(r) ==
  /\ pc[r] = "load"
  /\ IF DNSCache[qname[r]] # None
     THEN mine' = [mine EXCEPT ![r] = DNSCache[qname[r]]] /\ Goto(r, "check")
     ELSE mine' = [mine EXCEPT ![r] = r] /\ Goto(r, "store")
  /\ UNCHANGED <<sharedVars, entry, qname, top, lie, answer, got, overlapped>>

\* The new record is in the map before it has its contents.
StoreDNSCache(r) ==
  /\ pc[r] = "store"
  /\ DNSCache' = [DNSCache EXCEPT ![qname[r]] = mine[r]]
  /\ Goto(r, "top")
  /\ UNCHANGED <<fakeip, known, profile, rec, addresses, expired, Nose, writer, localVars, overlapped>>

\* The record of the rule that covers the name.
LoadTop(r) ==
  /\ pc[r] = "top"
  /\ top' = [top EXCEPT ![r] = Suffix]
  /\ Goto(r, "copy")
  /\ UNCHANGED <<sharedVars, entry, qname, mine, lie, answer, got, overlapped>>

\* Mutant: the record of the rule is used itself, and not a copy of it.
CopyTopNot(r) ==
  /\ pc[r] = "copy"
  /\ mine' = [mine EXCEPT ![r] = top[r]]
  /\ Goto(r, "check")
  /\ UNCHANGED <<sharedVars, entry, qname, top, lie, answer, got, overlapped>>

\* *records = *top: the fields, with the pointer to the addresses.
CopyTop(r) ==
  /\ pc[r] = "copy"
  /\ rec' = [rec EXCEPT ![mine[r]] = rec[top[r]]]
  /\ Goto(r, "check")
  /\ UNCHANGED <<fakeip, known, profile, DNSCache, addresses, expired, Nose, writer, localVars, overlapped>>

-----------------------------------------------------------------------------
(* What the record holds already.                                          *)

hint(r) == rec[mine[r]].IPv4Hint
index(r) == rec[mine[r]].Index

\* NSRequest looks at the TTL; an index without addresses is an answer.
CheckRequest(r) ==
  /\ pc[r] = "check" /\ entry[r] = "NSRequest"
  /\ Goto(r, IF hint(r) # None
             THEN IF hint(r) \in expired THEN "clear" ELSE "answer"
             ELSE IF index(r) > 0 THEN "answer" ELSE "resolve")
  /\ UNCHANGED <<sharedVars, localVars, overlapped>>

\* NSLookup takes the addresses whatever their TTL, and does not take an index.
CheckLookup(r) ==
  /\ pc[r] = "check" /\ entry[r] = "NSLookup"
  /\ Goto(r, IF hint(r) # None THEN "cached" ELSE "resolve")
  /\ UNCHANGED <<sharedVars, localVars, overlapped>>

\* Mutant: expired addresses stay where they are.
ClearHintNot(r) ==
  /\ pc[r] = "clear"
  /\ Goto(r, "resolve")
  /\ UNCHANGED <<sharedVars, localVars, overlapped>>

\* records.IPv4Hint = nil, without a lock.
ClearHint(r) ==
  /\ pc[r] = "clear"
  /\ rec' = [rec EXCEPT ![mine[r]].IPv4Hint = None]
  /\ Goto(r, "resolve")
  /\ UNCHANGED <<fakeip, known, profile, DNSCache, addresses, expired, Nose, writer, localVars, overlapped>>

-----------------------------------------------------------------------------
(* A fake address, or the upstream server.                                 *)

\* Mutant: a name that has a fake address gets another one.
ResolveFakeAnew(r) ==
  /\ pc[r] = "resolve" /\ entry[r] = "NSRequest" /\ fakeip
  /\ Goto(r, "lie")
  /\ UNCHANGED <<sharedVars, localVars, overlapped>>

\* UseVaddr: NSRequest asks nobody.
ResolveFake(r) ==
  /\ pc[r] = "resolve" /\ entry[r] = "NSRequest" /\ fakeip
  /\ Goto(r, IF index(r) = 0 THEN "lie" ELSE "answer")
  /\ UNCHANGED <<sharedVars, localVars, overlapped>>

AsksUpstream(r) == pc[r] = "resolve" /\ (entry[r] = "NSLookup" \/ ~fakeip)

\* No server, no reply, or not one that can be parsed: SERVFAIL.
ResolveFails(r) ==
  /\ AsksUpstream(r)
  /\ Goto(r, "done")
  /\ UNCHANGED <<sharedVars, localVars, overlapped>>

\* The server is asked for the other type of address only.
ResolveFiltered(r) ==
  /\ AsksUpstream(r) /\ entry[r] = "NSRequest" /\ known
  /\ Goto(r, "answer")
  /\ UNCHANGED <<sharedVars, localVars, overlapped>>

\* A reply, with an address or without; NSLookup makes a fake address besides.
ResolveReal(r) ==
  /\ AsksUpstream(r) /\ known
  /\ \E some \in BOOLEAN : got' = [got EXCEPT ![r] = some]
  /\ Goto(r, IF entry[r] = "NSLookup" /\ fakeip /\ index(r) = 0 THEN "lie" ELSE "lock")
  /\ UNCHANGED <<sharedVars, entry, qname, mine, top, lie, answer, overlapped>>

\* NSLookup, and a server it cannot ask: a fake address, another one every time.
ResolveUnknown(r) ==
  /\ AsksUpstream(r) /\ entry[r] = "NSLookup" /\ ~known
  /\ Goto(r, "lie")
  /\ UNCHANGED <<sharedVars, localVars, overlapped>>

\* Mutant: the index is that of the entry before.
AddDNSLieBefore(r) ==
  /\ pc[r] = "lie"
  /\ Nose' = Append(Nose, qname[r])
  /\ lie' = [lie EXCEPT ![r] = Len(Nose) - 1]
  /\ Goto(r, "setindex")
  /\ UNCHANGED <<fakeip, known, profile, DNSCache, rec, addresses, expired, writer,
                 entry, qname, mine, top, answer, got, overlapped>>

\* The entry and its index, under NoseLock.
AddDNSLie(r) ==
  /\ pc[r] = "lie"
  /\ Nose' = Append(Nose, qname[r])
  /\ lie' = [lie EXCEPT ![r] = Len(Nose)]
  /\ Goto(r, "setindex")
  /\ UNCHANGED <<fakeip, known, profile, DNSCache, rec, addresses, expired, writer,
                 entry, qname, mine, top, answer, got, overlapped>>

\* records.Index = ..., without a lock.
SetIndex(r) ==
  /\ pc[r] = "setindex"
  /\ rec' = [rec EXCEPT ![mine[r]].Index = lie[r]]
  /\ Goto(r, IF entry[r] = "NSRequest" THEN "answer" ELSE IF known THEN "lock" ELSE "done")
  /\ UNCHANGED <<fakeip, known, profile, DNSCache, addresses, expired, Nose, writer, localVars, overlapped>>

-----------------------------------------------------------------------------
(* DNSRecordMutex, a sync.RWMutex: from the moment that a writer asks for  *)
(* it no reader gets it, and the writer waits for those that have it.      *)

Reading == \E s \in Request : pc[s] = "pack"

Lock(r) ==
  /\ pc[r] \in {"lock", "relock"} /\ writer = None
  /\ writer' = r
  /\ Goto(r, IF pc[r] = "lock" THEN "answers" ELSE "conclude")
  /\ UNCHANGED <<fakeip, known, profile, DNSCache, rec, addresses, expired, Nose, localVars, overlapped>>

\* Under the lock: the address is appended to the list there is.
GetAnswers(r) ==
  LET h == IF hint(r) = None THEN <<r, "answers">> ELSE hint(r)
  IN /\ pc[r] = "answers" /\ ~Reading
     /\ IF got[r]
        THEN /\ rec' = [rec EXCEPT ![mine[r]].IPv4Hint = h]
             /\ addresses' = [addresses EXCEPT ![h] = Append(@, qname[r])]
        ELSE UNCHANGED <<rec, addresses>>
     /\ writer' = None
     /\ Goto(r, IF entry[r] = "NSLookup" THEN "relock" ELSE "conclude")
     /\ UNCHANGED <<fakeip, known, profile, DNSCache, expired, Nose, localVars, overlapped>>

\* No address: a list that is empty, or the Fallback option's, is stored without a
\* TTL.  NSLookup has the lock again, NSRequest does not.
Conclude(r) ==
  /\ pc[r] = "conclude" /\ (entry[r] = "NSLookup" => ~Reading)
  /\ rec' = IF hint(r) = None THEN [rec EXCEPT ![mine[r]].IPv4Hint = <<r, "empty">>] ELSE rec
  /\ Goto(r, IF entry[r] = "NSLookup" THEN "locked"
             ELSE IF hint(r) = None THEN "answer" ELSE "log")
  /\ UNCHANGED <<fakeip, known, profile, DNSCache, addresses, expired, Nose, writer, localVars, overlapped>>

\* The record's addresses are read again, to be logged.
LogResponse(r) ==
  /\ pc[r] = "log"
  /\ Goto(r, IF hint(r) = None THEN "panic" ELSE "answer")
  /\ UNCHANGED <<sharedVars, localVars, overlapped>>

-----------------------------------------------------------------------------
(* The answer: the fake address, of 16 bits of the index, or the list.     *)

\* BuildResponse has the lock for reading; without a fake address it calls
\* PackAnswers, which takes it for reading once more.
BuildResponse(r) ==
  /\ pc[r] = "answer" /\ writer = None
  /\ IF index(r) > 0
     THEN /\ answer' = [answer EXCEPT ![r].index = index(r)]
          /\ Goto(r, "done")
     ELSE /\ Goto(r, "pack")
          /\ UNCHANGED answer
  /\ UNCHANGED <<sharedVars, entry, qname, mine, top, lie, got, overlapped>>

PackAnswers(r) ==
  /\ pc[r] = "pack" /\ writer = None
  /\ answer' = [answer EXCEPT ![r].addresses =
                  IF hint(r) = None THEN << >> ELSE addresses[hint(r)]]
  /\ Goto(r, "done")
  /\ UNCHANGED <<sharedVars, entry, qname, mine, top, lie, got, overlapped>>

\* Mutant: the lock is kept.
AnswerLookupKeepsLock(r) ==
  /\ pc[r] \in {"cached", "locked"}
  /\ IF hint(r) = None
     THEN Goto(r, "panic") /\ UNCHANGED answer
     ELSE Goto(r, "done") /\ answer' = [answer EXCEPT ![r].addresses = addresses[hint(r)]]
  /\ UNCHANGED <<sharedVars, entry, qname, mine, top, lie, got, overlapped>>

\* NSLookup reads the addresses after a call, with the lock or (cached) without.
AnswerLookup(r) ==
  /\ pc[r] \in {"cached", "locked"}
  /\ IF hint(r) = None
     THEN Goto(r, "panic") /\ UNCHANGED answer
     ELSE Goto(r, "done") /\ answer' = [answer EXCEPT ![r].addresses = addresses[hint(r)]]
  /\ writer' = IF pc[r] = "locked" THEN None ELSE writer
  /\ UNCHANGED <<fakeip, known, profile, DNSCache, rec, addresses, expired, Nose,
                 entry, qname, mine, top, lie, got, overlapped>>

\* Only lists that came with a TTL expire.
Expire(r) ==
  /\ addresses[<<r, "answers">>] # << >>
  /\ <<r, "answers">> \notin expired
  /\ expired' = expired \cup {<<r, "answers">>}
  /\ UNCHANGED <<fakeip, known, profile, DNSCache, rec, addresses, Nose, writer, pc, localVars, overlapped>>

Step(r) ==
  \/ \E n \in Name, e \in {"NSRequest", "NSLookup"} : Begin(r, n, e)
  \/ LoadDNSCache(r) \/ StoreDNSCache(r) \/ LoadTop(r) \/ CopyTop(r)
  \/ CheckRequest(r) \/ CheckLookup(r) \/ ClearHint(r)
  \/ ResolveFake(r) \/ ResolveFails(r) \/ ResolveFiltered(r) \/ ResolveReal(r) \/ ResolveUnknown(r)
  \/ AddDNSLie(r) \/ SetIndex(r) \/ Lock(r) \/ GetAnswers(r) \/ Conclude(r) \/ LogResponse(r)
  \/ BuildResponse(r) \/ PackAnswers(r) \/ AnswerLookup(r)

\* A panic that nobody recovers from ends the program.
Next ==
  /\ \A r \in Request : pc[r] # "panic"
  /\ \E r \in Request : Step(r) \/ Expire(r)

Spec == Init /\ [][Next]_vars
-----------------------------------------------------------------------------
Label == {"idle", "load", "store", "top", "copy", "check", "clear", "cached", "resolve",
          "lie", "setindex", "lock", "answers", "relock", "conclude", "locked", "log",
          "answer", "pack", "done", "panic"}

\* The type of every variable: an index is below the length of Nose, so that
\* GetDNSLie is never out of range on an address that was answered.
TypeOK ==
  /\ fakeip \in BOOLEAN /\ known \in BOOLEAN
  /\ writer \in Request \cup {None}
  /\ DNSCache \in [Name -> Record \cup {None}]
  /\ profile \in Profiles
  /\ Nose \in Seq(Line \cup {None}) /\ Nose # << >>
  /\ rec \in [Record -> [Index : 0..Len(Nose) - 1, IPv4Hint : Hint \cup {None}]]
  /\ addresses \in [Hint -> Seq(Line)]
  /\ expired \subseteq Hint
  /\ pc \in [Request -> Label]
  /\ entry \in [Request -> {"NSRequest", "NSLookup"}]
  /\ qname \in [Request -> Name]
  /\ mine \in [Request -> Record \cup {None}]
  /\ top \in [Request -> {Suffix, None}]
  /\ lie \in [Request -> 0..Len(Nose) - 1]
  /\ answer \in [Request -> [index : 0..Len(Nose) - 1, addresses : Seq(Line)]]
  /\ got \in [Request -> BOOLEAN]
  /\ overlapped \subseteq Line

\* GetDNSLie on the fake address of an index, which holds 16 bits of it.
Resolved(i) == Nose[(i % LieSpace) + 1]

\* Whose entries and addresses a name may be answered with: its own, those of the names
\* it shares its record with, and, when its record is a copy of the rule's, the rule's.
Kin(p, n) ==
  {k \in Line : Key(p, k) = Key(p, n) \/ (p.cache[n] = None /\ Key(p, k) = Suffix)}

\* A fake address that a client was given leads back to the name it asked for, to a name
\* that has the same record by a line of the profile, or to the rule that covers it,
\* whatever queries race: as long as there are no more indexes than fake addresses.
LieTrue ==
  Len(Nose) <= LieSpace =>
    \A r \in Request :
      answer[r].index > 0 => Resolved(answer[r].index) \in Kin(profile, qname[r])

\* Names that share a record, and a name that shares it with no other, have one fake
\* address at most, for ever, if queries for them never overlapped, unless the server is
\* one that NSLookup cannot ask.
OneLie ==
  known =>
    \A i, j \in DOMAIN Nose \ {1} :
      Key(profile, Nose[i]) = Key(profile, Nose[j]) /\ Key(profile, Nose[i]) \notin overlapped
        => i = j

\* Nobody else can have written what the record of a key leads to: the list of the rule's
\* record is shared by its copies.
Alone(k) == overlapped = {} \/ k \notin overlapped \cup {Suffix}

\* Unless queries for some record overlapped, an answer is one address, which the upstream
\* server or the configuration gives for the name or for one that shares its record, or
\* none at all, and a configured list, which the records copied from a rule share, stays
\* as configured; and a query that has just been given an address answers with it, or with
\* the fake address there is, unless queries for this very record, or (for the record of
\* the rule) for any, overlapped (NSRequest, NSLookup, GetAnswers).
AnswerExact ==
  /\ overlapped = {} => \A k \in Line : addresses[k] = <<k>>
  /\ \A r \in Request : pc[r] = "done" =>
       /\ overlapped = {} =>
            answer[r].addresses = << >> \/ \E k \in Kin(profile, qname[r]) : answer[r].addresses = <<k>>
       /\ got[r] /\ answer[r].index = 0 /\ Alone(Key(profile, qname[r])) =>
            answer[r].addresses = <<qname[r]>>

\* NSLookup and NSRequest test a pointer and use it later, while another query may
\* have set it to nil: that takes two queries for one record, of one name or of two.
PanicOnlyOverlapped ==
  \A r \in Request : pc[r] = "panic" => Key(profile, qname[r]) \in overlapped

\* What a query waits for: DNSRecordMutex, or those that have it for reading.
Waits(r) ==
  \/ pc[r] \in {"lock", "relock", "answer", "pack"} /\ writer # None
  \/ pc[r] = "answers" /\ Reading
  \/ pc[r] = "conclude" /\ entry[r] = "NSLookup" /\ Reading

LockedUp == (\E r \in Request : Active(r)) /\ \A r \in Request : Active(r) => Waits(r)

\* Queries that all wait for DNSRecordMutex do so in one way only: BuildResponse has it
\* for reading, another query asks for it for writing, and PackAnswers wants it again.
OnlyNested == LockedUp => Reading /\ writer # None /\ pc[writer] \in {"answers", "conclude"}

\* Queries block each other for ever in that way only: nothing but DNSRecordMutex
\* makes a query wait.
StuckOnlyNested ==
  /\ \A r \in Request : Active(r) /\ ~ENABLED Step(r) => Waits(r)
  /\ OnlyNested
=============================================================================
