------------------------------ MODULE UoTProofs ------------------------------
(***************************************************************************)
(* Proofs about UoT, for any flows, any sessions and any limit: the types, *)
(* the limit of the table although it is unlocked between the check and    *)
(* the insertion, and that the map is exact although main and the reader   *)
(* of a session may both give it up; and that a tunnel implements          *)
(* FlowTable.                                                              *)
(***************************************************************************)
EXTENDS UoT, FiniteSetTheorems, TLAPS

MainState ==
  {Idle, Ended} \cup [at : MainSteps, session : Session]
    \cup [at : {"start", "dial"}, key : Key]
    \cup [at : {"continue"}, key : Key, kind : Kind]

Mapped == {k \in Key : sessions[k] # None}
Held == {k \in Key : pending[k] # "none"}

\* The type invariant, without the bound.
Types ==
  /\ main \in MainState
  /\ mu \in Session \cup {None}
  /\ sessions \in [Key -> Session \cup {None}]
  /\ pending \in [Key -> {"none", "fresh", "held"}]
  /\ skey \in [Session -> Key]
  /\ conn \in [Session -> {"none", "open", "closed"}]
  /\ reader \in [Session -> {"off", "read", "reply", "write", "unmap", "close"}]

\* The table is within its limit, and from the check of startSession to the
\* insertion there is room for one more; main only continues what is pending.
TableInv ==
  /\ IsFiniteSet(Mapped) /\ IsFiniteSet(Held)
  /\ TableSize \in Nat /\ TableSize <= PendingLimit
  /\ main.at \in {"dial", "zero", "map"} => TableSize < PendingLimit
  /\ main.at = "continue" => pending[main.key] # "none"

\* The two halves of MapExact.
MappedOpen == \A k \in Key : sessions[k] # None =>
  conn[sessions[k]] = "open" /\ skey[sessions[k]] = k

OpenMapped == \A s \in Session :
  conn[s] = "open" /\ reader[s] \notin {"off", "close"} /\ ~(main.at = "close" /\ main.session = s)
    => sessions[skey[s]] = s

\* Until it is mapped, the session that main starts is open, without a reader, and
\* its flow is mapped to none; from then to the start of its reader it stays mapped.
SetupInv ==
  /\ main.at = "dial" => sessions[main.key] = None
  /\ main.at \in {"zero", "map"} => sessions[skey[main.session]] = None
  /\ main.at = "go" => sessions[skey[main.session]] = main.session
  /\ main.at \in {"zero", "map", "go"} => conn[main.session] = "open" /\ reader[main.session] = "off"

\* Whoever closes a connection has made sure that it is in the map no more.
ClosingInv ==
  /\ main.at = "close" => main.session \notin {sessions[k] : k \in Key}
  /\ \A s \in Session : reader[s] = "close" => s \notin {sessions[k] : k \in Key}

\* The inductive invariant.
IInv == Types /\ TableInv /\ MappedOpen /\ OpenMapped /\ SetupInv /\ ClosingInv

-----------------------------------------------------------------------------
(* The size of the table.                                                  *)

\* Without a new entry the table does not grow.
LEMMA NoMore ==
  ASSUME TableInv, Mapped' \subseteq Mapped, Held' \subseteq Held
  PROVE  /\ IsFiniteSet(Mapped)' /\ IsFiniteSet(Held)'
         /\ TableSize' \in Nat /\ TableSize' <= TableSize
<1>1. /\ IsFiniteSet(Mapped') /\ Cardinality(Mapped') <= Cardinality(Mapped)
      /\ IsFiniteSet(Held') /\ Cardinality(Held') <= Cardinality(Held)
  BY FS_Subset DEF TableInv
<1>2. /\ Cardinality(Mapped) \in Nat /\ Cardinality(Mapped') \in Nat
      /\ Cardinality(Held) \in Nat /\ Cardinality(Held') \in Nat
  BY <1>1, FS_CardinalityType DEF TableInv
<1>3. /\ TableSize = Cardinality(Mapped) + Cardinality(Held)
      /\ TableSize' = Cardinality(Mapped') + Cardinality(Held')
  BY DEF TableSize, Mapped, Held
<1>. QED
  BY <1>1, <1>2, <1>3

\* With one new entry it grows by one at most.
LEMMA OneMore ==
  ASSUME TableInv, NEW k \in Key, Mapped' \subseteq Mapped \cup {k}, Held' \subseteq Held \cup {k},
         Mapped' = Mapped \/ Held' = Held
  PROVE  /\ IsFiniteSet(Mapped)' /\ IsFiniteSet(Held)'
         /\ TableSize' \in Nat /\ TableSize' <= TableSize + 1
<1>1. ASSUME NEW S, NEW T, IsFiniteSet(S), T \subseteq S \cup {k}
      PROVE  /\ IsFiniteSet(T) /\ Cardinality(T) \in Nat /\ Cardinality(S) \in Nat
             /\ Cardinality(T) <= Cardinality(S) + 1
  <2>1. Cardinality(S) \in Nat
    BY <1>1, FS_CardinalityType
  <2>2. IsFiniteSet(S \cup {k}) /\ Cardinality(S \cup {k}) \in Nat
        /\ Cardinality(S \cup {k}) <= Cardinality(S) + 1
    <3>1. CASE k \in S
      <4>1. S \cup {k} = S
        BY <3>1
      <4>2. IsFiniteSet(S \cup {k}) /\ Cardinality(S \cup {k}) = Cardinality(S)
        BY <1>1, <4>1, Zenon
      <4>. QED
        BY <2>1, <4>2
    <3>2. CASE k \notin S
      BY <1>1, <2>1, <3>2, FS_AddElement
    <3>. QED
      BY <3>1, <3>2
  <2>3. IsFiniteSet(T) /\ Cardinality(T) <= Cardinality(S \cup {k})
    BY <1>1, <2>2, FS_Subset
  <2>. QED
    BY <2>1, <2>2, <2>3, FS_CardinalityType
<1>2. /\ IsFiniteSet(Mapped') /\ Cardinality(Mapped') \in Nat /\ Cardinality(Mapped) \in Nat
      /\ Cardinality(Mapped') <= Cardinality(Mapped) + 1
  BY <1>1 DEF TableInv
<1>3. /\ IsFiniteSet(Held') /\ Cardinality(Held') \in Nat /\ Cardinality(Held) \in Nat
      /\ Cardinality(Held') <= Cardinality(Held) + 1
  BY <1>1 DEF TableInv
<1>4. /\ TableSize = Cardinality(Mapped) + Cardinality(Held)
      /\ TableSize' = Cardinality(Mapped') + Cardinality(Held')
  BY DEF TableSize, Mapped, Held
<1>. QED
  BY <1>2, <1>3, <1>4

-----------------------------------------------------------------------------
(* Initial states, and what main refers to.                                *)

LEMMA InitInv == Init => IInv
<1> SUFFICES ASSUME Init PROVE IInv
  OBVIOUS
<1>1. Types
  BY KeyAssumption DEF Init, Types, MainState
<1>2. TableInv
  <2>1. Mapped = {} /\ Held = {}
    BY DEF Init, Mapped, Held
  <2>2. TableSize = Cardinality(Mapped) + Cardinality(Held)
    BY DEF TableSize, Mapped, Held
  <2>. QED
    BY <2>1, <2>2, FS_EmptySet, LimitAssumption DEF TableInv, Init, Idle
<1>3. MappedOpen /\ OpenMapped /\ SetupInv /\ ClosingInv
  BY DEF Init, Idle, MappedOpen, OpenMapped, SetupInv, ClosingInv
<1>. QED
  BY <1>1, <1>2, <1>3 DEF IInv

LEMMA MainFacts ==
  ASSUME Types
  PROVE  /\ main.at \in MainSteps => main.session \in Session
         /\ main.at \in {"start", "dial", "continue"} => main.key \in Key
         /\ main.at = "continue" => main.kind \in Kind
  BY DEF Types, MainState, Idle, Ended, MainSteps

-----------------------------------------------------------------------------
(* The steps of main that change neither the map nor a session.            *)

LEMMA FrameStep ==
  ASSUME IInv, UNCHANGED <<sessions, sessionVars>>, Types', main.at # "close",
         main'.at \in {"read", "write", "start", "continue", "ended"},
         IsFiniteSet(Held)', TableSize' \in Nat, TableSize' <= PendingLimit,
         main'.at = "continue" => pending'[main'.key] # "none"
  PROVE  IInv'
<1>1. Mapped' = Mapped
  BY DEF Mapped
<1>2. TableInv'
  BY <1>1 DEF IInv, TableInv
<1>3. MappedOpen' /\ SetupInv' /\ ClosingInv'
  BY DEF IInv, MappedOpen, SetupInv, ClosingInv, sessionVars
<1>. QED
  BY <1>2, <1>3 DEF IInv, OpenMapped, sessionVars

LEMMA ReadMappedStep ==
  ASSUME IInv, NEW k \in Key, ReadMapped(k)
  PROVE  IInv'
<1> USE DEF ReadMapped, On
<1>1. Types'
  BY DEF IInv, Types, MainState, MainSteps, sessionVars
<1>2. Mapped' = Mapped /\ Held' = Held /\ UNCHANGED TableSize /\ main'.at = "write" /\ main.at = "read"
  BY DEF Mapped, Held, TableSize, Idle
<1>. QED
  BY <1>1, <1>2, FrameStep DEF IInv, TableInv

LEMMA LeaveStep ==
  ASSUME IInv, WriteUpstream \/ ReadFrameFails \/ DialFails
  PROVE  IInv'
<1> USE DEF WriteUpstream, ReadFrameFails, DialFails, Idle, Ended
<1>1. Types'
  BY DEF IInv, Types, MainState, sessionVars
<1>2. UNCHANGED TableSize /\ Held' = Held /\ main'.at \in {"read", "ended"} /\ main.at # "close"
  BY DEF Held, TableSize
<1>. QED
  BY <1>1, <1>2, FrameStep DEF IInv, TableInv

LEMMA ReadNewStep ==
  ASSUME IInv, NEW k \in Key, NEW kind \in Kind, ReadNew(k, kind)
  PROVE  IInv'
<1> USE DEF ReadNew, StartOn, ContinueOn, Idle
<1>1. Types'
  BY DEF IInv, Types, MainState, sessionVars
<1>2. CASE /\ pending' = [pending EXCEPT ![k] = "fresh"] /\ TableSize < PendingLimit
           /\ main'.at = "continue" /\ main'.key = k
  <2>1. Mapped' = Mapped /\ Held' \subseteq Held \cup {k} /\ pending'[k] # "none"
    BY <1>2 DEF Mapped, Held, IInv, Types
  <2>2. IsFiniteSet(Held)' /\ TableSize' \in Nat /\ TableSize' <= PendingLimit
    BY <1>2, <2>1, OneMore, LimitAssumption DEF IInv, TableInv
  <2>. QED
    BY <1>1, <1>2, <2>1, <2>2, FrameStep
<1>3. CASE UNCHANGED pending /\ main'.at = "start"
  <2>1. UNCHANGED TableSize /\ Held' = Held
    BY <1>3 DEF Held, TableSize
  <2>. QED
    BY <1>1, <1>3, <2>1, FrameStep DEF IInv, TableInv
<1>. QED
  BY <1>2, <1>3

LEMMA ReadPendingStep ==
  ASSUME IInv, NEW k \in Key, NEW kind \in Kind, ReadPending(k, kind)
  PROVE  IInv'
<1> USE DEF ReadPending, ContinueOn, Idle
<1>1. Types'
  BY DEF IInv, Types, MainState, sessionVars
<1>2. /\ UNCHANGED TableSize /\ Held' = Held
      /\ main'.at = "continue" /\ pending'[main'.key] # "none"
  BY DEF Held, TableSize
<1>. QED
  BY <1>1, <1>2, FrameStep DEF IInv, TableInv

LEMMA ContinueStep ==
  ASSUME IInv, ContinueGiveUp \/ ContinueWait \/ ContinueStart
  PROVE  IInv'
<1> USE DEF ContinueGiveUp, ContinueWait, ContinueStart, StartOn, Forget, Idle
<1>1. main.key \in Key /\ pending[main.key] # "none" /\ main.at = "continue"
  BY MainFacts DEF IInv, TableInv
<1>2. Types'
  BY <1>1 DEF IInv, Types, MainState, sessionVars
<1>3. Mapped' = Mapped /\ Held' \subseteq Held /\ main'.at \in {"read", "start"}
  BY <1>1 DEF Mapped, Held, IInv, Types
<1>4. IsFiniteSet(Held)' /\ TableSize' \in Nat /\ TableSize' <= PendingLimit
  BY <1>3, NoMore, LimitAssumption DEF IInv, TableInv
<1>. QED
  BY <1>1, <1>2, <1>3, <1>4, FrameStep

-----------------------------------------------------------------------------
(* startSession.                                                           *)

LEMMA StartCheckStep ==
  ASSUME IInv, StartCheck
  PROVE  IInv'
<1> USE DEF StartCheck, Idle
<1>1. main.key \in Key /\ UNCHANGED <<sessions, pending, conn, reader, skey>>
  BY MainFacts DEF sessionVars, IInv
<1>2. \/ main' = Idle
      \/ /\ main' = [at |-> "dial", key |-> main.key]
         /\ sessions[main.key] = None /\ TableSize < PendingLimit
  BY LimitAssumption DEF IInv, TableInv, Types, MainState, MainSteps, Ended
<1>3. Types'
  BY <1>1, <1>2 DEF IInv, Types, MainState
<1>4. UNCHANGED TableSize /\ Mapped' = Mapped /\ Held' = Held
  BY <1>1 DEF Mapped, Held, TableSize
<1>5. TableInv'
  BY <1>2, <1>4 DEF IInv, TableInv
<1>6. MappedOpen' /\ OpenMapped' /\ SetupInv' /\ ClosingInv'
  BY <1>1, <1>2 DEF IInv, MappedOpen, OpenMapped, SetupInv, ClosingInv
<1>. QED
  BY <1>3, <1>5, <1>6 DEF IInv

LEMMA DialStep ==
  ASSUME IInv, Dial
  PROVE  IInv'
<1> USE DEF Dial, On, Unreferenced
<1>1. PICK s \in Session :
        /\ conn[s] # "open" /\ reader[s] = "off"
        /\ skey' = [skey EXCEPT ![s] = main.key]
        /\ conn' = [conn EXCEPT ![s] = "open"]
        /\ main' = [at |-> IF main.key \in ZeroKey THEN "zero" ELSE "map", session |-> s]
  OBVIOUS
<1>2. main.key \in Key /\ sessions[main.key] = None /\ TableSize < PendingLimit
  BY MainFacts DEF IInv, SetupInv, TableInv
<1>3. Types'
  BY <1>1, <1>2 DEF IInv, Types, MainState, MainSteps
<1>4. UNCHANGED TableSize /\ Mapped' = Mapped /\ Held' = Held
  BY DEF Mapped, Held, TableSize
<1>5. TableInv'
  BY <1>1, <1>2, <1>4 DEF IInv, TableInv
<1>6. \A k \in Key : sessions[k] # s
  BY <1>1, NoneAssumption DEF IInv, MappedOpen
<1>7. MappedOpen' /\ OpenMapped'
  BY <1>1, <1>2, <1>6 DEF IInv, MappedOpen, OpenMapped, Types
<1>8. SetupInv' /\ ClosingInv'
  BY <1>1, <1>2 DEF IInv, SetupInv, ClosingInv, Types
<1>. QED
  BY <1>3, <1>5, <1>7, <1>8 DEF IInv

LEMMA WriteZeroStep ==
  ASSUME IInv, WriteZero
  PROVE  IInv'
<1> USE DEF WriteZero, On, Ended
<1>1. main.session \in Session /\ conn[main.session] = "open" /\ reader[main.session] = "off"
  BY MainFacts DEF IInv, SetupInv, MainSteps
<1>2. Types'
  BY <1>1 DEF IInv, Types, MainState, MainSteps
<1>3. UNCHANGED TableSize /\ Mapped' = Mapped /\ Held' = Held
  BY DEF Mapped, Held, TableSize
<1>4. TableInv'
  BY <1>3 DEF IInv, TableInv
<1>5. \A k \in Key : sessions[k] # main.session
  BY <1>1, NoneAssumption DEF IInv, MappedOpen, SetupInv
<1>6. MappedOpen' /\ OpenMapped'
  BY <1>1, <1>5 DEF IInv, MappedOpen, OpenMapped, Types
<1>7. SetupInv' /\ ClosingInv'
  BY <1>1 DEF IInv, SetupInv, ClosingInv, Types
<1>. QED
  BY <1>2, <1>4, <1>6, <1>7 DEF IInv

LEMMA MapStep ==
  ASSUME IInv, MapSession
  PROVE  IInv'
<1> DEFINE s == main.session
<1> USE DEF MapSession, On
<1>1. /\ s \in Session /\ conn[s] = "open" /\ reader[s] = "off" /\ skey[s] \in Key
      /\ sessions[skey[s]] = None
  BY MainFacts DEF IInv, SetupInv, MainSteps, Types
<1>2. UNCHANGED <<pending, conn, reader, skey>> /\ main' = [at |-> "go", session |-> s]
  BY DEF sessionVars
<1>3. Types'
  BY <1>1, <1>2 DEF IInv, Types, MainState, MainSteps
<1>4. Mapped' \subseteq Mapped \cup {skey[s]} /\ Held' = Held
  BY <1>1, <1>2 DEF Mapped, Held, IInv, Types
<1>5. TableInv'
  <2>1. TableSize < PendingLimit /\ TableSize \in Nat
    BY DEF IInv, TableInv
  <2>2. /\ IsFiniteSet(Mapped)' /\ IsFiniteSet(Held)'
        /\ TableSize' \in Nat /\ TableSize' <= TableSize + 1
    BY <1>1, <1>4, OneMore DEF IInv
  <2>. QED
    BY <1>2, <2>1, <2>2, LimitAssumption DEF TableInv
<1>6. \A k \in Key : sessions'[k] = IF k = skey[s] THEN s ELSE sessions[k]
  BY <1>1 DEF IInv, Types
<1>7. MappedOpen'
  BY <1>1, <1>2, <1>6 DEF IInv, MappedOpen
<1>8. OpenMapped'
  BY <1>1, <1>2, <1>6, NoneAssumption DEF IInv, OpenMapped, Types
<1>9. SetupInv' /\ ClosingInv'
  BY <1>1, <1>2, <1>6 DEF IInv, SetupInv, ClosingInv
<1>. QED
  BY <1>3, <1>5, <1>7, <1>8, <1>9 DEF IInv

LEMMA RunStep ==
  ASSUME IInv, GoRunSession \/ FlushInitial
  PROVE  IInv'
<1> USE DEF GoRunSession, FlushInitial, On, Idle
<1>1. main.session \in Session
  BY MainFacts DEF IInv, MainSteps
<1>2. Types'
  BY <1>1 DEF IInv, Types, MainState, MainSteps, sessionVars
<1>3. UNCHANGED TableSize /\ Mapped' = Mapped /\ Held' = Held
  BY DEF Mapped, Held, TableSize, sessionVars
<1>4. TableInv'
  BY <1>3 DEF IInv, TableInv
<1>5. MappedOpen'
  BY DEF IInv, MappedOpen, sessionVars
<1>6. OpenMapped'
  BY <1>1 DEF IInv, OpenMapped, SetupInv, Types, sessionVars
<1>7. SetupInv' /\ ClosingInv'
  BY <1>1 DEF IInv, SetupInv, ClosingInv, Types, sessionVars
<1>. QED
  BY <1>2, <1>4, <1>5, <1>6, <1>7 DEF IInv

-----------------------------------------------------------------------------
(* The deletes and the closes.                                             *)

\* The delete of a session's own entry leaves the session unmapped.
LEMMA DeleteOwnFacts ==
  ASSUME IInv, NEW s \in Session, DeleteOwn(s), UNCHANGED <<pending, skey, conn>>
  PROVE  /\ sessions' \in [Key -> Session \cup {None}]
         /\ s \notin {sessions'[k] : k \in Key}
         /\ \A k \in Key : sessions'[k] = IF sessions[k] = s THEN None ELSE sessions[k]
         /\ IsFiniteSet(Mapped)' /\ IsFiniteSet(Held)'
         /\ TableSize' \in Nat /\ TableSize' <= TableSize
<1>1. sessions' \in [Key -> Session \cup {None}]
  BY DEF IInv, Types, DeleteOwn
<1>2. \A k \in Key : sessions'[k] = IF sessions[k] = s THEN None ELSE sessions[k]
  BY NoneAssumption DEF IInv, MappedOpen, DeleteOwn
<1>3. s \notin {sessions'[k] : k \in Key}
  BY <1>2, NoneAssumption
<1>4. Mapped' \subseteq Mapped /\ Held' \subseteq Held
  BY <1>2 DEF Mapped, Held
<1>5. /\ IsFiniteSet(Mapped)' /\ IsFiniteSet(Held)'
      /\ TableSize' \in Nat /\ TableSize' <= TableSize
  BY <1>4, NoMore DEF IInv
<1>. QED
  BY <1>1, <1>2, <1>3, <1>5

LEMMA FlushFailedUnmapStep ==
  ASSUME IInv, FlushFailedUnmap
  PROVE  IInv'
<1> DEFINE s == main.session
<1> USE DEF FlushFailedUnmap, On
<1>1. /\ s \in Session /\ UNCHANGED <<mu, pending, skey, conn, reader>>
      /\ main' = [at |-> "close", session |-> s]
  BY MainFacts DEF IInv, MainSteps, sessionVars
<1>2. /\ sessions' \in [Key -> Session \cup {None}]
      /\ s \notin {sessions'[k] : k \in Key}
      /\ \A k \in Key : sessions'[k] = IF sessions[k] = s THEN None ELSE sessions[k]
      /\ IsFiniteSet(Mapped)' /\ IsFiniteSet(Held)'
      /\ TableSize' \in Nat /\ TableSize' <= TableSize
  BY <1>1, DeleteOwnFacts
<1>3. Types'
  BY <1>1, <1>2 DEF IInv, Types, MainState, MainSteps
<1>4. TableInv'
  BY <1>1, <1>2, LimitAssumption DEF IInv, TableInv
<1>5. MappedOpen'
  BY <1>1, <1>2 DEF IInv, MappedOpen
<1>6. OpenMapped'
  BY <1>1, <1>2 DEF IInv, OpenMapped, Types
<1>7. SetupInv' /\ ClosingInv'
  BY <1>1, <1>2, NoneAssumption DEF IInv, SetupInv, ClosingInv
<1>. QED
  BY <1>3, <1>4, <1>5, <1>6, <1>7 DEF IInv

LEMMA FlushFailedCloseStep ==
  ASSUME IInv, FlushFailedClose
  PROVE  IInv'
<1> DEFINE s == main.session
<1> USE DEF FlushFailedClose, Ended
<1>1. s \in Session /\ \A k \in Key : sessions[k] # s
  BY MainFacts DEF IInv, MainSteps, ClosingInv
<1>2. Types'
  BY <1>1 DEF IInv, Types, MainState
<1>3. UNCHANGED TableSize /\ Mapped' = Mapped /\ Held' = Held
  BY DEF Mapped, Held, TableSize
<1>4. TableInv'
  BY <1>3 DEF IInv, TableInv
<1>5. MappedOpen' /\ OpenMapped'
  BY <1>1 DEF IInv, MappedOpen, OpenMapped, Types
<1>6. SetupInv' /\ ClosingInv'
  BY DEF IInv, SetupInv, ClosingInv
<1>. QED
  BY <1>2, <1>4, <1>5, <1>6 DEF IInv

-----------------------------------------------------------------------------
(* runSession.                                                             *)

\* The steps of a reader that leave the map alone: it stays in service, or goes to
\* unmap what is its own.
LEMMA RelayStep ==
  ASSUME IInv, NEW s \in Session, ReadReply(s) \/ ReadFails(s) \/ BeginFrame(s) \/ EndFrame(s)
  PROVE  IInv'
<1> USE DEF ReadReply, ReadFails, BeginFrame, EndFrame, GotoReader
<1>1. PICK label \in {"read", "reply", "write", "unmap"} : reader' = [reader EXCEPT ![s] = label]
  OBVIOUS
<1>2. reader[s] \in {"read", "reply", "write"} /\ mu' \in Session \cup {None}
  BY DEF IInv, Types
<1>3. UNCHANGED <<main, sessions, pending, skey, conn>>
  OBVIOUS
<1>4. Types'
  BY <1>1, <1>2, <1>3 DEF IInv, Types
<1>5. TableInv'
  BY <1>3 DEF IInv, TableInv, TableSize, Mapped, Held
<1>6. MappedOpen' /\ OpenMapped'
  BY <1>1, <1>2, <1>3 DEF IInv, MappedOpen, OpenMapped, Types
<1>7. SetupInv' /\ ClosingInv'
  BY <1>1, <1>2, <1>3 DEF IInv, SetupInv, ClosingInv, Types
<1>. QED
  BY <1>4, <1>5, <1>6, <1>7 DEF IInv

LEMMA ReaderUnmapStep ==
  ASSUME IInv, NEW s \in Session, ReaderUnmap(s)
  PROVE  IInv'
<1> USE DEF ReaderUnmap, GotoReader
<1>1. reader' = [reader EXCEPT ![s] = "close"] /\ UNCHANGED <<main, mu, pending, skey, conn>>
  OBVIOUS
<1>2. /\ sessions' \in [Key -> Session \cup {None}]
      /\ s \notin {sessions'[k] : k \in Key}
      /\ \A k \in Key : sessions'[k] = IF sessions[k] = s THEN None ELSE sessions[k]
      /\ IsFiniteSet(Mapped)' /\ IsFiniteSet(Held)'
      /\ TableSize' \in Nat /\ TableSize' <= TableSize
  BY <1>1, DeleteOwnFacts
<1>3. Types'
  BY <1>1, <1>2 DEF IInv, Types
<1>4. TableInv'
  BY <1>1, <1>2, LimitAssumption DEF IInv, TableInv
<1>5. MappedOpen'
  BY <1>1, <1>2 DEF IInv, MappedOpen
<1>6. OpenMapped'
  BY <1>1, <1>2 DEF IInv, OpenMapped, Types
<1>7. SetupInv'
  <2>1. main.at \in {"zero", "map", "go"} => main.session # s /\ main.session \in Session
    BY MainFacts DEF IInv, SetupInv, MainSteps
  <2>2. main.at = "dial" => main.key \in Key
    BY MainFacts DEF IInv
  <2>. QED
    BY <1>1, <1>2, <2>1, <2>2 DEF IInv, SetupInv, Types
<1>8. ClosingInv'
  BY <1>1, <1>2, MainFacts, NoneAssumption DEF IInv, ClosingInv, Types, MainSteps
<1>. QED
  BY <1>3, <1>4, <1>5, <1>6, <1>7, <1>8 DEF IInv

LEMMA ReaderCloseStep ==
  ASSUME IInv, NEW s \in Session, ReaderClose(s)
  PROVE  IInv'
<1> USE DEF ReaderClose, GotoReader
<1>1. \A k \in Key : sessions[k] # s
  BY DEF IInv, ClosingInv
<1>2. main.at \in {"zero", "map", "go"} => main.session # s /\ main.session \in Session
  BY MainFacts DEF IInv, SetupInv, MainSteps
<1>3. Types'
  BY DEF IInv, Types
<1>4. TableInv'
  BY DEF IInv, TableInv, TableSize, Mapped, Held
<1>5. MappedOpen' /\ OpenMapped'
  BY <1>1 DEF IInv, MappedOpen, OpenMapped, Types
<1>6. SetupInv' /\ ClosingInv'
  BY <1>2 DEF IInv, SetupInv, ClosingInv, Types
<1>. QED
  BY <1>3, <1>4, <1>5, <1>6 DEF IInv

-----------------------------------------------------------------------------
(* The theorem.                                                            *)

LEMMA NextInv == IInv /\ [Next]_vars => IInv'
<1> SUFFICES ASSUME IInv, [Next]_vars PROVE IInv'
  OBVIOUS
<1>1. CASE Client
  BY <1>1, ReadMappedStep, ReadNewStep, ReadPendingStep, LeaveStep DEF Client
<1>2. CASE Main
  BY <1>2, LeaveStep, ContinueStep, StartCheckStep, DialStep, WriteZeroStep, MapStep, RunStep,
     FlushFailedUnmapStep, FlushFailedCloseStep DEF Main
<1>3. CASE \E s \in Session : ReadReply(s) \/ Reader(s)
  BY <1>3, RelayStep, ReaderUnmapStep, ReaderCloseStep DEF Reader
<1>4. CASE UNCHANGED vars
  <2>1. UNCHANGED <<main, mu, sessions, pending, skey, conn, reader>>
    BY <1>4 DEF vars, sessionVars
  <2>. QED
    BY <2>1 DEF IInv, Types, TableInv, TableSize, Mapped, Held, MappedOpen, OpenMapped, SetupInv,
                ClosingInv
<1>. QED
  BY <1>1, <1>2, <1>3, <1>4 DEF Next, Drained

LEMMA Invariance == Spec => []IInv
  BY InitInv, NextInv, PTL DEF Spec

\* The map of a UDP over TCP tunnel is exact, for any number of flows and sessions:
\* its sessions are the open ones past their set-up, each its own flow's, and the
\* table with the held Initials never exceeds its limit, although the lock is
\* released between the check of startSession and the insertion.
THEOREM MapIsExact == Spec => []MapExact
<1>1. IInv => TypeOK
  BY DEF IInv, Types, TableInv, TypeOK, MainState
<1>2. IInv => MapExact
  BY <1>1 DEF IInv, MappedOpen, OpenMapped, MapExact
<1>. QED
  BY <1>2, Invariance, PTL

-----------------------------------------------------------------------------
(* The table of sessions.                                                  *)

LEMMA TableDial ==
  ASSUME Types, NEW s \in Session, NEW k \in Key, conn[s] # "open",
         skey' = [skey EXCEPT ![s] = k], conn' = [conn EXCEPT ![s] = "open"], UNCHANGED sessions
  PROVE  [Table!Next]_(Table!vars)
<1>1. conn \in [Session -> {"none", "open", "closed"}] /\ skey \in [Session -> Key]
  BY DEF Types
<1>2. \A g \in Key : <<s, g>> \notin Live
  BY DEF Live
<1>3. Live' = Live \cup {<<s, k>>}
  BY <1>1 DEF Live
<1>4. Table!Dial(s, k)
  BY <1>2, <1>3 DEF Table!Dial
<1> QED BY <1>4 DEF Table!Next

LEMMA TableInsert ==
  ASSUME Types, NEW s \in Session, conn[s] = "open", sessions[skey[s]] = None,
         sessions' = [sessions EXCEPT ![skey[s]] = s], UNCHANGED <<skey, conn>>
  PROVE  [Table!Next]_(Table!vars)
<1>1. skey[s] \in Key /\ UNCHANGED Live
  BY DEF Types, Live
<1>2. <<s, skey[s]>> \in Live
  BY <1>1 DEF Live
<1>3. Table!Insert(s, skey[s])
  BY <1>1, <1>2 DEF Table!Insert
<1> QED BY <1>1, <1>3 DEF Table!Next

\* A delete that finds nothing does nothing.
LEMMA TableRemove ==
  ASSUME Types, NEW k \in Key, sessions' = [sessions EXCEPT ![k] = None], UNCHANGED <<skey, conn>>
  PROVE  [Table!Next]_(Table!vars)
<1>1. UNCHANGED Live
  BY DEF Live
<1>2. CASE sessions[k] = None
  BY <1>1, <1>2 DEF Types, Table!vars
<1>3. CASE sessions[k] # None
  <2>1. Table!Remove(k)
    BY <1>1, <1>3 DEF Table!Remove
  <2> QED BY <2>1 DEF Table!Next
<1> QED BY <1>2, <1>3

\* Nor does closing a connection once more.
LEMMA TableClose ==
  ASSUME Types, NEW s \in Session, sessions[skey[s]] # s,
         conn' = [conn EXCEPT ![s] = "closed"], UNCHANGED <<skey, sessions>>
  PROVE  [Table!Next]_(Table!vars)
<1>1. conn \in [Session -> {"none", "open", "closed"}] /\ skey[s] \in Key
  BY DEF Types
<1>2. CASE conn[s] # "open"
  <2>1. UNCHANGED Live
    BY <1>1, <1>2 DEF Live
  <2> QED BY <2>1 DEF Table!vars
<1>3. CASE conn[s] = "open"
  <2>1. <<s, skey[s]>> \in Live
    BY <1>1, <1>3 DEF Live
  <2>2. Live' = Live \ {<<s, skey[s]>>}
    BY <1>1 DEF Live
  <2>3. Table!Close(s, skey[s])
    BY <2>1, <2>2 DEF Table!Close
  <2> QED BY <1>1, <2>3 DEF Table!Next
<1> QED BY <1>2, <1>3

LEMMA TableKept ==
  ASSUME UNCHANGED <<sessions, skey, conn>>
  PROVE  [Table!Next]_(Table!vars)
BY DEF Table!vars, Live

\* Deleting the own entry is removing it, or nothing.
LEMMA TableDelete ==
  ASSUME Types, NEW s \in Session, DeleteOwn(s), UNCHANGED <<skey, conn>>
  PROVE  [Table!Next]_(Table!vars)
<1>1. sessions \in [Key -> Session \cup {None}] /\ skey[s] \in Key
  BY DEF Types
<1>2. CASE sessions[skey[s]] = s
  <2>1. sessions' = [sessions EXCEPT ![skey[s]] = None]
    BY <1>1, <1>2 DEF DeleteOwn
  <2> QED BY <1>1, <2>1, TableRemove
<1>3. CASE sessions[skey[s]] # s
  <2>1. sessions' = sessions
    BY <1>1, <1>3 DEF DeleteOwn
  <2> QED BY <2>1, TableKept
<1> QED BY <1>2, <1>3

LEMMA TableStep ==
  ASSUME IInv, [Next]_vars
  PROVE  [Table!Next]_(Table!vars)
<1>0. Types /\ \A s \in Session : skey[s] \in Key
  BY DEF IInv, Types
<1> USE <1>0, MainFacts DEF MainSteps
<1>1. ASSUME \/ UNCHANGED vars \/ Client
             \/ WriteUpstream \/ ContinueGiveUp \/ ContinueWait \/ ContinueStart
             \/ StartCheck \/ DialFails \/ FlushInitial \/ GoRunSession
             \/ Drained
             \/ \E s \in Session : ReadReply(s) \/ ReadFails(s) \/ BeginFrame(s) \/ EndFrame(s)
      PROVE  UNCHANGED <<sessions, skey, conn>>
  <2>1. CASE UNCHANGED vars \/ Client \/ Drained
    BY <2>1 DEF vars, Client, ReadMapped, ReadNew, ReadPending, ReadFrameFails, Drained, sessionVars
  <2>2. CASE WriteUpstream \/ ContinueGiveUp \/ ContinueWait \/ ContinueStart
    BY <2>2 DEF WriteUpstream, ContinueGiveUp, ContinueWait, ContinueStart, sessionVars
  <2>3. CASE StartCheck \/ DialFails \/ FlushInitial \/ GoRunSession
    BY <2>3 DEF StartCheck, DialFails, FlushInitial, GoRunSession, sessionVars
  <2>4. CASE \E s \in Session : ReadReply(s) \/ ReadFails(s) \/ BeginFrame(s) \/ EndFrame(s)
    BY <2>4 DEF ReadReply, ReadFails, BeginFrame, EndFrame
  <2> QED BY <1>1, <2>1, <2>2, <2>3, <2>4
<1>2. ASSUME Dial PROVE [Table!Next]_(Table!vars)
  BY <1>2, TableDial DEF Dial, Unreferenced
<1>3. ASSUME WriteZero PROVE [Table!Next]_(Table!vars)
  <2>1. main.session \in Session /\ sessions[skey[main.session]] # main.session
    BY <1>3, NoneAssumption DEF IInv, SetupInv, WriteZero
  <2>2. UNCHANGED conn \/ conn' = [conn EXCEPT ![main.session] = "closed"]
    BY <1>3 DEF WriteZero
  <2> QED BY <1>3, <2>1, <2>2, TableClose, TableKept DEF WriteZero
<1>4. ASSUME MapSession PROVE [Table!Next]_(Table!vars)
  <2>1. /\ main.session \in Session /\ conn[main.session] = "open"
        /\ sessions[skey[main.session]] = None
    BY <1>4 DEF IInv, SetupInv, MapSession
  <2> QED BY <1>4, <2>1, TableInsert DEF MapSession, sessionVars
<1>5. ASSUME FlushFailedUnmap PROVE [Table!Next]_(Table!vars)
  BY <1>5, TableDelete DEF FlushFailedUnmap, sessionVars
<1>6. ASSUME FlushFailedClose PROVE [Table!Next]_(Table!vars)
  <2>1. main.session \in Session /\ sessions[skey[main.session]] # main.session
    BY <1>6 DEF IInv, ClosingInv, FlushFailedClose
  <2> QED BY <1>6, <2>1, TableClose DEF FlushFailedClose
<1>7. ASSUME NEW s \in Session, ReaderUnmap(s) PROVE [Table!Next]_(Table!vars)
  BY <1>7, TableDelete DEF ReaderUnmap
<1>8. ASSUME NEW s \in Session, ReaderClose(s) PROVE [Table!Next]_(Table!vars)
  <2>1. sessions[skey[s]] # s
    BY <1>8 DEF IInv, ClosingInv, ReaderClose
  <2> QED BY <1>8, <2>1, TableClose DEF ReaderClose
<1> QED BY <1>1, <1>2, <1>3, <1>4, <1>5, <1>6, <1>7, <1>8, TableKept DEF Next, Main, Reader

\* For any flows, sessions and limit a tunnel keeps the table that FlowTable
\* describes: nothing is entered over an entry, or closed while it is mapped
\* (startSession, runSession).
THEOREM TableIsKept == Spec => KeepsTable
<1>1. Init => Table!Init
  BY DEF Init, Live, Table!Init
<1>2. IInv /\ [Next]_vars => [Table!Next]_(Table!vars)
  BY TableStep
<1> QED BY <1>1, <1>2, Invariance, PTL DEF Spec, KeepsTable, Table!Spec
=============================================================================
