--------------------------- MODULE BindQueueProofs ---------------------------
(***************************************************************************)
(* Proofs about BindQueue, for any number of sessions, fixed port or not,  *)
(* and whether or not the operating system fails.                          *)
(***************************************************************************)
EXTENDS BindQueue, SequenceTheorems, WellFoundedInduction, TLAPS

\* The session's q variable names a queue object.
HasQueue(c) == pc[c] \in Label \ {"idle", "get", "reply2", "relay", "over", "refused", "failed"}

\* A session and its watcher are where they can be together.
PcInv ==
  \A c \in Client :
    /\ HasQueue(c) => q[c] \in Queue
    /\ after[c] \in {"over", "reply2", "refused", "failed"}
    /\ watch[c] # "off" => pc[c] \in {"wait", "join", "accept", "joinOk", "joinErr"}
    /\ watch[c] \in {"remove", "check", "delete", "finish"} => pc[c] \in {"wait", "join"}
    /\ pc[c] = "wait" /\ done[c] => watch[c] = "off"
    /\ pc[c] = "join" => popped[c]

\* removeWaiter has taken the waiter of c out of its queue.
Removed(c) == watch[c] \in {"check", "delete", "finish"} \/ (pc[c] = "wait" /\ done[c])

\* A waiter that has been removed, or canceled, stands in no queue.
RemovedInv == \A c \in Client : Removed(c) => ~Queued(c, q[c])

\* c will look at the mapped queue again, and delete it when it finds it empty.
Tends(c) ==
  \/ pc[c] \in {"get", "join"}
  \/ /\ q[c] = cur
     /\ \/ pc[c] \in {"lock", "clear", "fwd", "check", "delete"}
        \/ Expecting(c)
        \/ watch[c] \in {"check", "delete"}

\* An empty queue does not stay in the map unnoticed.
Tended == cur # None /\ Empty(cur) => \E c \in Client : Tends(c)

\* While no session has gone through an orphan, one session at most has the slot,
\* and it is the slot of the mapped queue, which says so.
SoleHolder ==
  ~strayed => \A c \in Client : Holding(c) =>
    /\ q[c] = cur /\ cur # None /\ listening[cur]
    /\ \A d \in Client : Holding(d) => d = c

\* A socket is open only in the hands of a session that has the slot.
SockHeld ==
  \A c \in Client : sock[c] => pc[c] \in {"reply", "accept", "joinOk", "joinErr", "close"}

SlotInv == SoleHolder /\ SockHeld /\ RefusedOnlyAfterStray

\* The inductive invariant.
IInv ==
  /\ TypeOK /\ PcInv /\ RemovedInv /\ QueuedOnce
  /\ OneHandoff /\ ListeningIsHeld /\ BatonInFlight
  /\ Tended /\ SlotInv
-----------------------------------------------------------------------------
(* Sequences without repetition.                                           *)

Distinct(s) == \A i, j \in 1..Len(s) : s[i] = s[j] => i = j

\* A nonempty set of numbers contains its minimum.
LEMMA MinInSet ==
  ASSUME NEW I \in SUBSET Nat, I # {}
  PROVE  Min(I) \in I
<1> DEFINE R == {ss \in Nat \X Nat : ss[1] < ss[2]}
<1>1. IsWellFoundedOn(R, Nat)
  BY NatLessThanWellFounded DEF OpToRel
<1>2. PICK n \in I : \A m \in I : <<m, n>> \notin R
  BY <1>1, WFMin, Zenon
<1>3. \A m \in I : n <= m
  <2>1. SUFFICES ASSUME NEW m \in I, m < n PROVE FALSE
    OBVIOUS
  <2>2. <<m, n>> \in Nat \X Nat /\ <<m, n>>[1] < <<m, n>>[2]
    BY <2>1
  <2>3. <<m, n>> \in R
    BY <2>2, Zenon
  <2> QED BY <1>2, <2>3
<1> QED BY <1>3 DEF Min

\* What removeWaiter leaves of a queue.
LEMMA RemoveFirstFacts ==
  ASSUME NEW S, NEW s \in Seq(S), NEW e
  PROVE  /\ RemoveFirst(s, e) \in Seq(S)
         /\ \A i \in 1..Len(RemoveFirst(s, e)) : \E j \in 1..Len(s) : RemoveFirst(s, e)[i] = s[j]
         /\ Distinct(s) => Distinct(RemoveFirst(s, e)) /\ \A i \in 1..Len(RemoveFirst(s, e)) : RemoveFirst(s, e)[i] # e
<1>1. CASE ~ \E i \in 1..Len(s) : s[i] = e
  BY <1>1 DEF RemoveFirst, Distinct
<1>2. CASE \E i \in 1..Len(s) : s[i] = e
  <2> DEFINE I == {i \in 1..Len(s) : s[i] = e}
             k == Min(I)
             r == SubSeq(s, 1, k-1) \o SubSeq(s, k+1, Len(s))
  <2>1. k \in 1..Len(s) /\ s[k] = e
    <3>1. I \in SUBSET Nat /\ I # {}
      BY <1>2
    <3>2. k \in I
      BY <3>1, MinInSet, Zenon
    <3> QED BY <3>2
  <2>2. RemoveFirst(s, e) = r
    BY <1>2 DEF RemoveFirst, RemoveAt, SelectInSeq
  <2> HIDE DEF k
  <2> DEFINE a == SubSeq(s, 1, k-1)
             b == SubSeq(s, k+1, Len(s))
  <2>3. a \in Seq(S) /\ Len(a) = k - 1 /\ \A i \in 1..k-1 : a[i] = s[i]
    BY <2>1, SubSeqProperties
  <2>4. b \in Seq(S) /\ Len(b) = Len(s) - k /\ \A i \in 1..Len(s)-k : b[i] = s[i + k]
    BY <2>1, SubSeqProperties
  <2> HIDE DEF a, b
  <2>5. /\ a \o b \in Seq(S) /\ Len(a \o b) = Len(s) - 1
        /\ \A i \in 1..Len(s)-1 : (a \o b)[i] = IF i < k THEN s[i] ELSE s[i+1]
    <3>1. /\ a \o b \in Seq(S) /\ Len(a \o b) = Len(a) + Len(b)
          /\ \A i \in 1..Len(a) + Len(b) : (a \o b)[i] = IF i <= Len(a) THEN a[i] ELSE b[i - Len(a)]
      BY <2>3, <2>4, ConcatProperties
    <3> QED BY <3>1, <2>1, <2>3, <2>4
  <2>6. r = a \o b
    BY DEF a, b
  <2> HIDE DEF r
  <2> DEFINE t == RemoveFirst(s, e)
  <2>7. /\ t \in Seq(S) /\ Len(t) = Len(s) - 1
        /\ \A i \in 1..Len(s)-1 : t[i] = IF i < k THEN s[i] ELSE s[i+1]
    BY <2>2, <2>5, <2>6
  <2> HIDE DEF t
  <2>8. \A i \in 1..Len(t) : \E j \in 1..Len(s) : t[i] = s[j]
    BY <2>1, <2>7
  <2>9. ASSUME Distinct(s) PROVE Distinct(t) /\ \A i \in 1..Len(t) : t[i] # e
    BY <2>1, <2>7, <2>9 DEF Distinct
  <2> QED BY <2>7, <2>8, <2>9 DEF t
<1> QED BY <1>1, <1>2

\* What the pop of forwardBindSlot leaves of a queue.
LEMMA TailFacts ==
  ASSUME NEW S, NEW s \in Seq(S), s # << >>
  PROVE  /\ Head(s) \in S /\ Head(s) = s[1] /\ Len(s) >= 1
         /\ Tail(s) \in Seq(S)
         /\ \A i \in 1..Len(Tail(s)) : \E j \in 1..Len(s) : Tail(s)[i] = s[j]
         /\ Distinct(s) => /\ Distinct(Tail(s))
                           /\ \A i \in 1..Len(Tail(s)) : Tail(s)[i] # Head(s)
<1>1. Head(s) \in S /\ Head(s) = s[1] /\ Len(s) \in Nat /\ Len(s) >= 1
  BY EmptySeq
<1>2. /\ Tail(s) \in Seq(S) /\ Len(Tail(s)) = Len(s) - 1
      /\ \A i \in 1..Len(Tail(s)) : Tail(s)[i] = s[i+1]
  BY HeadTailProperties
<1> DEFINE t == Tail(s)
<1> HIDE DEF t
<1>3. \A i \in 1..Len(t) : \E j \in 1..Len(s) : t[i] = s[j]
  BY <1>1, <1>2 DEF t
<1>4. ASSUME Distinct(s) PROVE Distinct(t) /\ \A i \in 1..Len(t) : t[i] # s[1]
  BY <1>1, <1>2, <1>4 DEF Distinct, t
<1> QED BY <1>1, <1>2, <1>3, <1>4 DEF t

\* What acquireBindListener makes of a queue that does not hold the waiter yet.
LEMMA AppendFacts ==
  ASSUME NEW S, NEW s \in Seq(S), NEW e \in S
  PROVE  /\ Append(s, e) \in Seq(S)
         /\ \A i \in 1..Len(Append(s, e)) :
              Append(s, e)[i] = e \/ \E j \in 1..Len(s) : Append(s, e)[i] = s[j]
         /\ Distinct(s) /\ (\A j \in 1..Len(s) : s[j] # e) => Distinct(Append(s, e))
<1> DEFINE t == Append(s, e)
<1>1. /\ t \in Seq(S) /\ Len(t) = Len(s) + 1 /\ Len(s) \in Nat
      /\ \A i \in 1..Len(s) : t[i] = s[i]
      /\ t[Len(s) + 1] = e
  BY AppendProperties
<1> HIDE DEF t
<1>2. \A i \in 1..Len(t) : t[i] = e \/ \E j \in 1..Len(s) : t[i] = s[j]
  BY <1>1
<1>3. ASSUME Distinct(s), \A j \in 1..Len(s) : s[j] # e PROVE Distinct(t)
  BY <1>1, <1>3 DEF Distinct
<1> QED BY <1>1, <1>2, <1>3 DEF t

-----------------------------------------------------------------------------
(* Type correctness.                                                       *)

\* What getBindPortQueue does, whether or not the key is in the map.
LEMMA LookupFacts ==
  ASSUME TypeOK, NEW c \in Client, getBindPortQueue(c)
  PROVE  /\ cur' \in Queue
         /\ q' = [q EXCEPT ![c] = cur']
         /\ listening' \in [Queue -> BOOLEAN]
         /\ waiters' \in [Queue -> Seq(Client)]
         /\ cur # None => UNCHANGED sharedVars
         /\ cur = None =>
              /\ ~listening'[cur'] /\ waiters'[cur'] = << >>
              /\ \A d \in Client : q[d] # cur'
              /\ \A f \in Queue : f # cur' =>
                   listening'[f] = listening[f] /\ waiters'[f] = waiters[f]
<1> USE DEF TypeOK, sharedVars
<1>1. CASE cur # None
  BY <1>1 DEF getBindPortQueue
<1>2. CASE cur = None
  <2>1. PICK f \in Queue : /\ Unreferenced(f)
                           /\ cur' = f
                           /\ q' = [q EXCEPT ![c] = f]
                           /\ listening' = [listening EXCEPT ![f] = FALSE]
                           /\ waiters' = [waiters EXCEPT ![f] = << >>]
    BY <1>2 DEF getBindPortQueue
  <2>2. << >> \in Seq(Client)
    OBVIOUS
  <2> QED BY <1>2, <2>1, <2>2 DEF Unreferenced
<1> QED BY <1>1, <1>2

\* Every step preserves the types.
LEMMA TypeStep ==
  ASSUME IInv, [Next]_vars
  PROVE  TypeOK'
<1> USE DEF IInv, TypeOK, Label, WatchLabel, vars, sharedVars, waiterVars, watchVars
<1>1. ASSUME NEW c \in Client, Start(c) PROVE TypeOK'
  BY <1>1 DEF Start, Goto
<1>2. ASSUME NEW c \in Client, GetQueue(c) PROVE TypeOK'
  BY <1>2, LookupFacts DEF GetQueue, Goto
<1>3. ASSUME NEW c \in Client, AcquireListen(c) PROVE TypeOK'
  BY <1>3 DEF AcquireListen, Goto, Stray, PcInv, HasQueue
<1>4. ASSUME NEW c \in Client, AcquireFail(c) PROVE TypeOK'
  BY <1>4 DEF AcquireFail, Goto, Stray, PcInv, HasQueue
<1>5. ASSUME NEW c \in Client, AcquireQueue(c) PROVE TypeOK'
  <2>1. q[c] \in Queue
    BY <1>5 DEF PcInv, HasQueue, AcquireQueue
  <2>2. Append(waiters[q[c]], c) \in Seq(Client)
    BY <2>1, AppendFacts
  <2> QED BY <1>5, <2>1, <2>2 DEF AcquireQueue, Goto, GotoWatch, Stray
<1>6. ASSUME NEW c \in Client, WaitNotified(c) PROVE TypeOK'
  BY <1>6 DEF WaitNotified, Goto
<1>7. ASSUME NEW c \in Client, WaitCanceled(c) PROVE TypeOK'
  BY <1>7 DEF WaitCanceled, Goto, dropWaiter
<1>8. ASSUME NEW c \in Client, RecvSlot(c) PROVE TypeOK'
  BY <1>8 DEF RecvSlot, Goto, dropWaiter
<1>9. ASSUME NEW c \in Client, JoinWatcher(c) PROVE TypeOK'
  BY <1>9 DEF JoinWatcher, Goto, dropWaiter
<1>10. ASSUME NEW c \in Client, ForwardPop(c) PROVE TypeOK'
  <2>1. q[c] \in Queue
    BY <1>10 DEF PcInv, HasQueue, ForwardPop
  <2>2. Head(waiters[q[c]]) \in Client /\ Tail(waiters[q[c]]) \in Seq(Client)
    BY <1>10, <2>1, TailFacts DEF ForwardPop
  <2> QED BY <1>10, <2>1, <2>2 DEF ForwardPop, Goto
<1>11. ASSUME NEW c \in Client, ForwardSend(c) PROVE TypeOK'
  BY <1>11 DEF ForwardSend, Goto, Return
<1>12. ASSUME NEW c \in Client, ForwardNone(c) PROVE TypeOK'
  BY <1>12 DEF ForwardNone, Goto
<1>13. ASSUME NEW c \in Client, CheckEmpty(c) PROVE TypeOK'
  BY <1>13 DEF CheckEmpty, Goto, Return
<1>14. ASSUME NEW c \in Client, DeleteQueue(c) PROVE TypeOK'
  BY <1>14 DEF DeleteQueue, Goto, deleteIfEmpty, Return
<1>15. ASSUME NEW c \in Client, FirstReply(c) PROVE TypeOK'
  <2>1. pc' \in [Client -> Label] /\ after' \in [Client -> Label] /\ watch' \in [Client -> WatchLabel]
    <3>1. CASE Goto(c, "accept") /\ GotoWatch(c, "poll") /\ UNCHANGED after
      BY <3>1 DEF Goto, GotoWatch
    <3>2. CASE Goto(c, "close") /\ after' = [after EXCEPT ![c] = "over"] /\ UNCHANGED watch
      BY <3>2 DEF Goto
    <3> QED BY <1>15, <3>1, <3>2 DEF FirstReply
  <2> QED BY <1>15, <2>1 DEF FirstReply
<1>16. ASSUME NEW c \in Client, AcceptError(c) PROVE TypeOK'
  BY <1>16 DEF AcceptError, Goto
<1>17. ASSUME NEW c \in Client, JoinControl(c) PROVE TypeOK'
  BY <1>17 DEF JoinControl, Goto
<1>18. ASSUME NEW c \in Client, CloseListener(c) PROVE TypeOK'
  BY <1>18 DEF CloseListener, Goto
<1>19. ASSUME NEW c \in Client, ReleaseGet(c) PROVE TypeOK'
  BY <1>19, LookupFacts DEF ReleaseGet, Goto
<1>20. ASSUME NEW c \in Client, ReleaseClear(c) PROVE TypeOK'
  BY <1>20 DEF ReleaseClear, Goto
<1>21. ASSUME NEW c \in Client, SecondReply(c) PROVE TypeOK'
  BY <1>21 DEF SecondReply, Goto
<1>22. ASSUME NEW c \in Client, WatchStopped(c) PROVE TypeOK'
  BY <1>22 DEF WatchStopped, Goto, GotoWatch
<1>23. ASSUME NEW c \in Client, WatchRead(c) PROVE TypeOK'
  BY <1>23 DEF WatchRead, Goto, GotoWatch
<1>24. ASSUME NEW c \in Client, WatchRemove(c) PROVE TypeOK'
  <2>1. q[c] \in Queue
    BY <1>24 DEF PcInv, HasQueue, WatchRemove
  <2>2. RemoveFirst(waiters[q[c]], c) \in Seq(Client)
    BY <2>1, RemoveFirstFacts
  <2> QED BY <1>24, <2>1, <2>2 DEF WatchRemove, GotoWatch
<1>25. ASSUME NEW c \in Client, WatchCheck(c) PROVE TypeOK'
  BY <1>25 DEF WatchCheck, Goto, GotoWatch
<1>26. ASSUME NEW c \in Client, WatchDelete(c) PROVE TypeOK'
  BY <1>26 DEF WatchDelete, Goto, GotoWatch, deleteIfEmpty
<1>27. ASSUME NEW c \in Client, WatchFinish(c) PROVE TypeOK'
  BY <1>27 DEF WatchFinish, Goto, GotoWatch
<1>28. ASSUME NEW c \in Client, WatchAbort(c) PROVE TypeOK'
  BY <1>28 DEF WatchAbort, Goto, GotoWatch
<1>29. ASSUME NEW c \in Client, AcceptInbound(c) PROVE TypeOK'
  BY <1>29 DEF AcceptInbound, Goto
<1>30. ASSUME NEW c \in Client, RelayEnds(c) PROVE TypeOK'
  BY <1>30 DEF RelayEnds, Goto
<1>31. ASSUME NEW c \in Client, ClientSends(c) PROVE TypeOK'
  BY <1>31 DEF ClientSends, Goto
<1>32. ASSUME NEW c \in Client, ClientCloses(c) PROVE TypeOK'
  BY <1>32 DEF ClientCloses, Goto
<1>33. ASSUME UNCHANGED vars PROVE TypeOK'
  BY <1>33
<1> QED
  BY <1>1, <1>2, <1>3, <1>4, <1>5, <1>6, <1>7, <1>8, <1>9, <1>10, <1>11, <1>12,
     <1>13, <1>14, <1>15, <1>16, <1>17, <1>18, <1>19, <1>20, <1>21, <1>22,
     <1>23, <1>24, <1>25, <1>26, <1>27, <1>28, <1>29, <1>30, <1>31, <1>32, <1>33
     DEF Next, Session, Acquire, Forward, Release, Watcher, Environment, Terminated
-----------------------------------------------------------------------------
(* Who stands in which queue after the four actions that change one.       *)

\* A new queue object is empty, and so was the one whose identity it takes.
LEMMA LookupQueued ==
  ASSUME IInv, NEW c \in Client, getBindPortQueue(c)
  PROVE  waiters' = waiters
<1>1. TypeOK
  BY DEF IInv
<1>2. CASE cur # None
  BY <1>1, <1>2, LookupFacts DEF sharedVars
<1>3. CASE cur = None
  <2>1. PICK f \in Queue : Unreferenced(f) /\ waiters' = [waiters EXCEPT ![f] = << >>]
    BY <1>3 DEF getBindPortQueue
  <2>2. ASSUME waiters[f] # << >> PROVE FALSE
    <3>1. Queued(waiters[f][1], f) /\ waiters[f][1] \in Client
      BY <1>1, <2>2, TailFacts DEF TypeOK, Queued
    <3>2. q[waiters[f][1]] = f
      BY <3>1 DEF IInv, QueuedOnce
    <3> QED BY <2>1, <3>1, <3>2 DEF Unreferenced
  <2> QED BY <1>1, <2>1, <2>2 DEF TypeOK
<1> QED BY <1>2, <1>3

\* The waiter a forwarder pops was waiting, and leaves the only queue it was in.
LEMMA PopQueued ==
  ASSUME IInv, NEW c \in Client, ForwardPop(c)
  PROVE  LET w == Head(waiters[q[c]]) IN
         /\ w \in Client /\ q[c] \in Queue
         /\ pc[w] = "wait" /\ q[w] = q[c] /\ ~popped[w] /\ notify[w] = 0
         /\ \A d \in Client, f \in Queue : Queued(d, f)' => Queued(d, f) /\ d # w
         /\ \A f \in Queue : Distinct(waiters'[f])
<1> DEFINE w == Head(waiters[q[c]])
           s == waiters[q[c]]
<1>1. q[c] \in Queue /\ s \in Seq(Client) /\ s # << >>
  BY DEF IInv, TypeOK, PcInv, HasQueue, ForwardPop, Label
<1>2. waiters' = [waiters EXCEPT ![q[c]] = Tail(s)] /\ waiters \in [Queue -> Seq(Client)]
  BY DEF ForwardPop, IInv, TypeOK
<1>3. Distinct(s) /\ \A f \in Queue : Distinct(waiters[f])
  BY <1>1 DEF IInv, QueuedOnce, Distinct
<1>4. /\ w \in Client /\ w = s[1] /\ Len(s) >= 1
      /\ \A i \in 1..Len(Tail(s)) : \E j \in 1..Len(s) : Tail(s)[i] = s[j]
      /\ Distinct(Tail(s)) /\ \A i \in 1..Len(Tail(s)) : Tail(s)[i] # w
  BY <1>1, <1>3, TailFacts
<1>5. Queued(w, q[c])
  BY <1>1, <1>4 DEF Queued
<1>6. pc[w] = "wait" /\ q[w] = q[c] /\ ~popped[w] /\ notify[w] = 0
  BY <1>1, <1>4, <1>5 DEF IInv, QueuedOnce
<1>7. ASSUME NEW d \in Client, NEW f \in Queue, Queued(d, f)'
      PROVE  Queued(d, f) /\ d # w
  <2>1. CASE f = q[c]
    <3>1. waiters'[f] = Tail(s)
      BY <1>1, <1>2, <2>1
    <3> QED BY <1>4, <1>7, <2>1, <3>1 DEF Queued
  <2>2. CASE f # q[c]
    <3>1. waiters'[f] = waiters[f]
      BY <1>1, <1>2, <2>2
    <3>2. Queued(d, f)
      BY <1>7, <3>1 DEF Queued
    <3>3. q[d] = f
      BY <3>2 DEF IInv, QueuedOnce
    <3> QED BY <1>6, <2>2, <3>2, <3>3
  <2> QED BY <2>1, <2>2
<1>8. ASSUME NEW f \in Queue PROVE Distinct(waiters'[f])
  BY <1>1, <1>2, <1>3, <1>4
<1> QED BY <1>1, <1>4, <1>6, <1>7, <1>8

\* A queueing session adds itself, at the end of one queue.
LEMMA AppendQueued ==
  ASSUME IInv, NEW c \in Client, AcquireQueue(c)
  PROVE  /\ \A d \in Client, f \in Queue :
              Queued(d, f)' => Queued(d, f) \/ (d = c /\ f = q[c])
         /\ \A f \in Queue : Distinct(waiters'[f])
<1> DEFINE s == waiters[q[c]]
<1>1. q[c] \in Queue /\ s \in Seq(Client)
  BY DEF IInv, TypeOK, PcInv, HasQueue, AcquireQueue, Label
<1>2. waiters' = [waiters EXCEPT ![q[c]] = Append(s, c)] /\ waiters \in [Queue -> Seq(Client)]
  BY DEF AcquireQueue, IInv, TypeOK
<1>3. Distinct(s) /\ \A f \in Queue : Distinct(waiters[f])
  BY <1>1 DEF IInv, QueuedOnce, Distinct
<1>4. ~Queued(c, q[c])
  BY <1>1 DEF IInv, QueuedOnce, AcquireQueue
<1>5. /\ \A i \in 1..Len(Append(s, c)) :
           Append(s, c)[i] = c \/ \E j \in 1..Len(s) : Append(s, c)[i] = s[j]
      /\ Distinct(Append(s, c))
  BY <1>1, <1>3, <1>4, AppendFacts DEF Queued
<1>6. ASSUME NEW d \in Client, NEW f \in Queue, Queued(d, f)'
      PROVE  Queued(d, f) \/ (d = c /\ f = q[c])
  <2>1. waiters'[f] = IF f = q[c] THEN Append(s, c) ELSE waiters[f]
    BY <1>1, <1>2
  <2> QED BY <1>5, <1>6, <2>1 DEF Queued
<1>7. ASSUME NEW f \in Queue PROVE Distinct(waiters'[f])
  BY <1>1, <1>2, <1>3, <1>5
<1> QED BY <1>6, <1>7

\* removeWaiter leaves the session in no queue.
LEMMA RemoveQueued ==
  ASSUME IInv, NEW c \in Client, WatchRemove(c)
  PROVE  /\ \A d \in Client, f \in Queue : Queued(d, f)' => Queued(d, f) /\ d # c
         /\ \A f \in Queue : Distinct(waiters'[f])
         /\ \A f \in Queue : waiters[f] = << >> => waiters'[f] = << >>
<1> DEFINE s == waiters[q[c]]
           r == RemoveFirst(s, c)
<1>1. q[c] \in Queue /\ s \in Seq(Client)
  BY DEF IInv, TypeOK, PcInv, HasQueue, WatchRemove, Label
<1>2. waiters' = [waiters EXCEPT ![q[c]] = r] /\ waiters \in [Queue -> Seq(Client)]
  BY DEF WatchRemove, IInv, TypeOK
<1>3. Distinct(s) /\ \A f \in Queue : Distinct(waiters[f])
  BY <1>1 DEF IInv, QueuedOnce, Distinct
<1>4. /\ r \in Seq(Client)
      /\ \A i \in 1..Len(r) : \E j \in 1..Len(s) : r[i] = s[j]
      /\ Distinct(r) /\ \A i \in 1..Len(r) : r[i] # c
  BY <1>1, <1>3, RemoveFirstFacts
<1> HIDE DEF r
<1>5. ASSUME NEW d \in Client, NEW f \in Queue, Queued(d, f)'
      PROVE  Queued(d, f) /\ d # c
  <2>1. waiters'[f] = IF f = q[c] THEN r ELSE waiters[f]
    BY <1>1, <1>2
  <2>2. Queued(d, f) /\ (f = q[c] => d # c)
    BY <1>4, <1>5, <2>1 DEF Queued
  <2>3. q[d] = f
    BY <2>2 DEF IInv, QueuedOnce
  <2> QED BY <2>2, <2>3
<1>6. ASSUME NEW f \in Queue PROVE Distinct(waiters'[f])
  BY <1>1, <1>2, <1>3, <1>4
<1>7. ASSUME NEW f \in Queue, waiters[f] = << >> PROVE waiters'[f] = << >>
  <2>1. CASE f = q[c]
    <3>1. r = << >>
      BY <1>4, <1>7, <2>1, EmptySeq
    <3> QED BY <1>1, <1>2, <2>1, <3>1
  <2>2. CASE f # q[c]
    BY <1>1, <1>2, <1>7, <2>2
  <2> QED BY <2>1, <2>2
<1> QED BY <1>5, <1>6, <1>7
-----------------------------------------------------------------------------
(* Sessions and watchers.                                                  *)

\* Every step keeps sessions and watchers together.
LEMMA PcStep ==
  ASSUME IInv, [Next]_vars
  PROVE  PcInv'
<1> USE DEF IInv, TypeOK, PcInv, HasQueue, Label, vars, sharedVars, waiterVars, watchVars
<1>1. ASSUME NEW c \in Client, Start(c) PROVE PcInv'
  BY <1>1 DEF Start, Goto
<1>2. ASSUME NEW c \in Client, GetQueue(c) PROVE PcInv'
  BY <1>2, LookupFacts DEF GetQueue, Goto
<1>3. ASSUME NEW c \in Client, AcquireListen(c) PROVE PcInv'
  BY <1>3 DEF AcquireListen, Goto, Stray
<1>4. ASSUME NEW c \in Client, AcquireFail(c) PROVE PcInv'
  BY <1>4 DEF AcquireFail, Goto, Stray
<1>5. ASSUME NEW c \in Client, AcquireQueue(c) PROVE PcInv'
  BY <1>5 DEF AcquireQueue, Goto, GotoWatch, Stray
<1>6. ASSUME NEW c \in Client, WaitNotified(c) PROVE PcInv'
  BY <1>6 DEF WaitNotified, Goto, OneHandoff, Expecting
<1>7. ASSUME NEW c \in Client, WaitCanceled(c) PROVE PcInv'
  BY <1>7 DEF WaitCanceled, Goto, dropWaiter
<1>8. ASSUME NEW c \in Client, RecvSlot(c) PROVE PcInv'
  BY <1>8 DEF RecvSlot, Goto, dropWaiter
<1>9. ASSUME NEW c \in Client, JoinWatcher(c) PROVE PcInv'
  BY <1>9 DEF JoinWatcher, Goto, dropWaiter
<1>10. ASSUME NEW c \in Client, ForwardPop(c) PROVE PcInv'
  BY <1>10, PopQueued DEF ForwardPop, Goto
<1>11. ASSUME NEW c \in Client, ForwardSend(c) PROVE PcInv'
  BY <1>11 DEF ForwardSend, Goto, Return
<1>12. ASSUME NEW c \in Client, ForwardNone(c) PROVE PcInv'
  BY <1>12 DEF ForwardNone, Goto
<1>13. ASSUME NEW c \in Client, CheckEmpty(c) PROVE PcInv'
  BY <1>13 DEF CheckEmpty, Goto, Return
<1>14. ASSUME NEW c \in Client, DeleteQueue(c) PROVE PcInv'
  BY <1>14 DEF DeleteQueue, Goto, deleteIfEmpty, Return
<1>15. ASSUME NEW c \in Client, FirstReply(c) PROVE PcInv'
  <2>1. CASE Goto(c, "accept") /\ GotoWatch(c, "poll") /\ UNCHANGED after
    BY <1>15, <2>1 DEF FirstReply, Goto, GotoWatch
  <2>2. CASE Goto(c, "close") /\ after' = [after EXCEPT ![c] = "over"] /\ UNCHANGED watch
    BY <1>15, <2>2 DEF FirstReply, Goto
  <2> QED BY <1>15, <2>1, <2>2 DEF FirstReply
<1>16. ASSUME NEW c \in Client, AcceptError(c) PROVE PcInv'
  BY <1>16 DEF AcceptError, Goto
<1>17. ASSUME NEW c \in Client, JoinControl(c) PROVE PcInv'
  BY <1>17 DEF JoinControl, Goto
<1>18. ASSUME NEW c \in Client, CloseListener(c) PROVE PcInv'
  BY <1>18 DEF CloseListener, Goto
<1>19. ASSUME NEW c \in Client, ReleaseGet(c) PROVE PcInv'
  BY <1>19, LookupFacts DEF ReleaseGet, Goto
<1>20. ASSUME NEW c \in Client, ReleaseClear(c) PROVE PcInv'
  BY <1>20 DEF ReleaseClear, Goto
<1>21. ASSUME NEW c \in Client, SecondReply(c) PROVE PcInv'
  BY <1>21 DEF SecondReply, Goto
<1>22. ASSUME NEW c \in Client, WatchStopped(c) PROVE PcInv'
  BY <1>22 DEF WatchStopped, Goto, GotoWatch
<1>23. ASSUME NEW c \in Client, WatchRead(c) PROVE PcInv'
  BY <1>23 DEF WatchRead, Goto, GotoWatch, ForQueue
<1>24. ASSUME NEW c \in Client, WatchRemove(c) PROVE PcInv'
  BY <1>24 DEF WatchRemove, Goto, GotoWatch
<1>25. ASSUME NEW c \in Client, WatchCheck(c) PROVE PcInv'
  BY <1>25 DEF WatchCheck, Goto, GotoWatch
<1>26. ASSUME NEW c \in Client, WatchDelete(c) PROVE PcInv'
  BY <1>26 DEF WatchDelete, Goto, GotoWatch, deleteIfEmpty
<1>27. ASSUME NEW c \in Client, WatchFinish(c) PROVE PcInv'
  BY <1>27 DEF WatchFinish, Goto, GotoWatch
<1>28. ASSUME NEW c \in Client, WatchAbort(c) PROVE PcInv'
  BY <1>28 DEF WatchAbort, Goto, GotoWatch
<1>29. ASSUME NEW c \in Client, AcceptInbound(c) PROVE PcInv'
  BY <1>29 DEF AcceptInbound, Goto
<1>30. ASSUME NEW c \in Client, RelayEnds(c) PROVE PcInv'
  BY <1>30 DEF RelayEnds, Goto
<1>31. ASSUME NEW c \in Client, ClientSends(c) PROVE PcInv'
  BY <1>31 DEF ClientSends, Goto
<1>32. ASSUME NEW c \in Client, ClientCloses(c) PROVE PcInv'
  BY <1>32 DEF ClientCloses, Goto
<1>33. ASSUME UNCHANGED vars PROVE PcInv'
  BY <1>33
<1> QED
  BY <1>1, <1>2, <1>3, <1>4, <1>5, <1>6, <1>7, <1>8, <1>9, <1>10, <1>11, <1>12,
     <1>13, <1>14, <1>15, <1>16, <1>17, <1>18, <1>19, <1>20, <1>21, <1>22,
     <1>23, <1>24, <1>25, <1>26, <1>27, <1>28, <1>29, <1>30, <1>31, <1>32, <1>33
     DEF Next, Session, Acquire, Forward, Release, Watcher, Environment, Terminated

-----------------------------------------------------------------------------
(* Waiters.                                                                *)

\* A step adds no waiter to a queue, except the session that queues itself.
LEMMA StepQueued ==
  ASSUME IInv, [Next]_vars, NEW d \in Client, NEW f \in Queue, Queued(d, f)'
  PROVE  Queued(d, f) \/ (AcquireQueue(d) /\ f = q[d])
<1> DEFINE Goal == Queued(d, f) \/ (AcquireQueue(d) /\ f = q[d])
<1>1. ASSUME waiters' = waiters PROVE Goal
  BY <1>1 DEF Queued
<1>2. ASSUME NEW c \in Client, Start(c) PROVE Goal
  BY <1>1, <1>2 DEF Start, sharedVars
<1>3. ASSUME NEW c \in Client, GetQueue(c) PROVE Goal
  BY <1>1, <1>3, LookupQueued DEF GetQueue
<1>4. ASSUME NEW c \in Client, AcquireListen(c) PROVE Goal
  BY <1>1, <1>4 DEF AcquireListen, sharedVars
<1>5. ASSUME NEW c \in Client, AcquireFail(c) PROVE Goal
  BY <1>1, <1>5 DEF AcquireFail, sharedVars
<1>6. ASSUME NEW c \in Client, AcquireQueue(c) PROVE Goal
  BY <1>6, AppendQueued
<1>7. ASSUME NEW c \in Client, WaitNotified(c) PROVE Goal
  BY <1>1, <1>7 DEF WaitNotified, sharedVars
<1>8. ASSUME NEW c \in Client, WaitCanceled(c) PROVE Goal
  BY <1>1, <1>8 DEF WaitCanceled, sharedVars
<1>9. ASSUME NEW c \in Client, RecvSlot(c) PROVE Goal
  BY <1>1, <1>9 DEF RecvSlot, sharedVars
<1>10. ASSUME NEW c \in Client, JoinWatcher(c) PROVE Goal
  BY <1>1, <1>10 DEF JoinWatcher, sharedVars
<1>11. ASSUME NEW c \in Client, ForwardPop(c) PROVE Goal
  BY <1>11, PopQueued
<1>12. ASSUME NEW c \in Client, ForwardSend(c) PROVE Goal
  BY <1>1, <1>12 DEF ForwardSend, sharedVars
<1>13. ASSUME NEW c \in Client, ForwardNone(c) PROVE Goal
  BY <1>1, <1>13 DEF ForwardNone, sharedVars
<1>14. ASSUME NEW c \in Client, CheckEmpty(c) PROVE Goal
  BY <1>1, <1>14 DEF CheckEmpty, sharedVars
<1>15. ASSUME NEW c \in Client, DeleteQueue(c) PROVE Goal
  BY <1>1, <1>15 DEF DeleteQueue, sharedVars, deleteIfEmpty
<1>16. ASSUME NEW c \in Client, FirstReply(c) PROVE Goal
  BY <1>1, <1>16 DEF FirstReply, sharedVars
<1>17. ASSUME NEW c \in Client, AcceptError(c) PROVE Goal
  BY <1>1, <1>17 DEF AcceptError, sharedVars
<1>18. ASSUME NEW c \in Client, JoinControl(c) PROVE Goal
  BY <1>1, <1>18 DEF JoinControl, sharedVars
<1>19. ASSUME NEW c \in Client, CloseListener(c) PROVE Goal
  BY <1>1, <1>19 DEF CloseListener, sharedVars
<1>20. ASSUME NEW c \in Client, ReleaseGet(c) PROVE Goal
  BY <1>1, <1>20, LookupQueued DEF ReleaseGet
<1>21. ASSUME NEW c \in Client, ReleaseClear(c) PROVE Goal
  BY <1>1, <1>21 DEF ReleaseClear, sharedVars
<1>22. ASSUME NEW c \in Client, SecondReply(c) PROVE Goal
  BY <1>1, <1>22 DEF SecondReply, sharedVars
<1>23. ASSUME NEW c \in Client, WatchStopped(c) PROVE Goal
  BY <1>1, <1>23 DEF WatchStopped, sharedVars
<1>24. ASSUME NEW c \in Client, WatchRead(c) PROVE Goal
  BY <1>1, <1>24 DEF WatchRead, sharedVars
<1>25. ASSUME NEW c \in Client, WatchRemove(c) PROVE Goal
  BY <1>25, RemoveQueued
<1>26. ASSUME NEW c \in Client, WatchCheck(c) PROVE Goal
  BY <1>1, <1>26 DEF WatchCheck, sharedVars
<1>27. ASSUME NEW c \in Client, WatchDelete(c) PROVE Goal
  BY <1>1, <1>27 DEF WatchDelete, sharedVars, deleteIfEmpty
<1>28. ASSUME NEW c \in Client, WatchFinish(c) PROVE Goal
  BY <1>1, <1>28 DEF WatchFinish, sharedVars
<1>29. ASSUME NEW c \in Client, WatchAbort(c) PROVE Goal
  BY <1>1, <1>29 DEF WatchAbort, sharedVars
<1>30. ASSUME NEW c \in Client, AcceptInbound(c) PROVE Goal
  BY <1>1, <1>30 DEF AcceptInbound, sharedVars
<1>31. ASSUME NEW c \in Client, RelayEnds(c) PROVE Goal
  BY <1>1, <1>31 DEF RelayEnds, sharedVars
<1>32. ASSUME NEW c \in Client, ClientSends(c) PROVE Goal
  BY <1>1, <1>32 DEF ClientSends, sharedVars
<1>33. ASSUME NEW c \in Client, ClientCloses(c) PROVE Goal
  BY <1>1, <1>33 DEF ClientCloses, sharedVars
<1>34. ASSUME UNCHANGED vars PROVE Goal
  BY <1>1, <1>34 DEF vars
<1> QED
  BY <1>1, <1>2, <1>3, <1>4, <1>5, <1>6, <1>7, <1>8, <1>9, <1>10, <1>11, <1>12,
     <1>13, <1>14, <1>15, <1>16, <1>17, <1>18, <1>19, <1>20, <1>21, <1>22,
     <1>23, <1>24, <1>25, <1>26, <1>27, <1>28, <1>29, <1>30, <1>31, <1>32,
     <1>33, <1>34
     DEF Next, Session, Acquire, Forward, Release, Watcher, Environment, Terminated
\* Only removeWaiter makes a waiter one that has been removed.
LEMMA BecomesRemoved ==
  ASSUME IInv, [Next]_vars, NEW d \in Client, pc[d] = "wait", Removed(d)'
  PROVE  Removed(d) \/ WatchRemove(d)
<1> DEFINE Goal == Removed(d) \/ WatchRemove(d)
<1>0. TypeOK
  BY DEF IInv
<1> USE <1>0 DEF TypeOK, Removed, vars, sharedVars, waiterVars, watchVars
<1>1. ASSUME NEW c \in Client, Start(c) PROVE Goal
  BY <1>1 DEF Start, Goto
<1>2. ASSUME NEW c \in Client, GetQueue(c) PROVE Goal
  BY <1>2 DEF GetQueue, Goto
<1>3. ASSUME NEW c \in Client, AcquireListen(c) PROVE Goal
  BY <1>3 DEF AcquireListen, Goto, Stray
<1>4. ASSUME NEW c \in Client, AcquireFail(c) PROVE Goal
  BY <1>4 DEF AcquireFail, Goto, Stray
<1>5. ASSUME NEW c \in Client, AcquireQueue(c) PROVE Goal
  BY <1>5 DEF AcquireQueue, Goto, GotoWatch, Stray
<1>6. ASSUME NEW c \in Client, WaitNotified(c) PROVE Goal
  BY <1>6 DEF WaitNotified, Goto
<1>7. ASSUME NEW c \in Client, WaitCanceled(c) PROVE Goal
  BY <1>7 DEF WaitCanceled, Goto, dropWaiter
<1>8. ASSUME NEW c \in Client, RecvSlot(c) PROVE Goal
  BY <1>8 DEF RecvSlot, Goto, dropWaiter
<1>9. ASSUME NEW c \in Client, JoinWatcher(c) PROVE Goal
  BY <1>9 DEF JoinWatcher, Goto, dropWaiter
<1>10. ASSUME NEW c \in Client, ForwardPop(c) PROVE Goal
  BY <1>10, PopQueued DEF ForwardPop, Goto
<1>11. ASSUME NEW c \in Client, ForwardSend(c) PROVE Goal
  BY <1>11 DEF ForwardSend, Goto, Return
<1>12. ASSUME NEW c \in Client, ForwardNone(c) PROVE Goal
  BY <1>12 DEF ForwardNone, Goto
<1>13. ASSUME NEW c \in Client, CheckEmpty(c) PROVE Goal
  BY <1>13 DEF CheckEmpty, Goto, Return
<1>14. ASSUME NEW c \in Client, DeleteQueue(c) PROVE Goal
  BY <1>14 DEF DeleteQueue, Goto, deleteIfEmpty, Return
<1>15. ASSUME NEW c \in Client, FirstReply(c) PROVE Goal
  BY <1>15 DEF FirstReply, Goto, GotoWatch
<1>16. ASSUME NEW c \in Client, AcceptError(c) PROVE Goal
  BY <1>16 DEF AcceptError, Goto
<1>17. ASSUME NEW c \in Client, JoinControl(c) PROVE Goal
  BY <1>17 DEF JoinControl, Goto
<1>18. ASSUME NEW c \in Client, CloseListener(c) PROVE Goal
  BY <1>18 DEF CloseListener, Goto
<1>19. ASSUME NEW c \in Client, ReleaseGet(c) PROVE Goal
  BY <1>19 DEF ReleaseGet, Goto
<1>20. ASSUME NEW c \in Client, ReleaseClear(c) PROVE Goal
  BY <1>20 DEF ReleaseClear, Goto
<1>21. ASSUME NEW c \in Client, SecondReply(c) PROVE Goal
  BY <1>21 DEF SecondReply, Goto
<1>22. ASSUME NEW c \in Client, WatchStopped(c) PROVE Goal
  BY <1>22 DEF WatchStopped, Goto, GotoWatch
<1>23. ASSUME NEW c \in Client, WatchRead(c) PROVE Goal
  BY <1>23 DEF WatchRead, Goto, GotoWatch
<1>24. ASSUME NEW c \in Client, WatchRemove(c) PROVE Goal
  BY <1>24 DEF WatchRemove, Goto, GotoWatch
<1>25. ASSUME NEW c \in Client, WatchCheck(c) PROVE Goal
  BY <1>25 DEF WatchCheck, Goto, GotoWatch
<1>26. ASSUME NEW c \in Client, WatchDelete(c) PROVE Goal
  BY <1>26 DEF WatchDelete, Goto, GotoWatch, deleteIfEmpty
<1>27. ASSUME NEW c \in Client, WatchFinish(c) PROVE Goal
  BY <1>27 DEF WatchFinish, Goto, GotoWatch
<1>28. ASSUME NEW c \in Client, WatchAbort(c) PROVE Goal
  BY <1>28 DEF WatchAbort, Goto, GotoWatch
<1>29. ASSUME NEW c \in Client, AcceptInbound(c) PROVE Goal
  BY <1>29 DEF AcceptInbound, Goto
<1>30. ASSUME NEW c \in Client, RelayEnds(c) PROVE Goal
  BY <1>30 DEF RelayEnds, Goto
<1>31. ASSUME NEW c \in Client, ClientSends(c) PROVE Goal
  BY <1>31 DEF ClientSends, Goto
<1>32. ASSUME NEW c \in Client, ClientCloses(c) PROVE Goal
  BY <1>32 DEF ClientCloses, Goto
<1>33. ASSUME UNCHANGED vars PROVE Goal
  BY <1>33
<1> QED
  BY <1>1, <1>2, <1>3, <1>4, <1>5, <1>6, <1>7, <1>8, <1>9, <1>10, <1>11, <1>12,
     <1>13, <1>14, <1>15, <1>16, <1>17, <1>18, <1>19, <1>20, <1>21, <1>22,
     <1>23, <1>24, <1>25, <1>26, <1>27, <1>28, <1>29, <1>30, <1>31, <1>32, <1>33
     DEF Next, Session, Acquire, Forward, Release, Watcher, Environment, Terminated

\* Every step preserves: a removed or canceled waiter stands in no queue.
LEMMA RemovedStep ==
  ASSUME IInv, [Next]_vars
  PROVE  RemovedInv'
<1>1. SUFFICES ASSUME NEW d \in Client, NEW f, f = q'[d], Removed(d)', Queued(d, f)'
               PROVE  FALSE
  BY DEF RemovedInv, Queued
<1>2. TypeOK' /\ PcInv'
  BY TypeStep, PcStep
<1>3. f \in Queue
  BY <1>1, <1>2 DEF PcInv, Removed, HasQueue, Label
<1>4. CASE AcquireQueue(d)
  <2>1. watch'[d] = "poll" /\ ~done'[d]
    BY <1>4 DEF AcquireQueue, GotoWatch, IInv, TypeOK
  <2> QED BY <1>1, <2>1 DEF Removed
<1>5. CASE ~AcquireQueue(d)
  <2>2. Queued(d, f)
    BY <1>1, <1>3, <1>5, StepQueued
  <2>3. pc[d] = "wait" /\ q[d] = f
    BY <1>3, <2>2 DEF IInv, QueuedOnce
  <2>4. Removed(d) \/ WatchRemove(d)
    BY <1>1, <2>3, BecomesRemoved
  <2>5. ~Removed(d)
    BY <2>2, <2>3 DEF IInv, RemovedInv
  <2> QED BY <1>1, <1>3, <2>4, <2>5, RemoveQueued
<1> QED BY <1>4, <1>5
\* What is true of a waiter in a queue stays true until it leaves it.
LEMMA StaysQueued ==
  ASSUME IInv, [Next]_vars, NEW d \in Client, NEW f \in Queue, Queued(d, f), Queued(d, f)'
  PROVE  pc'[d] = "wait" /\ q'[d] = f /\ ~popped'[d] /\ notify'[d] = 0
<1> DEFINE Goal == pc'[d] = "wait" /\ q'[d] = f /\ ~popped'[d] /\ notify'[d] = 0
<1>0. /\ TypeOK /\ pc[d] = "wait" /\ q[d] = f /\ ~popped[d] /\ notify[d] = 0
      /\ ~done[d]
  BY DEF IInv, QueuedOnce, RemovedInv, Removed
<1> USE <1>0 DEF TypeOK, vars, sharedVars, waiterVars, watchVars
<1>1. ASSUME NEW c \in Client, Start(c) PROVE Goal
  BY <1>1 DEF Start, Goto
<1>2. ASSUME NEW c \in Client, GetQueue(c) PROVE Goal
  BY <1>2, LookupFacts DEF GetQueue, Goto
<1>3. ASSUME NEW c \in Client, AcquireListen(c) PROVE Goal
  BY <1>3 DEF AcquireListen, Goto, Stray
<1>4. ASSUME NEW c \in Client, AcquireFail(c) PROVE Goal
  BY <1>4 DEF AcquireFail, Goto, Stray
<1>5. ASSUME NEW c \in Client, AcquireQueue(c) PROVE Goal
  BY <1>5 DEF AcquireQueue, Goto, GotoWatch, Stray
<1>6. ASSUME NEW c \in Client, WaitNotified(c) PROVE Goal
  BY <1>6, <1>0 DEF WaitNotified, Goto
<1>7. ASSUME NEW c \in Client, WaitCanceled(c) PROVE Goal
  BY <1>7 DEF WaitCanceled, Goto, dropWaiter
<1>8. ASSUME NEW c \in Client, RecvSlot(c) PROVE Goal
  BY <1>8 DEF RecvSlot, Goto, dropWaiter
<1>9. ASSUME NEW c \in Client, JoinWatcher(c) PROVE Goal
  BY <1>9 DEF JoinWatcher, Goto, dropWaiter
<1>10. ASSUME NEW c \in Client, ForwardPop(c) PROVE Goal
  BY <1>10, PopQueued DEF ForwardPop, Goto
<1>11. ASSUME NEW c \in Client, ForwardSend(c) PROVE Goal
  BY <1>11 DEF ForwardSend, Goto, Return, IInv, OneHandoff, Expecting
<1>12. ASSUME NEW c \in Client, ForwardNone(c) PROVE Goal
  BY <1>12 DEF ForwardNone, Goto
<1>13. ASSUME NEW c \in Client, CheckEmpty(c) PROVE Goal
  BY <1>13 DEF CheckEmpty, Goto, Return
<1>14. ASSUME NEW c \in Client, DeleteQueue(c) PROVE Goal
  BY <1>14 DEF DeleteQueue, Goto, deleteIfEmpty, Return
<1>15. ASSUME NEW c \in Client, FirstReply(c) PROVE Goal
  BY <1>15 DEF FirstReply, Goto, GotoWatch
<1>16. ASSUME NEW c \in Client, AcceptError(c) PROVE Goal
  BY <1>16 DEF AcceptError, Goto
<1>17. ASSUME NEW c \in Client, JoinControl(c) PROVE Goal
  BY <1>17 DEF JoinControl, Goto
<1>18. ASSUME NEW c \in Client, CloseListener(c) PROVE Goal
  BY <1>18 DEF CloseListener, Goto
<1>19. ASSUME NEW c \in Client, ReleaseGet(c) PROVE Goal
  BY <1>19, LookupFacts DEF ReleaseGet, Goto
<1>20. ASSUME NEW c \in Client, ReleaseClear(c) PROVE Goal
  BY <1>20 DEF ReleaseClear, Goto
<1>21. ASSUME NEW c \in Client, SecondReply(c) PROVE Goal
  BY <1>21 DEF SecondReply, Goto
<1>22. ASSUME NEW c \in Client, WatchStopped(c) PROVE Goal
  BY <1>22 DEF WatchStopped, Goto, GotoWatch
<1>23. ASSUME NEW c \in Client, WatchRead(c) PROVE Goal
  BY <1>23 DEF WatchRead, Goto, GotoWatch
<1>24. ASSUME NEW c \in Client, WatchRemove(c) PROVE Goal
  BY <1>24 DEF WatchRemove, Goto, GotoWatch
<1>25. ASSUME NEW c \in Client, WatchCheck(c) PROVE Goal
  BY <1>25 DEF WatchCheck, Goto, GotoWatch
<1>26. ASSUME NEW c \in Client, WatchDelete(c) PROVE Goal
  BY <1>26 DEF WatchDelete, Goto, GotoWatch, deleteIfEmpty
<1>27. ASSUME NEW c \in Client, WatchFinish(c) PROVE Goal
  BY <1>27 DEF WatchFinish, Goto, GotoWatch
<1>28. ASSUME NEW c \in Client, WatchAbort(c) PROVE Goal
  BY <1>28 DEF WatchAbort, Goto, GotoWatch
<1>29. ASSUME NEW c \in Client, AcceptInbound(c) PROVE Goal
  BY <1>29 DEF AcceptInbound, Goto
<1>30. ASSUME NEW c \in Client, RelayEnds(c) PROVE Goal
  BY <1>30 DEF RelayEnds, Goto
<1>31. ASSUME NEW c \in Client, ClientSends(c) PROVE Goal
  BY <1>31 DEF ClientSends, Goto
<1>32. ASSUME NEW c \in Client, ClientCloses(c) PROVE Goal
  BY <1>32 DEF ClientCloses, Goto
<1>33. ASSUME UNCHANGED vars PROVE Goal
  BY <1>33
<1> QED
  BY <1>1, <1>2, <1>3, <1>4, <1>5, <1>6, <1>7, <1>8, <1>9, <1>10, <1>11, <1>12,
     <1>13, <1>14, <1>15, <1>16, <1>17, <1>18, <1>19, <1>20, <1>21, <1>22,
     <1>23, <1>24, <1>25, <1>26, <1>27, <1>28, <1>29, <1>30, <1>31, <1>32, <1>33
     DEF Next, Session, Acquire, Forward, Release, Watcher, Environment, Terminated

\* No step queues a waiter twice.
LEMMA DistinctStep ==
  ASSUME IInv, [Next]_vars, NEW f \in Queue
  PROVE  Distinct(waiters'[f])
<1> DEFINE Goal == Distinct(waiters'[f])
<1>0. Distinct(waiters[f])
  BY DEF IInv, QueuedOnce, Distinct
<1>same. ASSUME waiters' = waiters PROVE Goal
  BY <1>0, <1>same
<1>1. ASSUME NEW c \in Client, Start(c) PROVE Goal
  BY <1>same, <1>1 DEF Start, sharedVars
<1>2. ASSUME NEW c \in Client, GetQueue(c) PROVE Goal
  BY <1>same, <1>2, LookupQueued DEF GetQueue
<1>3. ASSUME NEW c \in Client, AcquireListen(c) PROVE Goal
  BY <1>same, <1>3 DEF AcquireListen, sharedVars
<1>4. ASSUME NEW c \in Client, AcquireFail(c) PROVE Goal
  BY <1>same, <1>4 DEF AcquireFail, sharedVars
<1>5. ASSUME NEW c \in Client, AcquireQueue(c) PROVE Goal
  BY <1>same, <1>5, AppendQueued
<1>6. ASSUME NEW c \in Client, WaitNotified(c) PROVE Goal
  BY <1>same, <1>6 DEF WaitNotified, sharedVars
<1>7. ASSUME NEW c \in Client, WaitCanceled(c) PROVE Goal
  BY <1>same, <1>7 DEF WaitCanceled, sharedVars
<1>8. ASSUME NEW c \in Client, RecvSlot(c) PROVE Goal
  BY <1>same, <1>8 DEF RecvSlot, sharedVars
<1>9. ASSUME NEW c \in Client, JoinWatcher(c) PROVE Goal
  BY <1>same, <1>9 DEF JoinWatcher, sharedVars
<1>10. ASSUME NEW c \in Client, ForwardPop(c) PROVE Goal
  BY <1>same, <1>10, PopQueued
<1>11. ASSUME NEW c \in Client, ForwardSend(c) PROVE Goal
  BY <1>same, <1>11 DEF ForwardSend, sharedVars
<1>12. ASSUME NEW c \in Client, ForwardNone(c) PROVE Goal
  BY <1>same, <1>12 DEF ForwardNone, sharedVars
<1>13. ASSUME NEW c \in Client, CheckEmpty(c) PROVE Goal
  BY <1>same, <1>13 DEF CheckEmpty, sharedVars
<1>14. ASSUME NEW c \in Client, DeleteQueue(c) PROVE Goal
  BY <1>same, <1>14 DEF DeleteQueue, sharedVars, deleteIfEmpty
<1>15. ASSUME NEW c \in Client, FirstReply(c) PROVE Goal
  BY <1>same, <1>15 DEF FirstReply, sharedVars
<1>16. ASSUME NEW c \in Client, AcceptError(c) PROVE Goal
  BY <1>same, <1>16 DEF AcceptError, sharedVars
<1>17. ASSUME NEW c \in Client, JoinControl(c) PROVE Goal
  BY <1>same, <1>17 DEF JoinControl, sharedVars
<1>18. ASSUME NEW c \in Client, CloseListener(c) PROVE Goal
  BY <1>same, <1>18 DEF CloseListener, sharedVars
<1>19. ASSUME NEW c \in Client, ReleaseGet(c) PROVE Goal
  BY <1>same, <1>19, LookupQueued DEF ReleaseGet
<1>20. ASSUME NEW c \in Client, ReleaseClear(c) PROVE Goal
  BY <1>same, <1>20 DEF ReleaseClear, sharedVars
<1>21. ASSUME NEW c \in Client, SecondReply(c) PROVE Goal
  BY <1>same, <1>21 DEF SecondReply, sharedVars
<1>22. ASSUME NEW c \in Client, WatchStopped(c) PROVE Goal
  BY <1>same, <1>22 DEF WatchStopped, sharedVars
<1>23. ASSUME NEW c \in Client, WatchRead(c) PROVE Goal
  BY <1>same, <1>23 DEF WatchRead, sharedVars
<1>24. ASSUME NEW c \in Client, WatchRemove(c) PROVE Goal
  BY <1>same, <1>24, RemoveQueued
<1>25. ASSUME NEW c \in Client, WatchCheck(c) PROVE Goal
  BY <1>same, <1>25 DEF WatchCheck, sharedVars
<1>26. ASSUME NEW c \in Client, WatchDelete(c) PROVE Goal
  BY <1>same, <1>26 DEF WatchDelete, sharedVars, deleteIfEmpty
<1>27. ASSUME NEW c \in Client, WatchFinish(c) PROVE Goal
  BY <1>same, <1>27 DEF WatchFinish, sharedVars
<1>28. ASSUME NEW c \in Client, WatchAbort(c) PROVE Goal
  BY <1>same, <1>28 DEF WatchAbort, sharedVars
<1>29. ASSUME NEW c \in Client, AcceptInbound(c) PROVE Goal
  BY <1>same, <1>29 DEF AcceptInbound, sharedVars
<1>30. ASSUME NEW c \in Client, RelayEnds(c) PROVE Goal
  BY <1>same, <1>30 DEF RelayEnds, sharedVars
<1>31. ASSUME NEW c \in Client, ClientSends(c) PROVE Goal
  BY <1>same, <1>31 DEF ClientSends, sharedVars
<1>32. ASSUME NEW c \in Client, ClientCloses(c) PROVE Goal
  BY <1>same, <1>32 DEF ClientCloses, sharedVars
<1>33. ASSUME UNCHANGED vars PROVE Goal
  BY <1>same, <1>33 DEF vars
<1> QED
  BY <1>1, <1>2, <1>3, <1>4, <1>5, <1>6, <1>7, <1>8, <1>9, <1>10, <1>11, <1>12,
     <1>13, <1>14, <1>15, <1>16, <1>17, <1>18, <1>19, <1>20, <1>21, <1>22,
     <1>23, <1>24, <1>25, <1>26, <1>27, <1>28, <1>29, <1>30, <1>31, <1>32, <1>33
     DEF Next, Session, Acquire, Forward, Release, Watcher, Environment, Terminated

\* Every step preserves QueuedOnce.
LEMMA QueuedStep ==
  ASSUME IInv, [Next]_vars
  PROVE  QueuedOnce'
<1>1. ASSUME NEW f \in Queue, NEW d \in Client, Queued(d, f)'
      PROVE  pc'[d] = "wait" /\ q'[d] = f /\ ~popped'[d] /\ notify'[d] = 0
  <2>1. CASE Queued(d, f)
    BY <1>1, <2>1, StaysQueued
  <2>2. CASE AcquireQueue(d) /\ f = q[d]
    BY <2>2 DEF AcquireQueue, Goto, IInv, TypeOK
  <2> QED BY <1>1, <2>1, <2>2, StepQueued
<1>2. ASSUME NEW f \in Queue PROVE Distinct(waiters'[f])
  BY DistinctStep
<1> QED BY <1>1, <1>2 DEF QueuedOnce, Distinct, Queued
\* OneHandoff does not depend on sessions that neither wait nor send.
LEMMA HandoffFrame ==
  ASSUME IInv, NEW c \in Client, NEW l \in Label \ {"wait", "recv", "send"},
         pc[c] \notin {"wait", "recv", "send"}, pc' = [pc EXCEPT ![c] = l],
         UNCHANGED <<target, popped, notify>>
  PROVE  OneHandoff'
BY DEF IInv, TypeOK, OneHandoff, Expecting

\* Every step preserves OneHandoff.
LEMMA HandoffStep ==
  ASSUME IInv, [Next]_vars
  PROVE  OneHandoff'
<1> USE DEF IInv, TypeOK, Label, OneHandoff, Expecting, vars, sharedVars, waiterVars, watchVars
<1>1. ASSUME NEW c \in Client, Start(c) PROVE OneHandoff'
  <2>1. CASE Goto(c, "get")
    BY <1>1, <2>1, HandoffFrame DEF Start, Goto
  <2>2. CASE Goto(c, "over")
    BY <1>1, <2>2, HandoffFrame DEF Start, Goto
  <2> QED BY <1>1, <2>1, <2>2 DEF Start
<1>2. ASSUME NEW c \in Client, GetQueue(c) PROVE OneHandoff'
  BY <1>2, LookupFacts DEF GetQueue, Goto
<1>3. ASSUME NEW c \in Client, AcquireListen(c) PROVE OneHandoff'
  BY <1>3 DEF AcquireListen, Goto, Stray
<1>4. ASSUME NEW c \in Client, AcquireFail(c) PROVE OneHandoff'
  BY <1>4 DEF AcquireFail, Goto, Stray
<1>5. ASSUME NEW c \in Client, AcquireQueue(c) PROVE OneHandoff'
  BY <1>5 DEF AcquireQueue, Goto, GotoWatch, Stray
<1>6. ASSUME NEW c \in Client, WaitNotified(c) PROVE OneHandoff'
  BY <1>6 DEF WaitNotified, Goto
<1>7. ASSUME NEW c \in Client, WaitCanceled(c) PROVE OneHandoff'
  <2>1. CASE popped[c]
    <3>1. /\ pc[c] = "wait" /\ pc' = [pc EXCEPT ![c] = "recv"]
          /\ UNCHANGED <<target, popped, notify>>
      BY <1>7, <2>1 DEF WaitCanceled, Goto, dropWaiter
    <3>2. \A d \in Client : Expecting(d)' <=> Expecting(d)
      BY <3>1
    <3>3. \A d \in Client : pc'[d] = "send" <=> pc[d] = "send"
      BY <3>1
    <3> QED BY <3>1, <3>2, <3>3
  <2>2. CASE ~popped[c]
    <3>1. notify[c] = 0 /\ \A d \in Client : pc[d] = "send" => target[d] # c
      BY <2>2
    <3> QED BY <1>7, <2>2, <3>1 DEF WaitCanceled, Goto, dropWaiter
  <2> QED BY <2>1, <2>2
<1>8. ASSUME NEW c \in Client, RecvSlot(c) PROVE OneHandoff'
  BY <1>8 DEF RecvSlot, Goto, dropWaiter
<1>9. ASSUME NEW c \in Client, JoinWatcher(c) PROVE OneHandoff'
  BY <1>9 DEF JoinWatcher, Goto, dropWaiter
<1>10. ASSUME NEW c \in Client, ForwardPop(c) PROVE OneHandoff'
  <2> DEFINE w == Head(waiters[q[c]])
  <2>1. /\ w \in Client /\ pc[w] = "wait" /\ ~popped[w] /\ notify[w] = 0
        /\ pc[c] = "fwd" /\ pc' = [pc EXCEPT ![c] = "send"]
        /\ target' = [target EXCEPT ![c] = w]
        /\ popped' = [popped EXCEPT ![w] = TRUE]
        /\ notify' = notify
    BY <1>10, PopQueued DEF ForwardPop, Goto
  <2> HIDE DEF w
  <2>2. \A d \in Client : pc[d] = "send" => target[d] # w
    BY <2>1
  <2> QED BY <2>1, <2>2
<1>11. ASSUME NEW c \in Client, ForwardSend(c) PROVE OneHandoff'
  <2> DEFINE w == target[c]
  <2>1. /\ w \in Client /\ pc[w] \in {"wait", "recv"} /\ popped[w] /\ notify[w] = 0
        /\ pc[c] = "send" /\ pc' = [pc EXCEPT ![c] = after[c]]
        /\ target' = [target EXCEPT ![c] = c]
        /\ notify' = [notify EXCEPT ![w] = 1]
        /\ popped' = popped
    BY <1>11 DEF ForwardSend, Return, Goto
  <2>2. after[c] \in {"over", "reply2", "refused", "failed"}
    BY DEF PcInv
  <2>3. \A d \in Client : pc[d] = "send" /\ d # c => target[d] # w
    BY <2>1
  <2> HIDE DEF w
  <2> QED BY <2>1, <2>2, <2>3
<1>12. ASSUME NEW c \in Client, ForwardNone(c) PROVE OneHandoff'
  BY <1>12 DEF ForwardNone, Goto
<1>13. ASSUME NEW c \in Client, CheckEmpty(c) PROVE OneHandoff'
  <2>1. CASE Goto(c, "delete")
    BY <1>13, <2>1, HandoffFrame DEF CheckEmpty, Goto
  <2>2. CASE Goto(c, after[c])
    <3>1. after[c] \in Label \ {"wait", "recv", "send"}
      BY DEF PcInv
    <3> QED BY <1>13, <2>2, <3>1, HandoffFrame DEF CheckEmpty, Goto
  <2> QED BY <1>13, <2>1, <2>2 DEF CheckEmpty, Return
<1>14. ASSUME NEW c \in Client, DeleteQueue(c) PROVE OneHandoff'
  <2>1. after[c] \in Label \ {"wait", "recv", "send"}
    BY DEF PcInv
  <2> QED BY <1>14, <2>1, HandoffFrame DEF DeleteQueue, Return, Goto
<1>15. ASSUME NEW c \in Client, FirstReply(c) PROVE OneHandoff'
  <2>1. CASE Goto(c, "accept")
    BY <1>15, <2>1, HandoffFrame DEF FirstReply, Goto
  <2>2. CASE Goto(c, "close")
    BY <1>15, <2>2, HandoffFrame DEF FirstReply, Goto
  <2> QED BY <1>15, <2>1, <2>2 DEF FirstReply
<1>16. ASSUME NEW c \in Client, AcceptError(c) PROVE OneHandoff'
  BY <1>16 DEF AcceptError, Goto
<1>17. ASSUME NEW c \in Client, JoinControl(c) PROVE OneHandoff'
  BY <1>17 DEF JoinControl, Goto
<1>18. ASSUME NEW c \in Client, CloseListener(c) PROVE OneHandoff'
  BY <1>18 DEF CloseListener, Goto
<1>19. ASSUME NEW c \in Client, ReleaseGet(c) PROVE OneHandoff'
  BY <1>19, LookupFacts DEF ReleaseGet, Goto
<1>20. ASSUME NEW c \in Client, ReleaseClear(c) PROVE OneHandoff'
  BY <1>20 DEF ReleaseClear, Goto
<1>21. ASSUME NEW c \in Client, SecondReply(c) PROVE OneHandoff'
  <2>1. CASE Goto(c, "relay")
    BY <1>21, <2>1, HandoffFrame DEF SecondReply, Goto
  <2>2. CASE Goto(c, "over")
    BY <1>21, <2>2, HandoffFrame DEF SecondReply, Goto
  <2> QED BY <1>21, <2>1, <2>2 DEF SecondReply
<1>22. ASSUME NEW c \in Client, WatchStopped(c) PROVE OneHandoff'
  BY <1>22 DEF WatchStopped, Goto, GotoWatch
<1>23. ASSUME NEW c \in Client, WatchRead(c) PROVE OneHandoff'
  BY <1>23 DEF WatchRead, Goto, GotoWatch
<1>24. ASSUME NEW c \in Client, WatchRemove(c) PROVE OneHandoff'
  BY <1>24 DEF WatchRemove, Goto, GotoWatch
<1>25. ASSUME NEW c \in Client, WatchCheck(c) PROVE OneHandoff'
  BY <1>25 DEF WatchCheck, Goto, GotoWatch
<1>26. ASSUME NEW c \in Client, WatchDelete(c) PROVE OneHandoff'
  BY <1>26 DEF WatchDelete, Goto, GotoWatch, deleteIfEmpty
<1>27. ASSUME NEW c \in Client, WatchFinish(c) PROVE OneHandoff'
  BY <1>27 DEF WatchFinish, Goto, GotoWatch
<1>28. ASSUME NEW c \in Client, WatchAbort(c) PROVE OneHandoff'
  BY <1>28 DEF WatchAbort, Goto, GotoWatch
<1>29. ASSUME NEW c \in Client, AcceptInbound(c) PROVE OneHandoff'
  BY <1>29 DEF AcceptInbound, Goto
<1>30. ASSUME NEW c \in Client, RelayEnds(c) PROVE OneHandoff'
  BY <1>30 DEF RelayEnds, Goto
<1>31. ASSUME NEW c \in Client, ClientSends(c) PROVE OneHandoff'
  BY <1>31 DEF ClientSends, Goto
<1>32. ASSUME NEW c \in Client, ClientCloses(c) PROVE OneHandoff'
  BY <1>32 DEF ClientCloses, Goto
<1>33. ASSUME UNCHANGED vars PROVE OneHandoff'
  BY <1>33
<1> QED
  BY <1>1, <1>2, <1>3, <1>4, <1>5, <1>6, <1>7, <1>8, <1>9, <1>10, <1>11, <1>12,
     <1>13, <1>14, <1>15, <1>16, <1>17, <1>18, <1>19, <1>20, <1>21, <1>22,
     <1>23, <1>24, <1>25, <1>26, <1>27, <1>28, <1>29, <1>30, <1>31, <1>32, <1>33
     DEF Next, Session, Acquire, Forward, Release, Watcher, Environment, Terminated

\* Every step preserves ListeningIsHeld.
LEMMA ListeningStep ==
  ASSUME IInv, [Next]_vars
  PROVE  ListeningIsHeld'
<1> USE DEF IInv, TypeOK, Label, PcInv, HasQueue, ListeningIsHeld, Holding, vars, sharedVars, waiterVars, watchVars
<1>1. ASSUME NEW c \in Client, Start(c) PROVE ListeningIsHeld'
  BY <1>1 DEF Start, Goto
<1>2. ASSUME NEW c \in Client, GetQueue(c) PROVE ListeningIsHeld'
  BY <1>2, LookupFacts DEF GetQueue, Goto
<1>3. ASSUME NEW c \in Client, AcquireListen(c) PROVE ListeningIsHeld'
  BY <1>3 DEF AcquireListen, Goto, Stray
<1>4. ASSUME NEW c \in Client, AcquireFail(c) PROVE ListeningIsHeld'
  BY <1>4 DEF AcquireFail, Goto, Stray
<1>5. ASSUME NEW c \in Client, AcquireQueue(c) PROVE ListeningIsHeld'
  BY <1>5 DEF AcquireQueue, Goto, GotoWatch, Stray
<1>6. ASSUME NEW c \in Client, WaitNotified(c) PROVE ListeningIsHeld'
  BY <1>6 DEF WaitNotified, Goto
<1>7. ASSUME NEW c \in Client, WaitCanceled(c) PROVE ListeningIsHeld'
  BY <1>7 DEF WaitCanceled, Goto, dropWaiter
<1>8. ASSUME NEW c \in Client, RecvSlot(c) PROVE ListeningIsHeld'
  BY <1>8 DEF RecvSlot, Goto, dropWaiter
<1>9. ASSUME NEW c \in Client, JoinWatcher(c) PROVE ListeningIsHeld'
  BY <1>9 DEF JoinWatcher, Goto, dropWaiter
<1>10. ASSUME NEW c \in Client, ForwardPop(c) PROVE ListeningIsHeld'
  BY <1>10, PopQueued DEF ForwardPop, Goto
<1>11. ASSUME NEW c \in Client, ForwardSend(c) PROVE ListeningIsHeld'
  BY <1>11 DEF ForwardSend, Goto, Return
<1>12. ASSUME NEW c \in Client, ForwardNone(c) PROVE ListeningIsHeld'
  BY <1>12 DEF ForwardNone, Goto
<1>13. ASSUME NEW c \in Client, CheckEmpty(c) PROVE ListeningIsHeld'
  BY <1>13 DEF CheckEmpty, Goto, Return
<1>14. ASSUME NEW c \in Client, DeleteQueue(c) PROVE ListeningIsHeld'
  BY <1>14 DEF DeleteQueue, Goto, deleteIfEmpty, Return
<1>15. ASSUME NEW c \in Client, FirstReply(c) PROVE ListeningIsHeld'
  BY <1>15 DEF FirstReply, Goto, GotoWatch
<1>16. ASSUME NEW c \in Client, AcceptError(c) PROVE ListeningIsHeld'
  BY <1>16 DEF AcceptError, Goto
<1>17. ASSUME NEW c \in Client, JoinControl(c) PROVE ListeningIsHeld'
  BY <1>17 DEF JoinControl, Goto
<1>18. ASSUME NEW c \in Client, CloseListener(c) PROVE ListeningIsHeld'
  BY <1>18 DEF CloseListener, Goto
<1>19. ASSUME NEW c \in Client, ReleaseGet(c) PROVE ListeningIsHeld'
  BY <1>19, LookupFacts DEF ReleaseGet, Goto
<1>20. ASSUME NEW c \in Client, ReleaseClear(c) PROVE ListeningIsHeld'
  BY <1>20 DEF ReleaseClear, Goto
<1>21. ASSUME NEW c \in Client, SecondReply(c) PROVE ListeningIsHeld'
  BY <1>21 DEF SecondReply, Goto
<1>22. ASSUME NEW c \in Client, WatchStopped(c) PROVE ListeningIsHeld'
  BY <1>22 DEF WatchStopped, Goto, GotoWatch
<1>23. ASSUME NEW c \in Client, WatchRead(c) PROVE ListeningIsHeld'
  BY <1>23 DEF WatchRead, Goto, GotoWatch
<1>24. ASSUME NEW c \in Client, WatchRemove(c) PROVE ListeningIsHeld'
  BY <1>24 DEF WatchRemove, Goto, GotoWatch
<1>25. ASSUME NEW c \in Client, WatchCheck(c) PROVE ListeningIsHeld'
  BY <1>25 DEF WatchCheck, Goto, GotoWatch
<1>26. ASSUME NEW c \in Client, WatchDelete(c) PROVE ListeningIsHeld'
  BY <1>26 DEF WatchDelete, Goto, GotoWatch, deleteIfEmpty
<1>27. ASSUME NEW c \in Client, WatchFinish(c) PROVE ListeningIsHeld'
  BY <1>27 DEF WatchFinish, Goto, GotoWatch
<1>28. ASSUME NEW c \in Client, WatchAbort(c) PROVE ListeningIsHeld'
  BY <1>28 DEF WatchAbort, Goto, GotoWatch
<1>29. ASSUME NEW c \in Client, AcceptInbound(c) PROVE ListeningIsHeld'
  BY <1>29 DEF AcceptInbound, Goto
<1>30. ASSUME NEW c \in Client, RelayEnds(c) PROVE ListeningIsHeld'
  BY <1>30 DEF RelayEnds, Goto
<1>31. ASSUME NEW c \in Client, ClientSends(c) PROVE ListeningIsHeld'
  BY <1>31 DEF ClientSends, Goto
<1>32. ASSUME NEW c \in Client, ClientCloses(c) PROVE ListeningIsHeld'
  BY <1>32 DEF ClientCloses, Goto
<1>33. ASSUME UNCHANGED vars PROVE ListeningIsHeld'
  BY <1>33
<1> QED
  BY <1>1, <1>2, <1>3, <1>4, <1>5, <1>6, <1>7, <1>8, <1>9, <1>10, <1>11, <1>12,
     <1>13, <1>14, <1>15, <1>16, <1>17, <1>18, <1>19, <1>20, <1>21, <1>22,
     <1>23, <1>24, <1>25, <1>26, <1>27, <1>28, <1>29, <1>30, <1>31, <1>32, <1>33
     DEF Next, Session, Acquire, Forward, Release, Watcher, Environment, Terminated
\* Every step preserves BatonInFlight.
LEMMA BatonStep ==
  ASSUME IInv, [Next]_vars
  PROVE  BatonInFlight'
<1> USE DEF IInv, TypeOK, Label, PcInv, HasQueue, BatonInFlight, Baton, Expecting, vars, sharedVars, waiterVars, watchVars
<1>1. ASSUME NEW c \in Client, Start(c) PROVE BatonInFlight'
  BY <1>1 DEF Start, Goto
<1>2. ASSUME NEW c \in Client, GetQueue(c) PROVE BatonInFlight'
  BY <1>2, LookupFacts DEF GetQueue, Goto
<1>3. ASSUME NEW c \in Client, AcquireListen(c) PROVE BatonInFlight'
  BY <1>3 DEF AcquireListen, Goto, Stray
<1>4. ASSUME NEW c \in Client, AcquireFail(c) PROVE BatonInFlight'
  BY <1>4 DEF AcquireFail, Goto, Stray
<1>5. ASSUME NEW c \in Client, AcquireQueue(c) PROVE BatonInFlight'
  BY <1>5 DEF AcquireQueue, Goto, GotoWatch, Stray
<1>6. ASSUME NEW c \in Client, WaitNotified(c) PROVE BatonInFlight'
  BY <1>6 DEF WaitNotified, Goto
<1>7. ASSUME NEW c \in Client, WaitCanceled(c) PROVE BatonInFlight'
  BY <1>7 DEF WaitCanceled, Goto, dropWaiter
<1>8. ASSUME NEW c \in Client, RecvSlot(c) PROVE BatonInFlight'
  BY <1>8 DEF RecvSlot, Goto, dropWaiter
<1>9. ASSUME NEW c \in Client, JoinWatcher(c) PROVE BatonInFlight'
  BY <1>9 DEF JoinWatcher, Goto, dropWaiter
<1>10. ASSUME NEW c \in Client, ForwardPop(c) PROVE BatonInFlight'
  <2>0. PICK w \in Client :
          /\ q[c] \in Queue /\ pc[w] = "wait" /\ q[w] = q[c] /\ ~popped[w]
          /\ waiters' = [waiters EXCEPT ![q[c]] = Tail(@)]
          /\ popped' = [popped EXCEPT ![w] = TRUE]
    BY <1>10, PopQueued DEF ForwardPop
  <2>1. /\ w \in Client /\ q[c] \in Queue /\ pc[w] = "wait" /\ q[w] = q[c] /\ ~popped[w]
        /\ pc[c] = "fwd" /\ pc' = [pc EXCEPT ![c] = "send"]
        /\ popped' = [popped EXCEPT ![w] = TRUE]
        /\ UNCHANGED <<cur, listening, q>>
        /\ \A f \in Queue : f # q[c] => waiters'[f] = waiters[f]
    BY <1>10, <2>0 DEF ForwardPop, Goto
  <2>2. CASE q[c] = cur
    <3>0. pc'[w] = "wait" /\ popped'[w] /\ q'[w] = cur'
      BY <2>1, <2>2
    <3>1. Baton(w)'
      BY <3>0
    <3> QED BY <2>1, <3>1
  <2>3. CASE q[c] # cur
    <3>1. SUFFICES ASSUME cur # None, ~listening[cur], waiters'[cur] # << >>
                   PROVE  \E d \in Client : Baton(d)'
      BY <2>1
    <3>2. waiters[cur] # << >>
      BY <2>1, <2>3, <3>1
    <3>3. PICK d \in Client : Baton(d)
      BY <3>1, <3>2
    <3>4. d # c /\ d # w
      BY <2>1, <2>3, <3>3
    <3> QED BY <2>1, <3>3, <3>4
  <2> QED BY <2>2, <2>3
<1>11. ASSUME NEW c \in Client, ForwardSend(c) PROVE BatonInFlight'
  BY <1>11 DEF ForwardSend, Goto, Return
<1>12. ASSUME NEW c \in Client, ForwardNone(c) PROVE BatonInFlight'
  BY <1>12 DEF ForwardNone, Goto
<1>13. ASSUME NEW c \in Client, CheckEmpty(c) PROVE BatonInFlight'
  BY <1>13 DEF CheckEmpty, Goto, Return
<1>14. ASSUME NEW c \in Client, DeleteQueue(c) PROVE BatonInFlight'
  BY <1>14 DEF DeleteQueue, Goto, deleteIfEmpty, Return
<1>15. ASSUME NEW c \in Client, FirstReply(c) PROVE BatonInFlight'
  BY <1>15 DEF FirstReply, Goto, GotoWatch
<1>16. ASSUME NEW c \in Client, AcceptError(c) PROVE BatonInFlight'
  BY <1>16 DEF AcceptError, Goto
<1>17. ASSUME NEW c \in Client, JoinControl(c) PROVE BatonInFlight'
  BY <1>17 DEF JoinControl, Goto
<1>18. ASSUME NEW c \in Client, CloseListener(c) PROVE BatonInFlight'
  BY <1>18 DEF CloseListener, Goto
<1>19. ASSUME NEW c \in Client, ReleaseGet(c) PROVE BatonInFlight'
  BY <1>19, LookupFacts DEF ReleaseGet, Goto
<1>20. ASSUME NEW c \in Client, ReleaseClear(c) PROVE BatonInFlight'
  BY <1>20 DEF ReleaseClear, Goto
<1>21. ASSUME NEW c \in Client, SecondReply(c) PROVE BatonInFlight'
  BY <1>21 DEF SecondReply, Goto
<1>22. ASSUME NEW c \in Client, WatchStopped(c) PROVE BatonInFlight'
  BY <1>22 DEF WatchStopped, Goto, GotoWatch
<1>23. ASSUME NEW c \in Client, WatchRead(c) PROVE BatonInFlight'
  BY <1>23 DEF WatchRead, Goto, GotoWatch
<1>24. ASSUME NEW c \in Client, WatchRemove(c) PROVE BatonInFlight'
  <2>1. /\ UNCHANGED <<cur, listening, pc, q, popped>>
        /\ \A f \in Queue : waiters'[f] # << >> => waiters[f] # << >>
    BY <1>24, RemoveQueued DEF WatchRemove
  <2>2. \A d \in Client : Baton(d)' <=> Baton(d)
    BY <2>1
  <2> QED BY <2>1, <2>2
<1>25. ASSUME NEW c \in Client, WatchCheck(c) PROVE BatonInFlight'
  BY <1>25 DEF WatchCheck, Goto, GotoWatch
<1>26. ASSUME NEW c \in Client, WatchDelete(c) PROVE BatonInFlight'
  BY <1>26 DEF WatchDelete, Goto, GotoWatch, deleteIfEmpty
<1>27. ASSUME NEW c \in Client, WatchFinish(c) PROVE BatonInFlight'
  BY <1>27 DEF WatchFinish, Goto, GotoWatch
<1>28. ASSUME NEW c \in Client, WatchAbort(c) PROVE BatonInFlight'
  BY <1>28 DEF WatchAbort, Goto, GotoWatch
<1>29. ASSUME NEW c \in Client, AcceptInbound(c) PROVE BatonInFlight'
  BY <1>29 DEF AcceptInbound, Goto
<1>30. ASSUME NEW c \in Client, RelayEnds(c) PROVE BatonInFlight'
  BY <1>30 DEF RelayEnds, Goto
<1>31. ASSUME NEW c \in Client, ClientSends(c) PROVE BatonInFlight'
  BY <1>31 DEF ClientSends, Goto
<1>32. ASSUME NEW c \in Client, ClientCloses(c) PROVE BatonInFlight'
  BY <1>32 DEF ClientCloses, Goto
<1>33. ASSUME UNCHANGED vars PROVE BatonInFlight'
  BY <1>33
<1> QED
  BY <1>1, <1>2, <1>3, <1>4, <1>5, <1>6, <1>7, <1>8, <1>9, <1>10, <1>11, <1>12,
     <1>13, <1>14, <1>15, <1>16, <1>17, <1>18, <1>19, <1>20, <1>21, <1>22,
     <1>23, <1>24, <1>25, <1>26, <1>27, <1>28, <1>29, <1>30, <1>31, <1>32, <1>33
     DEF Next, Session, Acquire, Forward, Release, Watcher, Environment, Terminated

\* Every step preserves Tended: whoever empties the mapped queue looks at it again.
LEMMA TendedStep ==
  ASSUME IInv, [Next]_vars
  PROVE  Tended'
<1> USE DEF IInv, TypeOK, Label, PcInv, HasQueue, Tended, Tends, Empty, Expecting, vars, sharedVars, waiterVars,
            watchVars
<1>1. ASSUME NEW c \in Client, Start(c) PROVE Tended'
  BY <1>1 DEF Start, Goto
<1>2. ASSUME NEW c \in Client, GetQueue(c) PROVE Tended'
  BY <1>2, LookupFacts DEF GetQueue, Goto
<1>3. ASSUME NEW c \in Client, AcquireListen(c) PROVE Tended'
  BY <1>3 DEF AcquireListen, Goto, Stray
<1>4. ASSUME NEW c \in Client, AcquireFail(c) PROVE Tended'
  BY <1>4 DEF AcquireFail, Goto, Stray
<1>5. ASSUME NEW c \in Client, AcquireQueue(c) PROVE Tended'
  BY <1>5 DEF AcquireQueue, Goto, GotoWatch, Stray
<1>6. ASSUME NEW c \in Client, WaitNotified(c) PROVE Tended'
  BY <1>6 DEF WaitNotified, Goto
<1>7. ASSUME NEW c \in Client, WaitCanceled(c) PROVE Tended'
  BY <1>7 DEF WaitCanceled, Goto, dropWaiter
<1>8. ASSUME NEW c \in Client, RecvSlot(c) PROVE Tended'
  BY <1>8 DEF RecvSlot, Goto, dropWaiter
<1>9. ASSUME NEW c \in Client, JoinWatcher(c) PROVE Tended'
  BY <1>9 DEF JoinWatcher, Goto, dropWaiter
<1>10. ASSUME NEW c \in Client, ForwardPop(c) PROVE Tended'
  <2>1. PICK w \in Client :
          /\ q[c] \in Queue /\ pc[w] = "wait" /\ q[w] = q[c] /\ ~popped[w]
          /\ waiters' = [waiters EXCEPT ![q[c]] = Tail(@)]
          /\ popped' = [popped EXCEPT ![w] = TRUE]
    BY <1>10, PopQueued DEF ForwardPop
  <2>2. /\ pc[c] = "fwd" /\ pc' = [pc EXCEPT ![c] = "send"]
        /\ UNCHANGED <<cur, listening, q, watch>>
        /\ \A f \in Queue : f # q[c] => waiters'[f] = waiters[f]
    BY <1>10, <2>1 DEF ForwardPop, Goto
  <2>3. CASE q[c] = cur
    <3>1. pc'[w] = "wait" /\ popped'[w] /\ q'[w] = cur'
      BY <2>1, <2>2, <2>3
    <3>2. Tends(w)'
      BY <3>1
    <3> QED BY <2>1, <3>2
  <2>4. CASE q[c] # cur
    <3>1. SUFFICES ASSUME cur # None, Empty(cur)' PROVE \E d \in Client : Tends(d)'
      BY <2>2
    <3>2. Empty(cur)
      BY <2>2, <2>4, <3>1
    <3>3. PICK d \in Client : Tends(d)
      BY <3>1, <3>2
    <3>4. d # c
      BY <2>2, <2>4, <3>3
    <3>5. Tends(d)'
      BY <2>1, <2>2, <3>3, <3>4
    <3> QED BY <3>5
  <2> QED BY <2>3, <2>4
<1>11. ASSUME NEW c \in Client, ForwardSend(c) PROVE Tended'
  BY <1>11 DEF ForwardSend, Goto, Return
<1>12. ASSUME NEW c \in Client, ForwardNone(c) PROVE Tended'
  BY <1>12 DEF ForwardNone, Goto
<1>13. ASSUME NEW c \in Client, CheckEmpty(c) PROVE Tended'
  BY <1>13 DEF CheckEmpty, Goto, Return
<1>14. ASSUME NEW c \in Client, DeleteQueue(c) PROVE Tended'
  BY <1>14 DEF DeleteQueue, Goto, deleteIfEmpty, Return
<1>15. ASSUME NEW c \in Client, FirstReply(c) PROVE Tended'
  BY <1>15 DEF FirstReply, Goto, GotoWatch
<1>16. ASSUME NEW c \in Client, AcceptError(c) PROVE Tended'
  BY <1>16 DEF AcceptError, Goto
<1>17. ASSUME NEW c \in Client, JoinControl(c) PROVE Tended'
  BY <1>17 DEF JoinControl, Goto
<1>18. ASSUME NEW c \in Client, CloseListener(c) PROVE Tended'
  BY <1>18 DEF CloseListener, Goto
<1>19. ASSUME NEW c \in Client, ReleaseGet(c) PROVE Tended'
  BY <1>19, LookupFacts DEF ReleaseGet, Goto
<1>20. ASSUME NEW c \in Client, ReleaseClear(c) PROVE Tended'
  BY <1>20 DEF ReleaseClear, Goto
<1>21. ASSUME NEW c \in Client, SecondReply(c) PROVE Tended'
  BY <1>21 DEF SecondReply, Goto
<1>22. ASSUME NEW c \in Client, WatchStopped(c) PROVE Tended'
  BY <1>22 DEF WatchStopped, Goto, GotoWatch
<1>23. ASSUME NEW c \in Client, WatchRead(c) PROVE Tended'
  BY <1>23 DEF WatchRead, Goto, GotoWatch
<1>24. ASSUME NEW c \in Client, WatchRemove(c) PROVE Tended'
  <2>1. /\ UNCHANGED <<cur, listening, pc, q, popped>>
        /\ watch' = [watch EXCEPT ![c] = "check"]
        /\ \A f \in Queue : f # q[c] => waiters'[f] = waiters[f]
    BY <1>24 DEF WatchRemove, GotoWatch
  <2>2. \A d \in Client : Tends(d) => Tends(d)'
    BY <2>1, <1>24 DEF WatchRemove
  <2>3. CASE q[c] = cur
    BY <2>1, <2>3
  <2>4. CASE q[c] # cur
    BY <2>1, <2>2, <2>4
  <2> QED BY <2>3, <2>4
<1>25. ASSUME NEW c \in Client, WatchCheck(c) PROVE Tended'
  BY <1>25 DEF WatchCheck, Goto, GotoWatch
<1>26. ASSUME NEW c \in Client, WatchDelete(c) PROVE Tended'
  BY <1>26 DEF WatchDelete, Goto, GotoWatch, deleteIfEmpty
<1>27. ASSUME NEW c \in Client, WatchFinish(c) PROVE Tended'
  BY <1>27 DEF WatchFinish, Goto, GotoWatch
<1>28. ASSUME NEW c \in Client, WatchAbort(c) PROVE Tended'
  BY <1>28 DEF WatchAbort, Goto, GotoWatch
<1>29. ASSUME NEW c \in Client, AcceptInbound(c) PROVE Tended'
  BY <1>29 DEF AcceptInbound, Goto
<1>30. ASSUME NEW c \in Client, RelayEnds(c) PROVE Tended'
  BY <1>30 DEF RelayEnds, Goto
<1>31. ASSUME NEW c \in Client, ClientSends(c) PROVE Tended'
  BY <1>31 DEF ClientSends, Goto
<1>32. ASSUME NEW c \in Client, ClientCloses(c) PROVE Tended'
  BY <1>32 DEF ClientCloses, Goto
<1>33. ASSUME UNCHANGED vars PROVE Tended'
  BY <1>33
<1> QED
  BY <1>1, <1>2, <1>3, <1>4, <1>5, <1>6, <1>7, <1>8, <1>9, <1>10, <1>11, <1>12,
     <1>13, <1>14, <1>15, <1>16, <1>17, <1>18, <1>19, <1>20, <1>21, <1>22,
     <1>23, <1>24, <1>25, <1>26, <1>27, <1>28, <1>29, <1>30, <1>31, <1>32, <1>33
     DEF Next, Session, Acquire, Forward, Release, Watcher, Environment, Terminated

\* Every step preserves SlotInv: while no session has gone through an orphan, whoever
\* has the slot has it of the mapped queue, which is marked, and is alone.
LEMMA SlotStep ==
  ASSUME IInv, [Next]_vars
  PROVE  SlotInv'
<1> USE DEF IInv, TypeOK, Label, PcInv, HasQueue, SlotInv, SoleHolder, SockHeld, RefusedOnlyAfterStray, Holding, PortBusy, vars, sharedVars, waiterVars,
            watchVars
<1>1. ASSUME NEW c \in Client, Start(c) PROVE SlotInv'
  BY <1>1 DEF Start, Goto
<1>2. ASSUME NEW c \in Client, GetQueue(c) PROVE SlotInv'
  BY <1>2, LookupFacts DEF GetQueue, Goto
<1>3. ASSUME NEW c \in Client, AcquireListen(c) PROVE SlotInv'
  <2>1. /\ q[c] \in Queue /\ pc[c] = "lock" /\ ~listening[q[c]]
        /\ listening' = [listening EXCEPT ![q[c]] = TRUE]
        /\ pc' = [pc EXCEPT ![c] = "reply"]
        /\ ~strayed' => ~strayed /\ q[c] = cur
        /\ UNCHANGED <<cur, q, after>>
    BY <1>3 DEF AcquireListen, Goto, Stray
  <2>2. SoleHolder'
    <3>1. SUFFICES ASSUME ~strayed' PROVE (\A d \in Client : Holding(d) =>
             /\ q[d] = cur /\ cur # None /\ listening[cur]
             /\ \A e \in Client : Holding(e) => e = d)'
      OBVIOUS
    <3>2. q[c] = cur /\ ~strayed
      BY <2>1, <3>1
    <3>3. \A d \in Client : ~Holding(d)
      BY <2>1, <3>2
    <3>4. \A d \in Client : Holding(d)' => d = c
      BY <2>1, <3>3
    <3>5. q'[c] = cur' /\ cur' # None /\ listening'[cur']
      BY <2>1, <3>2, QueueAssumption
    <3> HIDE DEF Holding
    <3> QED BY <3>4, <3>5
  <2>3. SockHeld'
    BY <1>3 DEF AcquireListen, Goto
  <2>4. RefusedOnlyAfterStray'
    BY <2>1
  <2> QED BY <2>2, <2>3, <2>4
<1>4. ASSUME NEW c \in Client, AcquireFail(c) PROVE SlotInv'
  BY <1>4 DEF AcquireFail, Goto, Stray
<1>5. ASSUME NEW c \in Client, AcquireQueue(c) PROVE SlotInv'
  BY <1>5 DEF AcquireQueue, Goto, GotoWatch, Stray
<1>6. ASSUME NEW c \in Client, WaitNotified(c) PROVE SlotInv'
  BY <1>6 DEF WaitNotified, Goto
<1>7. ASSUME NEW c \in Client, WaitCanceled(c) PROVE SlotInv'
  <2>1. \A d \in Client : Holding(d)' => Holding(d) /\ q'[d] = q[d]
    BY <1>7 DEF WaitCanceled, Goto, dropWaiter
  <2>2. UNCHANGED <<cur, listening, strayed>>
    BY <1>7 DEF WaitCanceled, Goto, dropWaiter
  <2>3. SoleHolder'
    <3> HIDE DEF Holding
    <3> QED BY <2>1, <2>2
  <2>4. SockHeld'
    BY <1>7 DEF WaitCanceled, Goto, dropWaiter
  <2>5. RefusedOnlyAfterStray'
    BY <1>7 DEF WaitCanceled, Goto, dropWaiter
  <2> QED BY <2>3, <2>4, <2>5
<1>8. ASSUME NEW c \in Client, RecvSlot(c) PROVE SlotInv'
  BY <1>8 DEF RecvSlot, Goto, dropWaiter
<1>9. ASSUME NEW c \in Client, JoinWatcher(c) PROVE SlotInv'
  BY <1>9 DEF JoinWatcher, Goto, dropWaiter
<1>10. ASSUME NEW c \in Client, ForwardPop(c) PROVE SlotInv'
  BY <1>10 DEF ForwardPop, Goto
<1>11. ASSUME NEW c \in Client, ForwardSend(c) PROVE SlotInv'
  <2>1. \A d \in Client : Holding(d)' => Holding(d) /\ q'[d] = q[d]
    BY <1>11 DEF ForwardSend, Goto, Return
  <2>2. UNCHANGED <<cur, listening, strayed>>
    BY <1>11 DEF ForwardSend, Goto, Return
  <2>3. SoleHolder'
    <3> HIDE DEF Holding
    <3> QED BY <2>1, <2>2
  <2>4. SockHeld'
    BY <1>11 DEF ForwardSend, Goto, Return
  <2>5. RefusedOnlyAfterStray'
    BY <1>11 DEF ForwardSend, Goto, Return
  <2> QED BY <2>3, <2>4, <2>5
<1>12. ASSUME NEW c \in Client, ForwardNone(c) PROVE SlotInv'
  BY <1>12 DEF ForwardNone, Goto
<1>13. ASSUME NEW c \in Client, CheckEmpty(c) PROVE SlotInv'
  <2>1. \A d \in Client : Holding(d)' => Holding(d) /\ q'[d] = q[d]
    <3>1. CASE Empty(q[c])
      <4>1. pc' = [pc EXCEPT ![c] = "delete"] /\ q' = q
        BY <1>13, <3>1 DEF CheckEmpty, Goto
      <4> QED BY <4>1
    <3>2. CASE ~Empty(q[c])
      <4>1. pc[c] = "check" /\ pc' = [pc EXCEPT ![c] = after[c]] /\ q' = [q EXCEPT ![c] = None]
        BY <1>13, <3>2 DEF CheckEmpty, Goto, Return
      <4>2. after[c] \in {"over", "reply2", "refused", "failed"}
        OBVIOUS
      <4> QED BY <4>1, <4>2
    <3> QED BY <3>1, <3>2
  <2>2. UNCHANGED <<cur, listening, strayed>>
    BY <1>13 DEF CheckEmpty, Goto, Return
  <2>3. SoleHolder'
    <3> HIDE DEF Holding
    <3> QED BY <2>1, <2>2
  <2>4. SockHeld'
    BY <1>13 DEF CheckEmpty, Goto, Return
  <2>5. RefusedOnlyAfterStray'
    BY <1>13 DEF CheckEmpty, Goto, Return
  <2> QED BY <2>3, <2>4, <2>5
<1>14. ASSUME NEW c \in Client, DeleteQueue(c) PROVE SlotInv'
  <2>1. \A d \in Client : Holding(d)' => Holding(d) /\ q'[d] = q[d]
    BY <1>14 DEF DeleteQueue, Goto, deleteIfEmpty, Return
  <2>2. /\ UNCHANGED <<listening, strayed>>
        /\ cur # None /\ listening[cur] => cur' = cur
    BY <1>14 DEF DeleteQueue, Goto, deleteIfEmpty, Return, Empty
  <2>3. SoleHolder'
    <3> HIDE DEF Holding
    <3> QED BY <2>1, <2>2
  <2>4. SockHeld'
    BY <1>14 DEF DeleteQueue, Goto, deleteIfEmpty, Return
  <2>5. RefusedOnlyAfterStray'
    BY <1>14 DEF DeleteQueue, Goto, deleteIfEmpty, Return
  <2> QED BY <2>3, <2>4, <2>5
<1>15. ASSUME NEW c \in Client, FirstReply(c) PROVE SlotInv'
  <2>1. \A d \in Client : Holding(d)' => Holding(d) /\ q'[d] = q[d]
    BY <1>15 DEF FirstReply, Goto, GotoWatch
  <2>2. UNCHANGED <<cur, listening, strayed>>
    BY <1>15 DEF FirstReply, Goto, GotoWatch
  <2>3. SoleHolder'
    <3> HIDE DEF Holding
    <3> QED BY <2>1, <2>2
  <2>4. SockHeld'
    BY <1>15 DEF FirstReply, Goto, GotoWatch
  <2>5. RefusedOnlyAfterStray'
    BY <1>15 DEF FirstReply, Goto, GotoWatch
  <2> QED BY <2>3, <2>4, <2>5
<1>16. ASSUME NEW c \in Client, AcceptError(c) PROVE SlotInv'
  BY <1>16 DEF AcceptError, Goto
<1>17. ASSUME NEW c \in Client, JoinControl(c) PROVE SlotInv'
  BY <1>17 DEF JoinControl, Goto
<1>18. ASSUME NEW c \in Client, CloseListener(c) PROVE SlotInv'
  BY <1>18 DEF CloseListener, Goto
<1>19. ASSUME NEW c \in Client, ReleaseGet(c) PROVE SlotInv'
  BY <1>19, LookupFacts DEF ReleaseGet, Goto
<1>20. ASSUME NEW c \in Client, ReleaseClear(c) PROVE SlotInv'
  BY <1>20 DEF ReleaseClear, Goto
<1>21. ASSUME NEW c \in Client, SecondReply(c) PROVE SlotInv'
  <2>1. \A d \in Client : Holding(d)' => Holding(d) /\ q'[d] = q[d]
    BY <1>21 DEF SecondReply, Goto
  <2>2. UNCHANGED <<cur, listening, strayed>>
    BY <1>21 DEF SecondReply, Goto
  <2>3. SoleHolder'
    <3> HIDE DEF Holding
    <3> QED BY <2>1, <2>2
  <2>4. SockHeld'
    BY <1>21 DEF SecondReply, Goto
  <2>5. RefusedOnlyAfterStray'
    BY <1>21 DEF SecondReply, Goto
  <2> QED BY <2>3, <2>4, <2>5
<1>22. ASSUME NEW c \in Client, WatchStopped(c) PROVE SlotInv'
  BY <1>22 DEF WatchStopped, Goto, GotoWatch
<1>23. ASSUME NEW c \in Client, WatchRead(c) PROVE SlotInv'
  BY <1>23 DEF WatchRead, Goto, GotoWatch
<1>24. ASSUME NEW c \in Client, WatchRemove(c) PROVE SlotInv'
  BY <1>24 DEF WatchRemove, GotoWatch
<1>25. ASSUME NEW c \in Client, WatchCheck(c) PROVE SlotInv'
  BY <1>25 DEF WatchCheck, Goto, GotoWatch
<1>26. ASSUME NEW c \in Client, WatchDelete(c) PROVE SlotInv'
  <2>1. \A d \in Client : Holding(d)' => Holding(d) /\ q'[d] = q[d]
    BY <1>26 DEF WatchDelete, Goto, GotoWatch, deleteIfEmpty
  <2>2. /\ UNCHANGED <<listening, strayed>>
        /\ cur # None /\ listening[cur] => cur' = cur
    BY <1>26 DEF WatchDelete, Goto, GotoWatch, deleteIfEmpty, Empty
  <2>3. SoleHolder'
    <3> HIDE DEF Holding
    <3> QED BY <2>1, <2>2
  <2>4. SockHeld'
    BY <1>26 DEF WatchDelete, Goto, GotoWatch, deleteIfEmpty
  <2>5. RefusedOnlyAfterStray'
    BY <1>26 DEF WatchDelete, Goto, GotoWatch, deleteIfEmpty
  <2> QED BY <2>3, <2>4, <2>5
<1>27. ASSUME NEW c \in Client, WatchFinish(c) PROVE SlotInv'
  BY <1>27 DEF WatchFinish, Goto, GotoWatch
<1>28. ASSUME NEW c \in Client, WatchAbort(c) PROVE SlotInv'
  BY <1>28 DEF WatchAbort, Goto, GotoWatch
<1>29. ASSUME NEW c \in Client, AcceptInbound(c) PROVE SlotInv'
  BY <1>29 DEF AcceptInbound, Goto
<1>30. ASSUME NEW c \in Client, RelayEnds(c) PROVE SlotInv'
  BY <1>30 DEF RelayEnds, Goto
<1>31. ASSUME NEW c \in Client, ClientSends(c) PROVE SlotInv'
  BY <1>31 DEF ClientSends, Goto
<1>32. ASSUME NEW c \in Client, ClientCloses(c) PROVE SlotInv'
  BY <1>32 DEF ClientCloses, Goto
<1>33. ASSUME UNCHANGED vars PROVE SlotInv'
  BY <1>33
<1> QED
  BY <1>1, <1>2, <1>3, <1>4, <1>5, <1>6, <1>7, <1>8, <1>9, <1>10, <1>11, <1>12,
     <1>13, <1>14, <1>15, <1>16, <1>17, <1>18, <1>19, <1>20, <1>21, <1>22,
     <1>23, <1>24, <1>25, <1>26, <1>27, <1>28, <1>29, <1>30, <1>31, <1>32, <1>33
     DEF Next, Session, Acquire, Forward, Release, Watcher, Environment, Terminated

-----------------------------------------------------------------------------
(* The theorems.                                                           *)

LEMMA InitInv == Init => IInv
<1>1. Init => TypeOK
  <2>1. << >> \in Seq(Client)
    OBVIOUS
  <2>2. ASSUME Init PROVE waiters \in [Queue -> Seq(Client)]
    BY <2>1, <2>2 DEF Init
  <2>3. ASSUME Init PROVE target \in [Client -> Client]
    BY <2>3 DEF Init
  <2>4. ASSUME Init PROVE /\ pc \in [Client -> Label] /\ after \in [Client -> Label]
                          /\ watch \in [Client -> WatchLabel]
                          /\ control \in [Client -> {"open", "early", "spent", "closed"}]
    BY <2>4 DEF Init, Label, WatchLabel
  <2>5. ASSUME Init PROVE /\ cur \in Queue \cup {None} /\ listening \in [Queue -> BOOLEAN]
                          /\ q \in [Client -> Queue \cup {None}]
                          /\ popped \in [Client -> BOOLEAN] /\ notify \in [Client -> {0, 1}]
                          /\ done \in [Client -> BOOLEAN] /\ sock \in [Client -> BOOLEAN]
                          /\ strayed \in BOOLEAN
    BY <2>5 DEF Init
  <2> QED BY <2>2, <2>3, <2>4, <2>5 DEF TypeOK
<1>2. Init => PcInv /\ RemovedInv
  BY DEF Init, PcInv, RemovedInv, Removed, HasQueue
<1>3. Init => QueuedOnce
  BY DEF Init, QueuedOnce, Queued
<1>4. Init => OneHandoff /\ ListeningIsHeld /\ BatonInFlight
  BY DEF Init, OneHandoff, Expecting, ListeningIsHeld, BatonInFlight
<1>5. Init => Tended /\ SlotInv
  BY DEF Init, Tended, SlotInv, SoleHolder, SockHeld, RefusedOnlyAfterStray, Holding
<1> QED BY <1>1, <1>2, <1>3, <1>4, <1>5 DEF IInv

LEMMA StepInv == IInv /\ [Next]_vars => IInv'
BY TypeStep, PcStep, RemovedStep, QueuedStep, HandoffStep, ListeningStep, BatonStep, TendedStep,
   SlotStep DEF IInv

LEMMA Invariance == Spec => []IInv
<1>1. Init => IInv
  BY InitInv
<1>2. IInv /\ [Next]_vars => IInv'
  BY StepInv
<1> QED BY <1>1, <1>2, PTL DEF Spec

\* The bind queue keeps its types.
THEOREM TypeCorrect == Spec => []TypeOK
<1>1. IInv => TypeOK
  BY DEF IInv
<1> QED BY <1>1, Invariance, PTL

\* A waiter stands in one queue, once, and leaves it when it is handed the slot
\* or gives up: forwardBindSlot and removeWaiter never both take it.
THEOREM QueueDiscipline == Spec => []QueuedOnce
<1>1. IInv => QueuedOnce
  BY DEF IInv
<1> QED BY <1>1, Invariance, PTL

\* Each pop is answered by exactly one token: no send of forwardBindSlot ever
\* blocks, and a canceled session that owes the slot onward receives it first.
THEOREM HandoffExact == Spec => []OneHandoff
<1>1. IInv => OneHandoff
  BY DEF IInv
<1> QED BY <1>1, Invariance, PTL

\* No session leaves the mapped queue marked as listening behind it.
THEOREM NoStaleListening == Spec => []ListeningIsHeld
<1>1. IInv => ListeningIsHeld
  BY DEF IInv
<1> QED BY <1>1, Invariance, PTL

\* No wakeup of the mapped queue is lost, with any number of sessions.
THEOREM NoLostWakeup == Spec => []BatonInFlight
<1>1. IInv => BatonInFlight
  BY DEF IInv
<1> QED BY <1>1, Invariance, PTL

\* When every session has ended the map holds no entry for the key: a queue that is
\* not empty has a session that listens or waits, and an empty one is tended.
THEOREM NothingLeaks == Spec => []NoLeak
<1>1. ASSUME IInv, \A c \in Client : Ended(c), cur # None PROVE FALSE
  <2>1. cur \in Queue
    BY <1>1 DEF IInv, TypeOK
  <2>2. ASSUME NEW c \in Client PROVE ~Tends(c) /\ ~Holding(c) /\ pc[c] # "wait"
    BY <1>1 DEF IInv, PcInv, Ended, Tends, Expecting, Holding
  <2>3. CASE listening[cur]
    BY <1>1, <2>2, <2>3 DEF IInv, ListeningIsHeld
  <2>4. CASE waiters[cur] # << >>
    <3>1. waiters[cur][1] \in Client /\ Queued(waiters[cur][1], cur)
      BY <2>1, <2>4, <1>1, TailFacts DEF IInv, TypeOK, Queued
    <3> QED BY <1>1, <2>1, <2>2, <3>1 DEF IInv, QueuedOnce
  <2>5. CASE Empty(cur)
    BY <1>1, <2>2, <2>5 DEF IInv, Tended
  <2> QED BY <2>3, <2>4, <2>5 DEF Empty
<1>2. IInv => NoLeak
  BY <1>1 DEF NoLeak
<1> QED BY <1>2, Invariance, PTL

\* A session that finds the port taken by another one, instead of queueing behind it,
\* shows that some session has acquired through an orphan.
THEOREM RefusalNeedsStray == Spec => []RefusedOnlyAfterStray
<1>1. IInv => RefusedOnlyAfterStray
  BY DEF IInv, SlotInv
<1> QED BY <1>1, Invariance, PTL
==============================================================================
