------------------------------ MODULE BindQueue ------------------------------
(***************************************************************************)
(* The SOCKS5 BIND port queue of src/phantomtcp/socks.go, for one key      *)
(* (network and address).  Every client that asks to BIND the key runs     *)
(* socks5Bind in a goroutine of its own (a session); a session that finds  *)
(* the port taken queues behind the one that listens, with a second        *)
(* goroutine that watches its control connection.                          *)
(*                                                                         *)
(* A critical section under bindPortQueue.mu or bindPortQueuesMu is one    *)
(* action; between two of them anything may happen.  A queue object that   *)
(* has left the map is an "orphan": a session that fetched its pointer     *)
(* before the deletion still locks it, and the model keeps that.           *)
(***************************************************************************)
EXTENDS Naturals, Sequences, SequencesExt

CONSTANTS Client,     \* the sessions: one call of socks5Bind each
          Queue,      \* identities of bindPortQueue objects, reused once unreferenced
          None,       \* no queue object: the key is absent from the map
          FixedPort,  \* TRUE: a given port, which one socket may hold; FALSE: port 0
          OsMayFail   \* TRUE: Listen, Accept may fail for reasons outside the program

ASSUME QueueAssumption == None \notin Queue
ASSUME FlagAssumption == FixedPort \in BOOLEAN /\ OsMayFail \in BOOLEAN

VARIABLES
  cur,        \* bindPortQueues[key], or None
  listening,  \* bindPortQueue.listening, per queue object
  waiters,    \* bindPortQueue.waiters, per queue object
  pc,         \* where each session is
  after,      \* where it goes when forwardBindSlot returns
  q,          \* the queue object its q variable names
  target,     \* the waiter its forwardBindSlot has popped and will notify (else itself)
  popped,     \* bindWaiter.popped of its current waiter
  notify,     \* tokens in bindWaiter.notify (capacity 1)
  done,       \* bindWaiter.done is closed
  watch,      \* where the goroutine watching its control connection is
  control,    \* the control connection as the watcher can read it
  sock,       \* its listening socket is open
  strayed     \* history: some session has acquired through an orphan

vars == <<cur, listening, waiters, pc, after, q, target, popped, notify, done,
          watch, control, sock, strayed>>

sharedVars == <<cur, listening, waiters>>
waiterVars == <<popped, notify, done>>
watchVars  == <<watch, control>>

Goto(c, label) == pc' = [pc EXCEPT ![c] = label]
GotoWatch(c, label) == watch' = [watch EXCEPT ![c] = label]

Init ==
  /\ cur = None
  /\ listening = [f \in Queue |-> FALSE]
  /\ waiters = [f \in Queue |-> << >>]
  /\ pc = [c \in Client |-> "idle"]
  /\ after = [c \in Client |-> "over"]
  /\ q = [c \in Client |-> None]
  /\ target = [c \in Client |-> c]
  /\ popped = [c \in Client |-> FALSE]
  /\ notify = [c \in Client |-> 0]
  /\ done = [c \in Client |-> FALSE]
  /\ watch = [c \in Client |-> "off"]
  /\ control = [c \in Client |-> "open"]
  /\ sock = [c \in Client |-> FALSE]
  /\ strayed = FALSE

-----------------------------------------------------------------------------
(* The map and the queue objects.                                          *)

Empty(f) == ~listening[f] /\ waiters[f] = << >>

\* No variable of the program names f any more: it may be allocated again.
Unreferenced(f) == f # cur /\ \A c \in Client : q[c] # f

\* getBindPortQueue: the mapped object, or a new one put in the map.
getBindPortQueue(c) ==
  \/ /\ cur # None
     /\ q' = [q EXCEPT ![c] = cur]
     /\ UNCHANGED sharedVars
  \/ /\ cur = None
     /\ \E f \in Queue :
          /\ Unreferenced(f)
          /\ cur' = f
          /\ q' = [q EXCEPT ![c] = f]
          /\ listening' = [listening EXCEPT ![f] = FALSE]
          /\ waiters' = [waiters EXCEPT ![f] = << >>]

\* The second half of maybeDeleteBindQueue, under both locks: the map entry
\* goes only if it is still this object, and still empty.
deleteIfEmpty(f) ==
  /\ cur' = IF cur = f /\ Empty(f) THEN None ELSE cur
  /\ UNCHANGED <<listening, waiters>>

-----------------------------------------------------------------------------
(* acquireBindListener.                                                    *)

\* socks5Bind answers a request it cannot serve at once; the others acquire.
Start(c) ==
  /\ pc[c] = "idle"
  /\ \/ Goto(c, "get")
     \/ Goto(c, "over")
  /\ UNCHANGED <<sharedVars, after, q, target, waiterVars, watchVars, sock, strayed>>

GetQueue(c) ==
  /\ pc[c] = "get"
  /\ getBindPortQueue(c)
  /\ Goto(c, "lock")
  /\ UNCHANGED <<after, target, waiterVars, watchVars, sock, strayed>>

PortBusy == FixedPort /\ \E d \in Client : sock[d]

Stray(c) == strayed' = (strayed \/ q[c] # cur)

\* net.Listen succeeds, under q.mu.
AcquireListen(c) ==
  /\ pc[c] = "lock"
  /\ ~listening[q[c]]
  /\ ~PortBusy
  /\ listening' = [listening EXCEPT ![q[c]] = TRUE]
  /\ sock' = [sock EXCEPT ![c] = TRUE]
  /\ Goto(c, "reply")
  /\ Stray(c)
  /\ UNCHANGED <<cur, waiters, after, q, target, waiterVars, watchVars>>

\* Mutant: the flag is set before the error of net.Listen is looked at.
AcquireFailMarked(c) ==
  /\ pc[c] = "lock"
  /\ ~listening[q[c]]
  /\ PortBusy \/ OsMayFail
  /\ listening' = [listening EXCEPT ![q[c]] = TRUE]
  /\ after' = [after EXCEPT ![c] = "failed"]
  /\ Goto(c, "fwd")
  /\ Stray(c)
  /\ UNCHANGED <<cur, waiters, q, target, waiterVars, watchVars, sock>>

\* net.Listen fails, the address being in use or not: the error is answered once the slot has been forwarded.
AcquireFail(c) ==
  /\ pc[c] = "lock"
  /\ ~listening[q[c]]
  /\ \/ PortBusy /\ after' = [after EXCEPT ![c] = "refused"]
     \/ OsMayFail /\ after' = [after EXCEPT ![c] = "failed"]
  /\ Goto(c, "fwd")
  /\ Stray(c)
  /\ UNCHANGED <<sharedVars, q, target, waiterVars, watchVars, sock>>

\* The object says somebody listens: queue a new waiter, start its watcher.
AcquireQueue(c) ==
  /\ pc[c] = "lock"
  /\ listening[q[c]]
  /\ waiters' = [waiters EXCEPT ![q[c]] = Append(@, c)]
  /\ popped' = [popped EXCEPT ![c] = FALSE]
  /\ notify' = [notify EXCEPT ![c] = 0]
  /\ done' = [done EXCEPT ![c] = FALSE]
  /\ GotoWatch(c, "poll")
  /\ Goto(c, "wait")
  /\ Stray(c)
  /\ UNCHANGED <<cur, listening, after, q, target, control, sock>>

\* The waiter is not referenced any more.
dropWaiter(c) ==
  /\ popped' = [popped EXCEPT ![c] = FALSE]
  /\ done' = [done EXCEPT ![c] = FALSE]

\* select, case <-w.notify: the slot was handed over; stop the watcher.
WaitNotified(c) ==
  /\ pc[c] = "wait"
  /\ notify[c] = 1
  /\ notify' = [notify EXCEPT ![c] = 0]
  /\ done' = [done EXCEPT ![c] = TRUE]
  /\ Goto(c, "join")
  /\ UNCHANGED <<sharedVars, after, q, target, popped, watchVars, sock, strayed>>

\* Mutant: a canceled session forgets the slot it was handed.
WaitCanceledKeepsSlot(c) ==
  /\ pc[c] = "wait"
  /\ done[c]
  /\ Goto(c, "over")
  /\ q' = [q EXCEPT ![c] = None]
  /\ UNCHANGED <<sharedVars, after, target, waiterVars, watchVars, sock, strayed>>

\* select, case <-w.done: the client left; give back a slot handed over meanwhile.
WaitCanceled(c) ==
  /\ pc[c] = "wait"
  /\ done[c]
  /\ IF popped[c]
     THEN Goto(c, "recv") /\ UNCHANGED <<q, popped, done>>
     ELSE Goto(c, "over") /\ q' = [q EXCEPT ![c] = None] /\ dropWaiter(c)
  /\ UNCHANGED <<sharedVars, after, target, notify, watchVars, sock, strayed>>

\* <-w.notify: the forwarder that popped this waiter has sent, or will.
RecvSlot(c) ==
  /\ pc[c] = "recv"
  /\ notify[c] = 1
  /\ notify' = [notify EXCEPT ![c] = 0]
  /\ Goto(c, "fwd")
  /\ after' = [after EXCEPT ![c] = "over"]
  /\ dropWaiter(c)
  /\ UNCHANGED <<sharedVars, q, target, watchVars, sock, strayed>>

\* w.wg.Wait(), then the loop starts again from the map.
JoinWatcher(c) ==
  /\ pc[c] = "join"
  /\ watch[c] = "off"
  /\ Goto(c, "get")
  /\ dropWaiter(c)
  /\ UNCHANGED <<sharedVars, after, q, target, notify, watchVars, sock, strayed>>

-----------------------------------------------------------------------------
(* forwardBindSlot and maybeDeleteBindQueue, called by sessions.           *)

\* The caller goes on, and its q variable is gone.
Return(c) ==
  /\ Goto(c, after[c])
  /\ after' = [after EXCEPT ![c] = "over"]
  /\ q' = [q EXCEPT ![c] = None]

\* Mutant: the popped waiter stays at the head of the queue.
ForwardPeek(c) ==
  /\ pc[c] = "fwd"
  /\ ~listening[q[c]]
  /\ waiters[q[c]] # << >>
  /\ target' = [target EXCEPT ![c] = Head(waiters[q[c]])]
  /\ popped' = [popped EXCEPT ![Head(waiters[q[c]])] = TRUE]
  /\ Goto(c, "send")
  /\ UNCHANGED <<sharedVars, after, q, notify, done, watchVars, sock, strayed>>

\* Pop the head of the queue, unless somebody listens.
ForwardPop(c) ==
  /\ pc[c] = "fwd"
  /\ ~listening[q[c]]
  /\ waiters[q[c]] # << >>
  /\ LET w == Head(waiters[q[c]]) IN
       /\ waiters' = [waiters EXCEPT ![q[c]] = Tail(@)]
       /\ target' = [target EXCEPT ![c] = w]
       /\ popped' = [popped EXCEPT ![w] = TRUE]
  /\ Goto(c, "send")
  /\ UNCHANGED <<cur, listening, after, q, notify, done, watchVars, sock, strayed>>

\* w.notify <- struct{}{}, outside the lock.
ForwardSend(c) ==
  /\ pc[c] = "send"
  /\ notify[target[c]] = 0
  /\ notify' = [notify EXCEPT ![target[c]] = 1]
  /\ target' = [target EXCEPT ![c] = c]
  /\ Return(c)
  /\ UNCHANGED <<sharedVars, popped, done, watchVars, sock, strayed>>

\* Mutant: nothing to forward, and no maybeDeleteBindQueue either.
ForwardNoneReturns(c) ==
  /\ pc[c] = "fwd"
  /\ listening[q[c]] \/ waiters[q[c]] = << >>
  /\ Return(c)
  /\ UNCHANGED <<sharedVars, target, waiterVars, watchVars, sock, strayed>>

\* Nobody to forward the slot to, or somebody took it already.
ForwardNone(c) ==
  /\ pc[c] = "fwd"
  /\ listening[q[c]] \/ waiters[q[c]] = << >>
  /\ Goto(c, "check")
  /\ UNCHANGED <<sharedVars, after, q, target, waiterVars, watchVars, sock, strayed>>

\* maybeDeleteBindQueue: a first look under q.mu ...
CheckEmpty(c) ==
  /\ pc[c] = "check"
  /\ IF Empty(q[c]) THEN Goto(c, "delete") /\ UNCHANGED <<after, q>> ELSE Return(c)
  /\ UNCHANGED <<sharedVars, target, waiterVars, watchVars, sock, strayed>>

\* ... and a second one under both locks.
DeleteQueue(c) ==
  /\ pc[c] = "delete"
  /\ deleteIfEmpty(q[c])
  /\ Return(c)
  /\ UNCHANGED <<target, waiterVars, watchVars, sock, strayed>>

-----------------------------------------------------------------------------
(* socks5Bind, from the acquired listener on.                              *)

\* The first reply: written, and the control watcher starts; or not.
FirstReply(c) ==
  /\ pc[c] = "reply"
  /\ \/ /\ Goto(c, "accept")
        /\ GotoWatch(c, "poll")
        /\ UNCHANGED after
     \/ /\ Goto(c, "close")
        /\ after' = [after EXCEPT ![c] = "over"]
        /\ UNCHANGED watch
  /\ UNCHANGED <<sharedVars, q, target, waiterVars, control, sock, strayed>>

\* listener.Accept() returns a connection; ctrlStop is set.
AcceptInbound(c) ==
  /\ pc[c] = "accept"
  /\ sock[c]
  /\ Goto(c, "joinOk")
  /\ UNCHANGED <<sharedVars, after, q, target, waiterVars, watchVars, sock, strayed>>

\* listener.Accept() fails: the watcher has closed the listener, or the system did.
AcceptError(c) ==
  /\ pc[c] = "accept"
  /\ ~sock[c] \/ OsMayFail
  /\ Goto(c, "joinErr")
  /\ UNCHANGED <<sharedVars, after, q, target, waiterVars, watchVars, sock, strayed>>

\* ctrlWg.Wait().
JoinControl(c) ==
  /\ pc[c] \in {"joinOk", "joinErr"}
  /\ watch[c] = "off"
  /\ Goto(c, "close")
  /\ after' = [after EXCEPT ![c] = IF pc[c] = "joinOk" THEN "reply2" ELSE "over"]
  /\ UNCHANGED <<sharedVars, q, target, waiterVars, watchVars, sock, strayed>>

\* Mutant: the slot is released with the listener still open.
CloseListenerNever(c) ==
  /\ pc[c] = "close"
  /\ Goto(c, "release")
  /\ UNCHANGED <<sharedVars, after, q, target, waiterVars, watchVars, sock, strayed>>

\* listener.Close(), before the slot is released.
CloseListener(c) ==
  /\ pc[c] = "close"
  /\ sock' = [sock EXCEPT ![c] = FALSE]
  /\ Goto(c, "release")
  /\ UNCHANGED <<sharedVars, after, q, target, waiterVars, watchVars, strayed>>

\* releaseBindListener looks the queue up again, by key ...
ReleaseGet(c) ==
  /\ pc[c] = "release"
  /\ getBindPortQueue(c)
  /\ Goto(c, "clear")
  /\ UNCHANGED <<after, target, waiterVars, watchVars, sock, strayed>>

\* Mutant: the slot is released without forwarding it.
ReleaseClearOnly(c) ==
  /\ pc[c] = "clear"
  /\ listening' = [listening EXCEPT ![q[c]] = FALSE]
  /\ Goto(c, "check")
  /\ UNCHANGED <<cur, waiters, after, q, target, waiterVars, watchVars, sock, strayed>>

\* ... and clears the flag of whatever object it found.
ReleaseClear(c) ==
  /\ pc[c] = "clear"
  /\ listening' = [listening EXCEPT ![q[c]] = FALSE]
  /\ Goto(c, "fwd")
  /\ UNCHANGED <<cur, waiters, after, q, target, waiterVars, watchVars, sock, strayed>>

\* The second reply, then the relay; or neither.
SecondReply(c) ==
  /\ pc[c] = "reply2"
  /\ Goto(c, "relay") \/ Goto(c, "over")
  /\ UNCHANGED <<sharedVars, after, q, target, waiterVars, watchVars, sock, strayed>>

RelayEnds(c) ==
  /\ pc[c] = "relay"
  /\ Goto(c, "over")
  /\ UNCHANGED <<sharedVars, after, q, target, waiterVars, watchVars, sock, strayed>>

-----------------------------------------------------------------------------
(* watchBindControl.  The queue watcher runs while its session waits for a *)
(* slot, the control watcher while it accepts.                             *)

ForQueue(c) == pc[c] \in {"wait", "join"}
Stopped(c) == IF ForQueue(c) THEN done[c] ELSE pc[c] \in {"joinOk", "joinErr"}

\* The watcher finds its stop condition true between two reads.
WatchStopped(c) ==
  /\ watch[c] = "poll"
  /\ Stopped(c)
  /\ GotoWatch(c, "off")
  /\ UNCHANGED <<sharedVars, pc, after, q, target, waiterVars, control, sock, strayed>>

\* A read returns the end of the stream, or a byte, which is lost; it may have
\* been under way when the stop condition became true.
WatchRead(c) ==
  /\ watch[c] = "poll"
  /\ control[c] \in {"early", "closed"}
  /\ control' = [control EXCEPT ![c] = IF @ = "early" THEN "spent" ELSE @]
  /\ GotoWatch(c, IF ForQueue(c) THEN "remove" ELSE "abort")
  /\ UNCHANGED <<sharedVars, pc, after, q, target, waiterVars, sock, strayed>>

\* abort of the queue watcher: removeWaiter ...
WatchRemove(c) ==
  /\ watch[c] = "remove"
  /\ waiters' = [waiters EXCEPT ![q[c]] = RemoveFirst(@, c)]
  /\ GotoWatch(c, "check")
  /\ UNCHANGED <<cur, listening, pc, after, q, target, waiterVars, control, sock, strayed>>

\* ... which ends in maybeDeleteBindQueue ...
WatchCheck(c) ==
  /\ watch[c] = "check"
  /\ GotoWatch(c, IF Empty(q[c]) THEN "delete" ELSE "finish")
  /\ UNCHANGED <<sharedVars, pc, after, q, target, waiterVars, control, sock, strayed>>

WatchDelete(c) ==
  /\ watch[c] = "delete"
  /\ deleteIfEmpty(q[c])
  /\ GotoWatch(c, "finish")
  /\ UNCHANGED <<pc, after, q, target, waiterVars, control, sock, strayed>>

\* ... then w.finish().
WatchFinish(c) ==
  /\ watch[c] = "finish"
  /\ done' = [done EXCEPT ![c] = TRUE]
  /\ GotoWatch(c, "off")
  /\ UNCHANGED <<sharedVars, pc, after, q, target, popped, notify, control, sock, strayed>>

\* Mutant: abort does not close the listener.
WatchAbortNot(c) ==
  /\ watch[c] = "abort"
  /\ GotoWatch(c, "off")
  /\ UNCHANGED <<sharedVars, pc, after, q, target, waiterVars, control, sock, strayed>>

\* abort of the control watcher: listener.Close().
WatchAbort(c) ==
  /\ watch[c] = "abort"
  /\ sock' = [sock EXCEPT ![c] = FALSE]
  /\ GotoWatch(c, "off")
  /\ UNCHANGED <<sharedVars, pc, after, q, target, waiterVars, control, strayed>>

-----------------------------------------------------------------------------
(* The client: it may send a byte too early (once), and close, as long as  *)
(* its session reads the control connection.                               *)

Ended(c) == pc[c] \in {"over", "refused", "failed"}

ClientSends(c) ==
  /\ control[c] = "open"
  /\ ~Ended(c) /\ pc[c] # "relay"
  /\ control' = [control EXCEPT ![c] = "early"]
  /\ UNCHANGED <<sharedVars, pc, after, q, target, waiterVars, watch, sock, strayed>>

ClientCloses(c) ==
  /\ control[c] \in {"open", "spent"}
  /\ ~Ended(c) /\ pc[c] # "relay"
  /\ control' = [control EXCEPT ![c] = "closed"]
  /\ UNCHANGED <<sharedVars, pc, after, q, target, waiterVars, watch, sock, strayed>>

-----------------------------------------------------------------------------
Acquire(c) ==
  \/ Start(c) \/ GetQueue(c) \/ AcquireListen(c) \/ AcquireFail(c) \/ AcquireQueue(c)
  \/ WaitNotified(c) \/ WaitCanceled(c) \/ RecvSlot(c) \/ JoinWatcher(c)

Forward(c) ==
  \/ ForwardPop(c) \/ ForwardSend(c) \/ ForwardNone(c)
  \/ CheckEmpty(c) \/ DeleteQueue(c)

Release(c) ==
  \/ FirstReply(c) \/ AcceptError(c) \/ JoinControl(c) \/ CloseListener(c)
  \/ ReleaseGet(c) \/ ReleaseClear(c) \/ SecondReply(c)

Watcher(c) ==
  \/ WatchStopped(c) \/ WatchRead(c) \/ WatchRemove(c) \/ WatchCheck(c)
  \/ WatchDelete(c) \/ WatchFinish(c) \/ WatchAbort(c)

\* What only the network decides: nothing makes it happen.
Environment(c) == AcceptInbound(c) \/ RelayEnds(c) \/ ClientSends(c) \/ ClientCloses(c)

Session(c) == Acquire(c) \/ Forward(c) \/ Release(c)

Terminated == (\A c \in Client : Ended(c)) /\ UNCHANGED vars

Next ==
  \/ \E c \in Client : Session(c) \/ Watcher(c) \/ Environment(c)
  \/ Terminated

Spec == Init /\ [][Next]_vars

\* In Accept with the listener open: nothing makes the call return.
Accepting(c) == pc[c] = "accept" /\ sock[c]

\* The Go scheduler runs every goroutine that can run, and a poll of
\* watchBindControl ends after 200 ms at the latest.
Fairness ==
  \A c \in Client : WF_vars(Session(c) /\ ~Accepting(c)) /\ WF_vars(Watcher(c))

FairSpec == Spec /\ Fairness
-----------------------------------------------------------------------------
(* Types.                                                                  *)

Label == {"idle", "get", "lock", "wait", "recv", "join", "fwd", "send", "check",
          "delete", "reply", "accept", "joinOk", "joinErr", "close", "release",
          "clear", "reply2", "relay", "over", "refused", "failed"}

WatchLabel == {"off", "poll", "remove", "check", "delete", "finish", "abort"}

\* Every variable has its type: the state of the sessions, of their waiters and
\* watchers, and of the queue objects of socks.go.
TypeOK ==
  /\ cur \in Queue \cup {None}
  /\ listening \in [Queue -> BOOLEAN]
  /\ waiters \in [Queue -> Seq(Client)]
  /\ pc \in [Client -> Label]
  /\ after \in [Client -> Label]
  /\ q \in [Client -> Queue \cup {None}]
  /\ target \in [Client -> Client]
  /\ popped \in [Client -> BOOLEAN]
  /\ notify \in [Client -> {0, 1}]
  /\ done \in [Client -> BOOLEAN]
  /\ watch \in [Client -> WatchLabel]
  /\ control \in [Client -> {"open", "early", "spent", "closed"}]
  /\ sock \in [Client -> BOOLEAN]
  /\ strayed \in BOOLEAN

-----------------------------------------------------------------------------
(* Safety.                                                                 *)

\* The sessions that have acquired the listener and not yet given the slot back.
Holding(c) ==
  pc[c] \in {"reply", "accept", "joinOk", "joinErr", "close", "release", "clear"}

Queued(c, f) == \E i \in 1..Len(waiters[f]) : waiters[f][i] = c

\* A waiter stands in one queue, once, and only while its session waits and has
\* not been handed the slot: forwardBindSlot never pops a waiter that has gone,
\* and removeWaiter and the pop never both take it.
QueuedOnce ==
  \A f \in Queue :
    /\ \A c \in Client :
         Queued(c, f) => pc[c] = "wait" /\ q[c] = f /\ ~popped[c] /\ notify[c] = 0
    /\ \A i, j \in 1..Len(waiters[f]) : waiters[f][i] = waiters[f][j] => i = j

\* w waits, and its slot is on the way to it.
Expecting(w) == pc[w] \in {"wait", "recv"} /\ popped[w]

\* Each pop is answered by one token, which somebody waits for: the send of
\* forwardBindSlot finds the channel empty (it never blocks, though no lock
\* protects it), no two sessions notify the same waiter, and the canceled session
\* that receives from notify after reading popped gets its token.
OneHandoff ==
  /\ \A c \in Client :
       pc[c] = "send" =>
         /\ Expecting(target[c])
         /\ notify[target[c]] = 0
         /\ \A d \in Client : pc[d] = "send" /\ target[d] = target[c] => d = c
  /\ \A w \in Client :
       /\ notify[w] = 1 => Expecting(w)
       /\ Expecting(w) =>
            notify[w] = 1 \/ \E c \in Client : pc[c] = "send" /\ target[c] = w

\* The queue in the map is never left marked as listening by a session that is
\* gone: whoever set the flag still holds the slot and, looking the queue up by
\* key again, will clear this very object.
ListeningIsHeld ==
  cur # None /\ listening[cur] =>
    \E c \in Client : Holding(c) /\ q[c] = cur

\* c will listen, wake the next waiter of the mapped queue, or join it.
Baton(c) ==
  \/ pc[c] = "get"
  \/ pc[c] = "join" /\ popped[c]
  \/ pc[c] \in {"lock", "fwd"} /\ q[c] = cur
  \/ Expecting(c) /\ q[c] = cur

\* No lost wakeup: while waiters stand in the mapped queue and nobody listens,
\* some session is on its way to serve them, whatever was cancelled meanwhile.
BatonInFlight ==
  cur # None /\ ~listening[cur] /\ waiters[cur] # << >> => \E c \in Client : Baton(c)

\* When every session has ended the map holds no entry for the key.
NoLeak == (\A c \in Client : Ended(c)) => cur = None

\* A session meets a port taken by another BIND session, instead of queueing
\* behind it, only after some session has acquired through an orphan.
RefusedOnlyAfterStray ==
  ~strayed => \A c \in Client : after[c] # "refused" /\ pc[c] # "refused"

-----------------------------------------------------------------------------
(* Liveness.                                                               *)

\* While no session goes through an orphan, and no listener stays open for ever,
\* nobody waits for ever.
WaiterServed ==
  []~strayed /\ (\A c \in Client : []<>~sock[c])
    => \A c \in Client : (pc[c] = "wait") ~> (pc[c] # "wait")

\* A client that closes its control connection while its session waits or
\* accepts ends that session or gets as far as the relay, orphan or not.
ClosedClientLeaves ==
  \A c \in Client :
    control[c] = "closed" /\ pc[c] # "idle" ~> Ended(c) \/ pc[c] = "relay"
=============================================================================
