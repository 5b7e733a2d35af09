------------------------------ MODULE TProxyUDP ------------------------------
(***************************************************************************)
(* The transparent UDP proxy of src/phantomtcp/udp_linux.go: one goroutine *)
(* reads datagrams and dispatches them (TProxyUDP), each flow has at most  *)
(* one session, with a goroutine that dials and writes upstream (run) and  *)
(* one that relays the replies (relayReplies).  A QUIC Initial may be held *)
(* back (pending) until its ClientHello is complete.                       *)
(*                                                                         *)
(* A critical section is one action; so is every system call.  A session   *)
(* identity is reused once no goroutine names it.                          *)
(***************************************************************************)
EXTENDS Naturals, Sequences, FiniteSets

CONSTANTS Key,          \* flows: source and destination of a datagram
          Session,      \* identities of tproxyUDPSession objects
          None,         \* no session
          UdpKey,       \* flows whose outbound has HINT_UDP
          Http3Key,     \* flows whose outbound has HINT_HTTP3
          ZeroKey,      \* flows whose outbound has HINT_ZERO
          Size,         \* sizes of a datagram
          MaxSessions,  \* tproxyUDPMaxSessions
          MaxPending,   \* tproxyUDPMaxPending: the capacity of upstream
          MaxPendingSize,  \* tproxyUDPMaxPendingSize
          HeldLimit,    \* quicPendingBytes
          DialWorkers,  \* tproxyUDPMaxDialWorkers
          MaxArrivals   \* bound: datagrams that arrive in one behaviour

ASSUME KeyAssumption == Key # {}
ASSUME NoneAssumption == None \notin Session
ASSUME HintAssumption == UdpKey \subseteq Key /\ Http3Key \subseteq Key /\ ZeroKey \subseteq Key
ASSUME LimitAssumption ==
  /\ Size \subseteq Nat
  /\ {MaxSessions, MaxPending, MaxPendingSize, HeldLimit, DialWorkers, MaxArrivals} \subseteq Nat

VARIABLES
  arrived,     \* datagrams read from the client so far
  job,         \* what dispatch is doing with the last one
  sessions,    \* manager.sessions
  pending,     \* manager.pending: << >> or the packets held (<<p>> once created, p a sequence)
  tokens,      \* tokens in manager.dialSem
  skey,        \* session.key
  phase,       \* where run is
  initials,    \* run's initialDatagrams not yet written
  upstream,    \* session.upstream
  hand,        \* the packet run has received from upstream (at most one)
  counted,     \* that packet is still part of queuedSize
  queuedSize,  \* session.queuedSize
  closed,      \* session.closed, and session.done is closed
  sockets,     \* which of localConn, remoteConn are open
  reader,      \* where relayReplies is
  relayError,  \* errors in session.relayError (capacity 1)
  out          \* history: per flow, the datagrams written to its remoteConn

managerVars == <<sessions, pending, tokens>>
queueVars == <<initials, upstream, hand, counted, queuedSize>>
connVars == <<closed, sockets, reader, relayError>>
vars == <<arrived, job, managerVars, skey, phase, queueVars, connVars, out>>

\* A datagram: when it arrived, how long it is, and the packet number of its
\* QUIC Initial (0 when it has none).
Datagram == [n : 1..MaxArrivals, size : Size, pn : {0, 1}]

\* What dispatch tells apart: not a QUIC Initial; an Initial that leaves the
\* ClientHello incomplete; one that completes it; one the collector rejects.
Kind == {"plain", "initial", "hello", "bad"}
IsQUICInitial(kind) == kind # "plain"

Idle == [at |-> "recv"]

Init ==
  /\ arrived = 0
  /\ job = Idle
  /\ sessions = [k \in Key |-> None]
  /\ pending = [k \in Key |-> << >>]
  /\ tokens = 0
  /\ skey = [s \in Session |-> CHOOSE k \in Key : TRUE]
  /\ phase = [s \in Session |-> "free"]
  /\ initials = [s \in Session |-> << >>]
  /\ upstream = [s \in Session |-> << >>]
  /\ hand = [s \in Session |-> << >>]
  /\ counted = [s \in Session |-> FALSE]
  /\ queuedSize = [s \in Session |-> 0]
  /\ closed = [s \in Session |-> TRUE]
  /\ sockets = [s \in Session |-> {}]
  /\ reader = [s \in Session |-> "off"]
  /\ relayError = [s \in Session |-> 0]
  /\ out = [k \in Key |-> << >>]

\* The bytes of datagrams, each known by its datagram and its place in it.
Bytes(seq) == UNION {{i} \X (1..seq[i].size) : i \in DOMAIN seq}

TotalSize(seq) == Cardinality(Bytes(seq))

Goto(s, label) == phase' = [phase EXCEPT ![s] = label]

-----------------------------------------------------------------------------
(* dispatch and what it calls, all in the goroutine of TProxyUDP.          *)

tproxyUDPAllowed(k, kind) == k \in UdpKey \/ (k \in Http3Key /\ IsQUICInitial(kind))

\* len(manager.sessions) + len(manager.pending)
TableSize == Cardinality({k \in Key : sessions[k] # None}) + Cardinality({k \in Key : pending[k] # << >>})

\* No goroutine of the program names s any more.
Unreferenced(s) ==
  /\ phase[s] = "free"
  /\ reader[s] = "off"
  /\ job.at = "enqueue" => job.session # s

Drop == UNCHANGED <<managerVars, skey, phase, queueVars, connVars>>

\* startSession: the session is mapped and its run started.
startSession(k, batch) ==
  IF \/ sessions[k] # None
     \/ Cardinality({x \in Key : sessions[x] # None}) >= MaxSessions
  THEN UNCHANGED <<sessions, skey, phase, queueVars, connVars>>
  ELSE \E s \in Session :
         /\ Unreferenced(s)
         /\ sessions' = [sessions EXCEPT ![k] = s]
         /\ skey' = [skey EXCEPT ![s] = k]
         /\ Goto(s, "sem")
         /\ initials' = [initials EXCEPT ![s] = batch]
         /\ closed' = [closed EXCEPT ![s] = FALSE]
         /\ relayError' = [relayError EXCEPT ![s] = 0]
         /\ UNCHANGED <<upstream, hand, counted, queuedSize, sockets, reader>>

\* The first critical section of dispatch, on a datagram just read.  A session
\* or a pending entry found in its map is used after the lock is released.
Dispatch(k, d, kind) ==
  IF sessions[k] # None
    THEN job' = [at |-> "enqueue", session |-> sessions[k], data |-> d] /\ Drop
  ELSE IF pending[k] # << >>
    THEN job' = [at |-> "continue", key |-> k, data |-> d, kind |-> kind] /\ Drop
  ELSE IF TableSize >= MaxSessions \/ ~tproxyUDPAllowed(k, kind)
    THEN job' = Idle /\ Drop
  ELSE IF k \in Http3Key /\ IsQUICInitial(kind)
    THEN /\ pending' = [pending EXCEPT ![k] = << << >> >>]
         /\ job' = [at |-> "continue", key |-> k, data |-> d, kind |-> kind]
         /\ UNCHANGED <<sessions, tokens, skey, phase, queueVars, connVars>>
  ELSE /\ startSession(k, <<d>>)
       /\ job' = Idle
       /\ UNCHANGED <<pending, tokens>>

Receive ==
  /\ job = Idle
  /\ arrived < MaxArrivals
  /\ arrived' = arrived + 1
  /\ \E k \in Key, kind \in Kind, size \in Size, pn \in {0, 1} :
       /\ pn = 1 => k \in Http3Key /\ kind \in {"initial", "hello"}
       /\ Dispatch(k, [n |-> arrived + 1, size |-> size, pn |-> pn], kind)
  /\ UNCHANGED out

\* enqueue: one critical section, in the dispatching goroutine.
Enqueue ==
  /\ job.at = "enqueue"
  /\ LET s == job.session
         fits == /\ ~closed[s]
                 /\ queuedSize[s] + job.data.size <= MaxPendingSize
                 /\ Len(upstream[s]) < MaxPending
     IN IF fits
        THEN /\ upstream' = [upstream EXCEPT ![s] = Append(@, job.data)]
             /\ queuedSize' = [queuedSize EXCEPT ![s] = @ + job.data.size]
        ELSE UNCHANGED <<upstream, queuedSize>>
  /\ job' = Idle
  /\ UNCHANGED <<arrived, managerVars, skey, phase, initials, hand, counted, connVars, out>>

Before(d, e) == d.pn < e.pn \/ (d.pn = e.pn /\ d.n < e.n)

\* datagrams: sorted by packet number, stably (in order of arrival).
datagrams(packets) ==
  LET place(i) == Cardinality({j \in DOMAIN packets : Before(packets[j], packets[i])}) + 1
  IN [r \in DOMAIN packets |-> packets[CHOOSE i \in DOMAIN packets : place(i) = r]]

Forget(k) == pending' = [pending EXCEPT ![k] = << >>]

\* The pending entry is given up: it expired, the collector rejects the
\* datagram (an Initial it cannot read, or no Initial at all), or too much is held.
ContinueGiveUp ==
  /\ job.at = "continue"
  /\ LET held == pending[job.key][1]
     IN \/ held # << >>                                  \* expired; a fresh one cannot be
        \/ job.kind \in {"plain", "bad"}
        \/ TotalSize(held) + job.data.size > HeldLimit
  /\ Forget(job.key)
  /\ job' = Idle
  /\ UNCHANGED <<arrived, sessions, tokens, skey, phase, queueVars, connVars, out>>

\* The rest of continuePending when it does not give up.
Held == Append(pending[job.key][1], job.data)

ContinueHold ==
  /\ job.at = "continue"
  /\ job.kind = "initial"
  /\ TotalSize(Held) <= HeldLimit
  /\ pending' = [pending EXCEPT ![job.key] = <<Held>>]
  /\ job' = Idle
  /\ UNCHANGED <<arrived, sessions, tokens, skey, phase, queueVars, connVars, out>>

ContinueStart ==
  /\ job.at = "continue"
  /\ job.kind = "hello"
  /\ TotalSize(Held) <= HeldLimit
  /\ Forget(job.key)
  /\ startSession(job.key, datagrams(Held))
  /\ job' = Idle
  /\ UNCHANGED <<arrived, tokens, out>>

-----------------------------------------------------------------------------
(* run, up to its main loop.                                               *)

idle == <<arrived, job, sessions, pending, skey>>

Acquire(s) ==
  /\ phase[s] = "sem"
  /\ tokens < DialWorkers
  /\ tokens' = tokens + 1
  /\ Goto(s, "dialLocal")
  /\ UNCHANGED <<idle, queueVars, connVars, out>>

\* The setup timer fires first.
AcquireTimeout(s) ==
  /\ phase[s] = "sem"
  /\ Goto(s, "close")
  /\ UNCHANGED <<idle, tokens, queueVars, connVars, out>>

DialLocal(s) ==
  /\ phase[s] = "dialLocal"
  /\ sockets' = [sockets EXCEPT ![s] = @ \cup {"local"}]
  /\ Goto(s, "dialRemote")
  /\ UNCHANGED <<idle, tokens, queueVars, closed, reader, relayError, out>>

DialRemote(s) ==
  /\ phase[s] = "dialRemote"
  /\ sockets' = [sockets EXCEPT ![s] = @ \cup {"remote"}]
  /\ tokens' = tokens - 1
  /\ Goto(s, IF skey[s] \in ZeroKey THEN "zero" ELSE "initials")
  /\ UNCHANGED <<idle, queueVars, closed, reader, relayError, out>>

\* Either dial fails, the remote one also by its deadline.
DialFail(s) ==
  /\ phase[s] \in {"dialLocal", "dialRemote"}
  /\ tokens' = tokens - 1
  /\ Goto(s, "close")
  /\ UNCHANGED <<idle, queueVars, connVars, out>>

WriteZero(s) ==
  /\ phase[s] = "zero"
  /\ Goto(s, "initials") \/ Goto(s, "close")
  /\ UNCHANGED <<idle, tokens, queueVars, connVars, out>>

Written(s, d) == out' = [out EXCEPT ![skey[s]] = Append(@, d)]

WriteInitial(s) ==
  /\ phase[s] = "initials"
  /\ initials[s] # << >>
  /\ \/ /\ Written(s, Head(initials[s]))
        /\ UNCHANGED phase
     \/ Goto(s, "close") /\ UNCHANGED out
  /\ initials' = [initials EXCEPT ![s] = Tail(@)]
  /\ UNCHANGED <<idle, tokens, upstream, hand, counted, queuedSize, connVars>>

InitialsDone(s) ==
  /\ phase[s] = "initials"
  /\ initials[s] = << >>
  /\ Goto(s, "flush")
  /\ UNCHANGED <<idle, tokens, queueVars, connVars, out>>

\* flushUpstream finds nothing more: the deadline is set and the reader started.
FlushDone(s) ==
  /\ phase[s] = "flush"
  /\ hand[s] = << >> /\ upstream[s] = << >>
  /\ \/ Goto(s, "loop") /\ reader' = [reader EXCEPT ![s] = "read"]
     \/ Goto(s, "close") /\ UNCHANGED reader
  /\ UNCHANGED <<idle, tokens, queueVars, closed, sockets, relayError, out>>

-----------------------------------------------------------------------------
(* The upstream half of a session: flushUpstream and the loop of run.      *)

\* Mutant: packets of the channel go out while Initials are still to be written.
TakeEarly(s) ==
  /\ phase[s] \in {"initials", "flush", "loop"}
  /\ hand[s] = << >> /\ upstream[s] # << >>
  /\ hand' = [hand EXCEPT ![s] = <<Head(upstream[s])>>]
  /\ upstream' = [upstream EXCEPT ![s] = Tail(@)]
  /\ counted' = [counted EXCEPT ![s] = TRUE]
  /\ UNCHANGED <<idle, tokens, phase, initials, queuedSize, connVars, out>>

Take(s) ==
  /\ phase[s] \in {"flush", "loop"}
  /\ hand[s] = << >> /\ upstream[s] # << >>
  /\ hand' = [hand EXCEPT ![s] = <<Head(upstream[s])>>]
  /\ upstream' = [upstream EXCEPT ![s] = Tail(@)]
  /\ counted' = [counted EXCEPT ![s] = TRUE]
  /\ UNCHANGED <<idle, tokens, phase, initials, queuedSize, connVars, out>>

\* Mutant: what has been taken is not subtracted.
AccountNot(s) ==
  /\ counted[s]
  /\ counted' = [counted EXCEPT ![s] = FALSE]
  /\ UNCHANGED <<idle, tokens, phase, initials, upstream, hand, queuedSize, connVars, out>>

Account(s) ==
  /\ counted[s]
  /\ queuedSize' = [queuedSize EXCEPT ![s] = @ - hand[s][1].size]
  /\ counted' = [counted EXCEPT ![s] = FALSE]
  /\ UNCHANGED <<idle, tokens, phase, initials, upstream, hand, connVars, out>>

\* writeUpstream and refreshDeadline: either may fail, and then run returns.
WriteUpstream(s) ==
  /\ hand[s] # << >> /\ ~counted[s]
  /\ \/ Written(s, hand[s][1]) /\ UNCHANGED phase
     \/ Written(s, hand[s][1]) /\ Goto(s, "close")
     \/ UNCHANGED out /\ Goto(s, "close")
  /\ hand' = [hand EXCEPT ![s] = << >>]
  /\ UNCHANGED <<idle, tokens, initials, upstream, counted, queuedSize, connVars>>

TakeRelayError(s) ==
  /\ phase[s] = "loop"
  /\ hand[s] = << >>
  /\ relayError[s] = 1
  /\ relayError' = [relayError EXCEPT ![s] = 0]
  /\ Goto(s, "close")
  /\ UNCHANGED <<idle, tokens, queueVars, closed, sockets, reader, out>>

-----------------------------------------------------------------------------
(* relayReplies.  A reply changes no state of the model.                   *)

\* Reading, writing to the client or setting the deadline fails; reading
\* surely does once remoteConn is closed.
ReadFails(s) ==
  /\ reader[s] = "read"
  /\ reader' = [reader EXCEPT ![s] = "report"]
  /\ UNCHANGED <<idle, tokens, phase, queueVars, closed, sockets, relayError, out>>

\* Mutant: the error is thrown away.
ReportNothing(s) ==
  /\ reader[s] = "report"
  /\ reader' = [reader EXCEPT ![s] = "off"]
  /\ UNCHANGED <<idle, tokens, phase, queueVars, closed, sockets, relayError, out>>

Report(s) ==
  /\ reader[s] = "report"
  /\ \/ relayError[s] = 0 /\ relayError' = [relayError EXCEPT ![s] = 1]
     \/ closed[s] /\ UNCHANGED relayError
  /\ reader' = [reader EXCEPT ![s] = "off"]
  /\ UNCHANGED <<idle, tokens, phase, queueVars, closed, sockets, out>>

-----------------------------------------------------------------------------
(* remove, deferred by run.                                                *)

\* Mutant: the entry leaves the map, but the session still accepts datagrams.
RemoveCloseLate(s) ==
  /\ phase[s] = "close"
  /\ Goto(s, "unmap")
  /\ UNCHANGED <<idle, tokens, queueVars, connVars, out>>

RemoveClose(s) ==
  /\ phase[s] = "close"
  /\ closed' = [closed EXCEPT ![s] = TRUE]
  /\ Goto(s, "unmap")
  /\ UNCHANGED <<idle, tokens, queueVars, sockets, reader, relayError, out>>

RemoveUnmap(s) ==
  /\ phase[s] = "unmap"
  /\ sessions' = [sessions EXCEPT ![skey[s]] = IF @ = s THEN None ELSE @]
  /\ Goto(s, "disconnect")
  /\ UNCHANGED <<arrived, job, pending, skey, tokens, queueVars, connVars, out>>

\* run has returned: what the object still holds is garbage.
RemoveDisconnect(s) ==
  /\ phase[s] = "disconnect"
  /\ sockets' = [sockets EXCEPT ![s] = {}]
  /\ Goto(s, "free")
  /\ initials' = [initials EXCEPT ![s] = << >>]
  /\ upstream' = [upstream EXCEPT ![s] = << >>]
  /\ queuedSize' = [queuedSize EXCEPT ![s] = 0]
  /\ UNCHANGED <<idle, tokens, hand, counted, closed, reader, relayError, out>>

-----------------------------------------------------------------------------

Run(s) ==
  \/ Acquire(s) \/ AcquireTimeout(s) \/ DialLocal(s) \/ DialRemote(s) \/ DialFail(s)
  \/ WriteZero(s) \/ WriteInitial(s) \/ InitialsDone(s) \/ FlushDone(s)
  \/ Take(s) \/ Account(s) \/ WriteUpstream(s) \/ TakeRelayError(s)
  \/ RemoveClose(s) \/ RemoveUnmap(s) \/ RemoveDisconnect(s)

Relay(s) == ReadFails(s) \/ Report(s)

Dispatcher == Receive \/ Enqueue \/ ContinueGiveUp \/ ContinueHold \/ ContinueStart

\* Every datagram of the bound has arrived and every session has ended.
Quiet ==
  /\ arrived = MaxArrivals
  /\ \A s \in Session : phase[s] = "free" /\ reader[s] = "off"
  /\ UNCHANGED vars

Next == Dispatcher \/ (\E s \in Session : Run(s) \/ Relay(s)) \/ Quiet

Spec == Init /\ [][Next]_vars

\* run and dispatch are goroutines that the scheduler lets run; a reader whose
\* peer is silent meets its idle deadline.
FairSpec ==
  /\ Spec
  /\ WF_vars(Dispatcher)
  /\ \A s \in Session : WF_vars(Run(s)) /\ WF_vars(Relay(s))

-----------------------------------------------------------------------------
(* Properties.                                                             *)

Job ==
  {Idle}
    \cup [at : {"enqueue"}, session : Session, data : Datagram]
    \cup [at : {"continue"}, key : Key, data : Datagram, kind : Kind]

Phase ==
  {"free", "sem", "dialLocal", "dialRemote", "zero", "initials", "flush", "loop",
   "close", "unmap", "disconnect"}

\* The type of every variable: the channel relayError of the code has room for
\* the one error its reader reports, and every queuedSize is within the limit
\* that enqueue applies (udp_linux.go 417-435).
TypeOK ==
  /\ arrived \in 0..MaxArrivals
  /\ job \in Job
  /\ sessions \in [Key -> Session \cup {None}]
  /\ pending \in [Key -> Seq(Seq(Datagram))]
  /\ tokens \in 0..DialWorkers
  /\ skey \in [Session -> Key]
  /\ phase \in [Session -> Phase]
  /\ initials \in [Session -> Seq(Datagram)]
  /\ upstream \in [Session -> Seq(Datagram)]
  /\ hand \in [Session -> {<< >>} \cup {<<d>> : d \in Datagram}]
  /\ counted \in [Session -> BOOLEAN]
  /\ queuedSize \in [Session -> 0..MaxPendingSize]
  /\ closed \in [Session -> BOOLEAN]
  /\ sockets \in [Session -> SUBSET {"local", "remote"}]
  /\ reader \in [Session -> {"off", "read", "report"}]
  /\ relayError \in [Session -> 0..1]
  /\ out \in [Key -> Seq(Datagram)]

\* dialSem holds a token for each run that is dialing, and no more than it has room for.
TokensExact ==
  /\ tokens <= DialWorkers
  /\ tokens = Cardinality({s \in Session : phase[s] \in {"dialLocal", "dialRemote"}})

\* Every variable has its type, and the two counts are exact, on every path:
\* queuedSize is what the channel holds, and the packet run has taken from it
\* and not yet subtracted, though the two sides count under the lock and send and
\* receive at other moments (a drift would starve or flood the queue); and dialSem
\* holds a token for each run that is dialing (a lost one would in the end stop
\* every new session).
CountsExact ==
  /\ TypeOK
  /\ \A s \in Session :
       queuedSize[s] = TotalSize(upstream[s]) + (IF counted[s] THEN hand[s][1].size ELSE 0)
  /\ TokensExact

\* A session that still accepts datagrams is the one mapped for its flow, and
\* no flow has a session and held Initials at once: none is ever unreachable.
\* And together they stay within the limit, whatever comes between the check in
\* dispatch and the insertion by continuePending.
OneHome ==
  /\ \A s \in Session : ~closed[s] => sessions[skey[s]] = s
  /\ \A k \in Key : sessions[k] = None \/ pending[k] = << >>
  /\ TableSize <= MaxSessions

-----------------------------------------------------------------------------
(* The sessions implement a lossy pipe per flow that never reorders or     *)
(* repeats, across the end of one session and the start of the next.       *)

Writing(s) ==
  phase[s] \in {"sem", "dialLocal", "dialRemote", "zero", "initials", "flush", "loop"}

pipe ==
  [k \in Key |->
     LET carrier == {s \in Session : skey[s] = k /\ Writing(s)}
     IN IF carrier = {} THEN << >>
        ELSE LET s == CHOOSE x \in carrier : TRUE
             IN initials[s] \o hand[s] \o upstream[s]]

Flow == INSTANCE UDPFlow WITH pipe <- pipe, out <- out, Key <- Key

\* Datagrams of a flow are written in the order of the pipe, each at most once.
InOrder == Flow!Spec

\* A session, however it goes, ends: it leaves the map, closes both sockets and
\* its reader stops, provided that the two ends of the flow fall silent.
SessionEnds ==
  \A s \in Session :
    phase[s] # "free" ~> phase[s] = "free" /\ sockets[s] = {} /\ reader[s] = "off"
=============================================================================
