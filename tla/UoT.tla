--------------------------------- MODULE UoT ---------------------------------
(***************************************************************************)
(* UDP over TCP, src/phantomtcp/socks.go: one tunnel is one TCP connection *)
(* whose frames carry the datagrams of many flows.  udp_redirect ("main")  *)
(* reads the frames, dials the sessions and writes upstream; each session  *)
(* has a goroutine (runSession) that writes its replies to the tunnel, one *)
(* frame at a time under state.mu.  An error of main closes the tunnel,    *)
(* and the sessions outlive it.                                            *)
(***************************************************************************)
EXTENDS Naturals, FiniteSets

CONSTANTS Key,         \* flows: host and port of a frame's header
          Session,     \* identities of uotSession objects, reused once unreferenced
          None,        \* no session, and nobody
          UdpKey,      \* flows whose outbound has HINT_UDP
          Http3Key,    \* flows whose outbound has HINT_HTTP3
          ZeroKey,     \* flows whose outbound has HINT_ZERO
          PendingLimit \* quicPendingLimit

ASSUME KeyAssumption == Key # {}
ASSUME NoneAssumption == None \notin Session
ASSUME HintAssumption == UdpKey \subseteq Key /\ Http3Key \subseteq Key /\ ZeroKey \subseteq Key
ASSUME LimitAssumption == PendingLimit \in Nat

VARIABLES
  main,      \* what udp_redirect is doing; it ends at "ended", the client closed
  mu,        \* the session that writes a frame under state.mu, or None
  sessions,  \* state.sessions
  pending,   \* state.pending: "none", "fresh" (just created) or "held"
  skey,      \* the key a session was started for
  conn,      \* session.conn: "none", "open" or "closed"
  reader     \* where runSession is

sessionVars == <<skey, conn, reader>>
vars == <<main, mu, sessions, pending, sessionVars>>

Idle == [at |-> "read"]
Ended == [at |-> "ended"]
On(step, s) == [at |-> step, session |-> s]

\* What handleFrame tells apart in a payload: as in TProxyUDP.
Kind == {"plain", "initial", "hello", "bad"}
isQUICInitialDatagram(kind) == kind # "plain"

Init ==
  /\ main = Idle
  /\ mu = None
  /\ sessions = [k \in Key |-> None]
  /\ pending = [k \in Key |-> "none"]
  /\ skey = [s \in Session |-> CHOOSE k \in Key : TRUE]
  /\ conn = [s \in Session |-> "none"]
  /\ reader = [s \in Session |-> "off"]

TableSize ==
  Cardinality({k \in Key : sessions[k] # None}) + Cardinality({k \in Key : pending[k] # "none"})

-----------------------------------------------------------------------------
(* handleFrame, and continuePending.  Only main changes pending and only   *)
(* main adds to sessions, so its critical sections on them are merged.     *)

ReadMapped(k) ==
  /\ main = Idle /\ mu = None
  /\ sessions[k] # None
  /\ main' = On("write", sessions[k])
  /\ UNCHANGED <<mu, sessions, pending, sessionVars>>

\* writeUpstream, after the lock is released: on any error, one of a session
\* that its reader has closed meanwhile included, the tunnel ends.
WriteUpstream ==
  /\ main.at = "write"
  /\ \/ conn[main.session] = "open" /\ main' = Idle
     \/ main' = Ended
  /\ UNCHANGED <<mu, sessions, pending, sessionVars>>

StartOn(k) == main' = [at |-> "start", key |-> k]
ContinueOn(k, kind) == main' = [at |-> "continue", key |-> k, kind |-> kind]

ReadNew(k, kind) ==
  /\ main = Idle /\ mu = None
  /\ sessions[k] = None /\ pending[k] = "none"
  /\ k \in UdpKey \cup Http3Key
  /\ IF k \in Http3Key /\ isQUICInitialDatagram(kind)
     THEN /\ TableSize < PendingLimit
          /\ pending' = [pending EXCEPT ![k] = "fresh"]
          /\ ContinueOn(k, kind)
     ELSE StartOn(k) /\ UNCHANGED pending
  /\ UNCHANGED <<mu, sessions, sessionVars>>

ReadPending(k, kind) ==
  /\ main = Idle /\ mu = None
  /\ sessions[k] = None /\ pending[k] # "none"
  /\ ContinueOn(k, kind)
  /\ UNCHANGED <<mu, sessions, pending, sessionVars>>

Forget(k) == pending' = [pending EXCEPT ![k] = "none"]

\* The entry has expired, or the collector refuses the Initial, or too much is held.
ContinueGiveUp ==
  /\ main.at = "continue" /\ mu = None
  /\ pending[main.key] = "held" \/ main.kind = "bad"
  /\ Forget(main.key)
  /\ main' = Idle
  /\ UNCHANGED <<mu, sessions, sessionVars>>

ContinueWait ==
  /\ main.at = "continue"
  /\ main.kind = "initial"
  /\ pending' = [pending EXCEPT ![main.key] = "held"]
  /\ main' = Idle
  /\ UNCHANGED <<mu, sessions, sessionVars>>

ContinueStart ==
  /\ main.at = "continue" /\ mu = None
  /\ main.kind \in {"hello", "plain"}
  /\ Forget(main.key)
  /\ StartOn(main.key)
  /\ UNCHANGED <<mu, sessions, sessionVars>>

\* The client closes the tunnel or sends a frame that cannot be read.
ReadFrameFails ==
  /\ main = Idle
  /\ main' = Ended
  /\ UNCHANGED <<mu, sessions, pending, sessionVars>>

-----------------------------------------------------------------------------
(* startSession.                                                           *)

Unreferenced(s) == conn[s] # "open" /\ reader[s] = "off" /\ mu # s

\* The checks under the lock: the flow is mapped already, or the table is full.
StartCheck ==
  /\ main.at = "start" /\ mu = None
  /\ main' = IF sessions[main.key] # None \/ TableSize >= PendingLimit
             THEN Idle
             ELSE [main EXCEPT !.at = "dial"]
  /\ UNCHANGED <<mu, sessions, pending, sessionVars>>

DialFails ==
  /\ main.at = "dial"
  /\ main' = Ended
  /\ UNCHANGED <<mu, sessions, pending, sessionVars>>

Dial ==
  /\ main.at = "dial"
  /\ \E s \in Session :
       /\ Unreferenced(s)
       /\ skey' = [skey EXCEPT ![s] = main.key]
       /\ conn' = [conn EXCEPT ![s] = "open"]
       /\ main' = On(IF main.key \in ZeroKey THEN "zero" ELSE "map", s)
  /\ UNCHANGED <<mu, sessions, pending, reader>>

WriteZero ==
  /\ main.at = "zero"
  /\ \/ main' = On("map", main.session) /\ UNCHANGED conn
     \/ main' = Ended /\ conn' = [conn EXCEPT ![main.session] = "closed"]
  /\ UNCHANGED <<mu, sessions, pending, skey, reader>>

MapSession ==
  /\ main.at = "map" /\ mu = None
  /\ sessions' = [sessions EXCEPT ![skey[main.session]] = main.session]
  /\ main' = On("go", main.session)
  /\ UNCHANGED <<mu, pending, sessionVars>>

GoRunSession ==
  /\ main.at = "go"
  /\ reader' = [reader EXCEPT ![main.session] = "read"]
  /\ main' = On("flush", main.session)
  /\ UNCHANGED <<mu, sessions, pending, skey, conn>>

\* flushInitial, with the reader already running.
FlushInitial ==
  /\ main.at = "flush"
  /\ main' \in {Idle, On("unmap", main.session)}
  /\ UNCHANGED <<mu, sessions, pending, sessionVars>>

\* Both sides delete an entry only if it is still their own.
DeleteOwn(s) ==
  sessions' = [k \in Key |-> IF k = skey[s] /\ sessions[k] = s THEN None ELSE sessions[k]]

FlushFailedUnmap ==
  /\ main.at = "unmap" /\ mu = None
  /\ DeleteOwn(main.session)
  /\ main' = On("close", main.session)
  /\ UNCHANGED <<mu, pending, sessionVars>>

FlushFailedClose ==
  /\ main.at = "close"
  /\ conn' = [conn EXCEPT ![main.session] = "closed"]
  /\ main' = Ended
  /\ UNCHANGED <<mu, sessions, pending, skey, reader>>

-----------------------------------------------------------------------------
(* runSession.                                                             *)

GotoReader(s, label) == reader' = [reader EXCEPT ![s] = label]

\* A reply was read: it is to be written to the tunnel.
ReadReply(s) ==
  /\ reader[s] = "read" /\ conn[s] = "open"
  /\ GotoReader(s, "reply")
  /\ UNCHANGED <<main, mu, sessions, pending, skey, conn>>

ReadFails(s) ==
  /\ reader[s] = "read"
  /\ GotoReader(s, "unmap")
  /\ UNCHANGED <<main, mu, sessions, pending, skey, conn>>

\* writeUoTFrame: the whole frame is written with state.mu held.
BeginFrame(s) ==
  /\ reader[s] = "reply" /\ mu = None
  /\ mu' = s
  /\ GotoReader(s, "write")
  /\ UNCHANGED <<main, sessions, pending, skey, conn>>

\* Mutant: the lock is kept when the client is gone.
EndFrameKeepsLock(s) ==
  /\ reader[s] = "write"
  /\ \/ main # Ended /\ GotoReader(s, "read") /\ mu' = None
     \/ GotoReader(s, "unmap") /\ UNCHANGED mu
  /\ UNCHANGED <<main, sessions, pending, skey, conn>>

\* The client has taken the frame, or is gone.
EndFrame(s) ==
  /\ reader[s] = "write"
  /\ \/ main # Ended /\ GotoReader(s, "read")
     \/ GotoReader(s, "unmap")
  /\ mu' = None
  /\ UNCHANGED <<main, sessions, pending, skey, conn>>

\* Mutant: the deferred function does not delete the entry.
ReaderUnmapNot(s) ==
  /\ reader[s] = "unmap" /\ mu = None
  /\ GotoReader(s, "close")
  /\ UNCHANGED <<main, mu, sessions, pending, skey, conn>>

ReaderUnmap(s) ==
  /\ reader[s] = "unmap" /\ mu = None
  /\ DeleteOwn(s)
  /\ GotoReader(s, "close")
  /\ UNCHANGED <<main, mu, pending, skey, conn>>

ReaderClose(s) ==
  /\ reader[s] = "close"
  /\ conn' = [conn EXCEPT ![s] = "closed"]
  /\ GotoReader(s, "off")
  /\ UNCHANGED <<main, mu, sessions, pending, skey>>

-----------------------------------------------------------------------------

Client ==
  \/ \E k \in Key : ReadMapped(k) \/ \E kind \in Kind : ReadNew(k, kind) \/ ReadPending(k, kind)
  \/ ReadFrameFails

Main ==
  \/ WriteUpstream \/ ContinueGiveUp \/ ContinueWait \/ ContinueStart
  \/ StartCheck \/ DialFails \/ Dial \/ WriteZero \/ MapSession \/ GoRunSession
  \/ FlushInitial \/ FlushFailedUnmap \/ FlushFailedClose

Reader(s) ==
  \/ ReadFails(s) \/ BeginFrame(s) \/ EndFrame(s) \/ ReaderUnmap(s) \/ ReaderClose(s)

Drained == main = Ended /\ (\A s \in Session : reader[s] = "off") /\ UNCHANGED vars

Next ==
  \/ Client \/ Main
  \/ \E s \in Session : ReadReply(s) \/ Reader(s)
  \/ Drained

Spec == Init /\ [][Next]_vars

\* main and the readers are goroutines that the scheduler lets run, and a reader
\* whose peer is silent meets its deadline.
FairSpec == Spec /\ WF_vars(Main) /\ \A s \in Session : WF_vars(Reader(s))

-----------------------------------------------------------------------------
(* Properties.                                                             *)

MainSteps == {"write", "zero", "map", "go", "flush", "unmap", "close"}

\* The type of every variable; the table, sessions and held Initials, is within
\* its limit although it is unlocked between the check and the insertion.
TypeOK ==
  /\ main \in {Idle, Ended} \cup [at : MainSteps, session : Session]
              \cup [at : {"start", "dial"}, key : Key]
              \cup [at : {"continue"}, key : Key, kind : Kind]
  /\ mu \in Session \cup {None}
  /\ sessions \in [Key -> Session \cup {None}]
  /\ pending \in [Key -> {"none", "fresh", "held"}]
  /\ skey \in [Session -> Key]
  /\ conn \in [Session -> {"none", "open", "closed"}]
  /\ reader \in [Session -> {"off", "read", "reply", "write", "unmap", "close"}]
  /\ TableSize <= PendingLimit

\* Every variable has its type, and at every moment the sessions in the map are exactly the open ones that are
\* past their set-up, except the one that main or its reader is just closing:
\* no flow is mapped to a closed connection or to another flow's, and none
\* loses its session to the delete of an older one.
MapExact ==
  /\ TypeOK
  /\ \A k \in Key : sessions[k] # None =>
       conn[sessions[k]] = "open" /\ skey[sessions[k]] = k
  /\ \A s \in Session :
       conn[s] = "open" /\ reader[s] \notin {"off", "close"}
         /\ ~(main.at = "close" /\ main.session = s)
       => sessions[skey[s]] = s

\* The open connections, and whose they are.
Live == {p \in Session \X Key : conn[p[1]] = "open" /\ skey[p[1]] = p[2]}

Table == INSTANCE FlowTable WITH live <- Live, table <- sessions, Flow <- Key

\* A session is entered where its flow has none, although state.mu is released from
\* the check to the insertion, and closed only when it has left the map (startSession,
\* runSession).
KeepsTable == Table!Spec

\* A tunnel that has ended leaves no session behind: every connection it opened
\* is closed in the end.
TunnelDrains == main = Ended ~> \A s \in Session : conn[s] # "open"
=============================================================================
