------------------------------ MODULE SocksUDP ------------------------------
(***************************************************************************)
(* The SOCKS UDP server of src/phantomtcp/socks.go (SocksUDPProxy).  One   *)
(* goroutine, "main" here, reads the datagrams of every client, dials the  *)
(* sessions and writes upstream; each session has a goroutine of its own   *)
(* that relays its replies (socksUDPRunSession).  Both delete map entries  *)
(* by key, without looking whose entry it is.                              *)
(*                                                                         *)
(* pendingMap is touched by main alone, so the critical sections of        *)
(* socksUDPContinuePending are not told apart; those on ConnMap are.       *)
(***************************************************************************)
EXTENDS Naturals, FiniteSets

CONSTANTS Key,         \* flows: client, host and port
          Session,     \* identities of sessions, reused once unreferenced
          None,        \* no session
          UdpKey,      \* flows whose outbound has HINT_UDP
          Http3Key,    \* flows whose outbound has HINT_HTTP3
          ZeroKey,     \* flows whose outbound has HINT_ZERO
          PendingLimit,    \* quicPendingLimit
          DNSConcurrency   \* socksDNSConcurrency

ASSUME NoneAssumption == None \notin Session
ASSUME KeyAssumption == Key # {}
ASSUME HintAssumption == UdpKey \subseteq Key /\ Http3Key \subseteq Key /\ ZeroKey \subseteq Key
ASSUME LimitAssumption == PendingLimit \in Nat /\ DNSConcurrency \in Nat

VARIABLES
  main,      \* what main is doing: [at |-> "read"], or a step on a flow or a session
  ConnMap,   \* the sessions, by flow
  pendingMap,  \* per flow "none", "fresh" (just created) or "held" (has Initials)
  skey,      \* the key a session was started for
  conn,      \* session.conn: "none", "open" or "closed"
  reader,    \* where socksUDPRunSession is
  dnsSem,    \* DNS questions being answered
  flushFailed  \* history: some write of the first datagrams failed

connVars == <<skey, conn, reader>>
vars == <<main, ConnMap, pendingMap, connVars, dnsSem, flushFailed>>

Idle == [at |-> "read"]
On(step, s) == [at |-> step, session |-> s]

\* What main tells apart in a payload: as in TProxyUDP.
Kind == {"plain", "initial", "hello", "bad"}
isQUICInitialDatagram(kind) == kind # "plain"

Init ==
  /\ main = Idle
  /\ ConnMap = [k \in Key |-> None]
  /\ pendingMap = [k \in Key |-> "none"]
  /\ skey = [s \in Session |-> CHOOSE k \in Key : TRUE]
  /\ conn = [s \in Session |-> "none"]
  /\ reader = [s \in Session |-> "off"]
  /\ dnsSem = 0
  /\ flushFailed = FALSE

-----------------------------------------------------------------------------
(* Main: a datagram is read.                                               *)

TableSize ==
  Cardinality({k \in Key : ConnMap[k] # None}) + Cardinality({k \in Key : pendingMap[k] # "none"})

\* The session found in the map is written to after the lock is released.
ReadMapped(k) ==
  /\ main = Idle
  /\ ConnMap[k] # None
  /\ main' = On("write", ConnMap[k])
  /\ UNCHANGED <<ConnMap, pendingMap, connVars, dnsSem, flushFailed>>

\* socksUDPWriteUpstream on it; an error is only logged.
WriteUpstream ==
  /\ main.at = "write"
  /\ main' = Idle
  /\ UNCHANGED <<ConnMap, pendingMap, connVars, dnsSem, flushFailed>>

StartOn(k) == main' = [at |-> "start", key |-> k]

\* A flow without session nor pending entry.
ReadNew(k, kind) ==
  /\ main = Idle
  /\ ConnMap[k] = None /\ pendingMap[k] = "none"
  /\ k \in UdpKey \cup Http3Key
  /\ IF k \in Http3Key /\ isQUICInitialDatagram(kind)
     THEN /\ TableSize < PendingLimit
          /\ pendingMap' = [pendingMap EXCEPT ![k] = "fresh"]
          /\ main' = [at |-> "continue", key |-> k, kind |-> kind]
     ELSE StartOn(k) /\ UNCHANGED pendingMap
  /\ UNCHANGED <<ConnMap, connVars, dnsSem, flushFailed>>

ReadPending(k, kind) ==
  /\ main = Idle
  /\ ConnMap[k] = None /\ pendingMap[k] # "none"
  /\ main' = [at |-> "continue", key |-> k, kind |-> kind]
  /\ UNCHANGED <<ConnMap, pendingMap, connVars, dnsSem, flushFailed>>

\* A DNS question is answered in a goroutine, or dropped when all are busy.
ReadDNS ==
  /\ main = Idle
  /\ dnsSem < DNSConcurrency
  /\ dnsSem' = dnsSem + 1
  /\ UNCHANGED <<main, ConnMap, pendingMap, connVars, flushFailed>>

InterceptDNSReturns ==
  /\ dnsSem > 0
  /\ dnsSem' = dnsSem - 1
  /\ UNCHANGED <<main, ConnMap, pendingMap, connVars, flushFailed>>

-----------------------------------------------------------------------------
(* socksUDPContinuePending.                                                *)

Forget(k) == pendingMap' = [pendingMap EXCEPT ![k] = "none"]

\* The entry has expired, or the collector refuses the Initial, or too much is held.
ContinueGiveUp ==
  /\ main.at = "continue"
  /\ pendingMap[main.key] = "held" \/ main.kind = "bad"
  /\ Forget(main.key)
  /\ main' = Idle
  /\ UNCHANGED <<ConnMap, connVars, dnsSem, flushFailed>>

ContinueWait ==
  /\ main.at = "continue"
  /\ main.kind = "initial"
  /\ pendingMap' = [pendingMap EXCEPT ![main.key] = "held"]
  /\ main' = Idle
  /\ UNCHANGED <<ConnMap, connVars, dnsSem, flushFailed>>

\* The ClientHello is complete, or a datagram that is no Initial ends the wait.
ContinueStart ==
  /\ main.at = "continue"
  /\ main.kind \in {"hello", "plain"}
  /\ Forget(main.key)
  /\ StartOn(main.key)
  /\ UNCHANGED <<ConnMap, connVars, dnsSem, flushFailed>>

-----------------------------------------------------------------------------
(* socksUDPStartSession.                                                   *)

StartAbort ==
  /\ main.at = "start"
  /\ main' = Idle                       \* mapped already, or the dial fails
  /\ UNCHANGED <<ConnMap, pendingMap, connVars, dnsSem, flushFailed>>

Unreferenced(s) == conn[s] # "open" /\ reader[s] = "off"

Dial ==
  /\ main.at = "start"
  /\ ConnMap[main.key] = None
  /\ \E s \in Session :
       /\ Unreferenced(s)
       /\ skey' = [skey EXCEPT ![s] = main.key]
       /\ conn' = [conn EXCEPT ![s] = "open"]
       /\ main' = On(IF main.key \in ZeroKey THEN "zero" ELSE "map", s)
  /\ UNCHANGED <<ConnMap, pendingMap, reader, dnsSem, flushFailed>>

\* Mutant: the early return forgets the connection.
WriteZeroLeaks ==
  /\ main.at = "zero"
  /\ \/ main' = On("map", main.session)
     \/ main' = Idle
  /\ UNCHANGED <<ConnMap, pendingMap, connVars, dnsSem, flushFailed>>

WriteZero ==
  /\ main.at = "zero"
  /\ \/ main' = On("map", main.session) /\ UNCHANGED conn
     \/ main' = Idle /\ conn' = [conn EXCEPT ![main.session] = "closed"]
  /\ UNCHANGED <<ConnMap, pendingMap, skey, reader, dnsSem, flushFailed>>

MapSession ==
  /\ main.at = "map"
  /\ ConnMap' = [ConnMap EXCEPT ![skey[main.session]] = main.session]
  /\ main' = On("go", main.session)
  /\ UNCHANGED <<pendingMap, connVars, dnsSem, flushFailed>>

GoRunSession ==
  /\ main.at = "go"
  /\ reader' = [reader EXCEPT ![main.session] = "read"]
  /\ main' = On("flush", main.session)
  /\ UNCHANGED <<ConnMap, pendingMap, skey, conn, dnsSem, flushFailed>>

\* socksUDPFlushInitial, with the reader already running.
FlushInitial ==
  /\ main.at = "flush"
  /\ \/ main' = Idle /\ UNCHANGED flushFailed
     \/ main' = On("unmap", main.session) /\ flushFailed' = TRUE
  /\ UNCHANGED <<ConnMap, pendingMap, connVars, dnsSem>>

\* delete(connMap, key): whichever session the key maps to.
Delete(k) == ConnMap' = [ConnMap EXCEPT ![k] = None]

FlushFailedUnmap ==
  /\ main.at = "unmap"
  /\ Delete(skey[main.session])
  /\ main' = On("close", main.session)
  /\ UNCHANGED <<pendingMap, connVars, dnsSem, flushFailed>>

FlushFailedClose ==
  /\ main.at = "close"
  /\ conn' = [conn EXCEPT ![main.session] = "closed"]
  /\ main' = Idle
  /\ UNCHANGED <<ConnMap, pendingMap, skey, reader, dnsSem, flushFailed>>

-----------------------------------------------------------------------------
(* socksUDPRunSession.  A reply changes no state of the model.             *)

\* Read fails: the connection is closed, its deadline passed, or its peer refuses.
ReadFails(s) ==
  /\ reader[s] = "read"
  /\ reader' = [reader EXCEPT ![s] = "unmap"]
  /\ UNCHANGED <<main, ConnMap, pendingMap, skey, conn, dnsSem, flushFailed>>

\* Mutant: the connection is closed before its entry leaves the map.
ReaderUnmapLate(s) ==
  /\ reader[s] = "unmap"
  /\ conn' = [conn EXCEPT ![s] = "closed"]
  /\ reader' = [reader EXCEPT ![s] = "close"]
  /\ UNCHANGED <<main, ConnMap, pendingMap, skey, dnsSem, flushFailed>>

ReaderUnmap(s) ==
  /\ reader[s] = "unmap"
  /\ Delete(skey[s])
  /\ reader' = [reader EXCEPT ![s] = "close"]
  /\ UNCHANGED <<main, pendingMap, skey, conn, dnsSem, flushFailed>>

ReaderClose(s) ==
  /\ reader[s] = "close"
  /\ conn' = [conn EXCEPT ![s] = "closed"]
  /\ reader' = [reader EXCEPT ![s] = "off"]
  /\ UNCHANGED <<main, ConnMap, pendingMap, skey, dnsSem, flushFailed>>

-----------------------------------------------------------------------------

Client ==
  \/ \E k \in Key : ReadMapped(k) \/ \E kind \in Kind : ReadNew(k, kind) \/ ReadPending(k, kind)
  \/ ReadDNS

Main ==
  \/ WriteUpstream \/ ContinueGiveUp \/ ContinueWait \/ ContinueStart
  \/ StartAbort \/ Dial \/ WriteZero \/ MapSession \/ GoRunSession
  \/ FlushInitial \/ FlushFailedUnmap \/ FlushFailedClose

Reader(s) == ReadFails(s) \/ ReaderUnmap(s) \/ ReaderClose(s)

Next == Client \/ Main \/ InterceptDNSReturns \/ \E s \in Session : Reader(s)

Spec == Init /\ [][Next]_vars

\* main goes on with what it has read; a reader meets its deadline in the end.
FairSpec == Spec /\ WF_vars(Main) /\ \A s \in Session : WF_vars(Reader(s))

-----------------------------------------------------------------------------
(* Properties.                                                             *)

Steps == {"write", "zero", "map", "go", "flush", "unmap", "close"}

\* The type of every variable: dnsSem within its capacity (socks.go 1382).
TypeOK ==
  /\ main \in {Idle} \cup [at : Steps, session : Session] \cup [at : {"start"}, key : Key]
              \cup [at : {"continue"}, key : Key, kind : Kind]
  /\ ConnMap \in [Key -> Session \cup {None}]
  /\ pendingMap \in [Key -> {"none", "fresh", "held"}]
  /\ skey \in [Session -> Key]
  /\ conn \in [Session -> {"none", "open", "closed"}]
  /\ reader \in [Session -> {"off", "read", "unmap", "close"}]
  /\ dnsSem \in 0..DNSConcurrency
  /\ flushFailed \in BOOLEAN

\* Every variable has its type.  A flow is never mapped to a connection that has
\* been closed, or to another flow's: both goroutines delete the entry first, and
\* the entry that a stale delete takes away is never put back (socks.go 1134-1141,
\* 1197-1203).  And unless a first write has failed, a session that relays replies
\* is the one its flow is mapped to: after a failure its reader, which was started
\* before the write, may delete the entry of the session that has replaced it.
MapExact ==
  /\ TypeOK
  /\ \A k \in Key : ConnMap[k] # None => conn[ConnMap[k]] = "open" /\ skey[ConnMap[k]] = k
  /\ flushFailed \/ \A s \in Session : reader[s] \in {"read", "unmap"} => ConnMap[skey[s]] = s

\* The open connections, and whose they are.
Live == {p \in Session \X Key : conn[p[1]] = "open" /\ skey[p[1]] = p[2]}

Table == INSTANCE FlowTable WITH live <- Live, table <- ConnMap, Flow <- Key

\* A session is entered where its flow has none, and closed only when it has left the
\* map, also where a stale delete has taken away the entry of another one
\* (socksUDPStartSession, socksUDPRunSession).
KeepsTable == Table!Spec

\* Every connection is closed in the end, those that a stale delete has cut off
\* from their flow included.
EveryConnCloses == \A s \in Session : conn[s] = "open" ~> conn[s] = "closed"
=============================================================================
