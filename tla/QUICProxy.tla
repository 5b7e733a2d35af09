------------------------------ MODULE QUICProxy ------------------------------
(***************************************************************************)
(* The QUIC proxy of src/phantomtcp/quic.go (QUICProxy).  One goroutine,   *)
(* "main" here, reads the datagrams of every client, collects Initials     *)
(* until they give a server name, dials and writes upstream; each session  *)
(* has a goroutine that relays its replies (quicProxyRunSession), started  *)
(* only once the first datagrams are written.  Sessions are known by the   *)
(* client's address alone, and both sides delete them by that key, without *)
(* looking whose entry it is.                                              *)
(***************************************************************************)
EXTENDS Naturals, FiniteSets

CONSTANTS Client,       \* addresses of clients
          Session,      \* identities of sessions, reused once unreferenced
          None,         \* no session
          PendingLimit  \* quicPendingLimit

ASSUME ClientAssumption == Client # {}
ASSUME NoneAssumption == None \notin Session
ASSUME LimitAssumption == PendingLimit \in Nat

VARIABLES
  main,       \* what main is doing: [at |-> "read"], or a step on a client or a session
  connMap,    \* the sessions, by client
  pendingMap, \* the clients with an entry in pendingMap
  owner,      \* the client a session was started for
  conn,       \* session.conn: "none", "open" or "closed"
  reader      \* where quicProxyRunSession is

sessionVars == <<owner, conn, reader>>
vars == <<main, connMap, pendingMap, sessionVars>>

Idle == [at |-> "read"]
On(step, s) == [at |-> step, session |-> s]

Init ==
  /\ main = Idle
  /\ connMap = [c \in Client |-> None]
  /\ pendingMap = {}
  /\ owner = [s \in Session |-> CHOOSE c \in Client : TRUE]
  /\ conn = [s \in Session |-> "none"]
  /\ reader = [s \in Session |-> "off"]

-----------------------------------------------------------------------------
(* Main: a datagram is read.                                               *)

\* The session found in the map is written to after the lock is released.
ReadMapped(c) ==
  /\ main = Idle
  /\ connMap[c] # None
  /\ main' = On("write", connMap[c])
  /\ UNCHANGED <<connMap, pendingMap, sessionVars>>

\* quicProxyWriteUpstream on it; an error is only logged.
WriteUpstream ==
  /\ main.at = "write"
  /\ main' = Idle
  /\ UNCHANGED <<connMap, pendingMap, sessionVars>>

\* The map was looked at: there is no session.
ReadUnmapped(c) ==
  /\ main = Idle
  /\ connMap[c] = None
  /\ main' = [at |-> "collect", client |-> c]
  /\ UNCHANGED <<connMap, pendingMap, sessionVars>>

\* The second critical section.  A client without an entry that is still good gets
\* a new one, after a sweep at the limit, or is turned away.  Then the collector
\* waits for more; or refuses the datagram, or holds too much; or has the name.
Collect ==
  /\ main.at = "collect"
  /\ \E expired \in SUBSET pendingMap :
       LET new == main.client \notin pendingMap \ expired
           kept == IF new /\ Cardinality(pendingMap) >= PendingLimit
                   THEN pendingMap \ expired
                   ELSE pendingMap
       IN IF new /\ Cardinality(kept) >= PendingLimit
          THEN pendingMap' = kept /\ main' = Idle
          ELSE \/ pendingMap' = kept \cup {main.client} /\ main' = Idle
               \/ /\ pendingMap' = kept \ {main.client}
                  /\ main' \in {Idle, [at |-> "dial", client |-> main.client]}
  /\ UNCHANGED <<connMap, sessionVars>>

-----------------------------------------------------------------------------
(* Main: a session is set up.                                              *)

Unreferenced(s) == conn[s] # "open" /\ reader[s] = "off"

\* There is no outbound for the name, or none with HINT_UDP, or the dial fails.
DialNot ==
  /\ main.at = "dial"
  /\ main' = Idle
  /\ UNCHANGED <<connMap, pendingMap, sessionVars>>

\* The zero packet comes first, if the outbound has HINT_ZERO.
Dial ==
  /\ main.at = "dial"
  /\ \E s \in Session :
       /\ Unreferenced(s)
       /\ owner' = [owner EXCEPT ![s] = main.client]
       /\ conn' = [conn EXCEPT ![s] = "open"]
       /\ main' \in {On("zero", s), On("map", s)}
  /\ UNCHANGED <<connMap, pendingMap, reader>>

WriteZero ==
  /\ main.at = "zero"
  /\ \/ main' = On("map", main.session) /\ UNCHANGED conn
     \/ main' = Idle /\ conn' = [conn EXCEPT ![main.session] = "closed"]
  /\ UNCHANGED <<connMap, pendingMap, owner, reader>>

MapSession ==
  /\ main.at = "map"
  /\ connMap' = [connMap EXCEPT ![owner[main.session]] = main.session]
  /\ main' = On("flush", main.session)
  /\ UNCHANGED <<pendingMap, sessionVars>>

FlushInitial ==
  /\ main.at = "flush"
  /\ main' \in {On("go", main.session), On("unmap", main.session)}
  /\ UNCHANGED <<connMap, pendingMap, sessionVars>>

\* delete(connMap, key): whichever session the key maps to.
Delete(c) == connMap' = [connMap EXCEPT ![c] = None]

\* Mutant: the error path closes the connection and leaves it mapped.
FlushFailedUnmapNot ==
  /\ main.at = "unmap"
  /\ main' = On("close", main.session)
  /\ UNCHANGED <<connMap, pendingMap, sessionVars>>

FlushFailedUnmap ==
  /\ main.at = "unmap"
  /\ Delete(owner[main.session])
  /\ main' = On("close", main.session)
  /\ UNCHANGED <<pendingMap, sessionVars>>

FlushFailedClose ==
  /\ main.at = "close"
  /\ conn' = [conn EXCEPT ![main.session] = "closed"]
  /\ main' = Idle
  /\ UNCHANGED <<connMap, pendingMap, owner, reader>>

GoRunSession ==
  /\ main.at = "go"
  /\ reader' = [reader EXCEPT ![main.session] = "read"]
  /\ main' = Idle
  /\ UNCHANGED <<connMap, pendingMap, owner, conn>>

-----------------------------------------------------------------------------
(* quicProxyRunSession.  A reply changes no state of the model.            *)

GotoReader(s, label) == reader' = [reader EXCEPT ![s] = label]

ReadFails(s) ==
  /\ reader[s] = "read"
  /\ GotoReader(s, "unmap")
  /\ UNCHANGED <<main, connMap, pendingMap, owner, conn>>

ReaderUnmap(s) ==
  /\ reader[s] = "unmap"
  /\ Delete(owner[s])
  /\ GotoReader(s, "close")
  /\ UNCHANGED <<main, pendingMap, owner, conn>>

\* Mutant: the loop goes on after the entry is deleted.
ReaderRetries(s) ==
  /\ reader[s] = "close"
  /\ GotoReader(s, "read")
  /\ UNCHANGED <<main, connMap, pendingMap, owner, conn>>

ReaderClose(s) ==
  /\ reader[s] = "close"
  /\ conn' = [conn EXCEPT ![s] = "closed"]
  /\ GotoReader(s, "off")
  /\ UNCHANGED <<main, connMap, pendingMap, owner>>

-----------------------------------------------------------------------------

Read == \E c \in Client : ReadMapped(c) \/ ReadUnmapped(c)

Main ==
  \/ WriteUpstream \/ Collect \/ DialNot \/ Dial \/ WriteZero \/ MapSession
  \/ FlushInitial \/ FlushFailedUnmap \/ FlushFailedClose \/ GoRunSession

Reader(s) == ReadFails(s) \/ ReaderUnmap(s) \/ ReaderClose(s)

Next == Read \/ Main \/ \E s \in Session : Reader(s)

Spec == Init /\ [][Next]_vars

\* main goes on with what it has read; a reader meets its deadline in the end.
FairSpec == Spec /\ WF_vars(Main) /\ \A s \in Session : WF_vars(Reader(s))

-----------------------------------------------------------------------------
(* Properties.                                                             *)

ClientSteps == {"collect", "dial"}
SessionSteps == {"write", "zero", "map", "flush", "go", "unmap", "close"}

MainState ==
  {Idle} \cup [at : ClientSteps, client : Client] \cup [at : SessionSteps, session : Session]

\* The type of every variable; the held Initials are within quicPendingLimit,
\* though expired ones are replaced or swept only when another datagram comes.
TypeOK ==
  /\ main \in MainState
  /\ connMap \in [Client -> Session \cup {None}]
  /\ pendingMap \subseteq Client
  /\ owner \in [Session -> Client]
  /\ conn \in [Session -> {"none", "open", "closed"}]
  /\ reader \in [Session -> {"off", "read", "unmap", "close"}]
  /\ IsFiniteSet(pendingMap) /\ Cardinality(pendingMap) <= PendingLimit

\* main is setting s up: it has mapped it, and has not yet started its reader.
SettingUp(s) == main.at \in {"flush", "go", "unmap"} /\ main.session = s

\* The map is exact: the session of a client is open, its own, and served by a
\* reader or about to be; and every session that relays, or is about to, is
\* mapped.  So deleting by key never takes away another session's entry.
MapExact ==
  /\ \A c \in Client : connMap[c] # None =>
       /\ conn[connMap[c]] = "open" /\ owner[connMap[c]] = c
       /\ reader[connMap[c]] \in {"read", "unmap"} \/ SettingUp(connMap[c])
  /\ \A s \in Session : reader[s] \in {"read", "unmap"} \/ SettingUp(s) => connMap[owner[s]] = s

\* The open connections, and whose they are.
Live == {p \in Session \X Client : conn[p[1]] = "open" /\ owner[p[1]] = p[2]}

Table == INSTANCE FlowTable WITH live <- Live, table <- connMap, Flow <- Client

\* A session is entered where its client has none, and closed only when it has left
\* the map, whichever of the two goroutines does it (QUICProxy, quicProxyRunSession).
KeepsTable == Table!Spec

\* Every connection is closed in the end, however its session went.
EveryConnCloses == \A s \in Session : conn[s] = "open" ~> conn[s] = "closed"
=============================================================================
