---------------------------- MODULE PortMapping ----------------------------
(***************************************************************************)
(* The port mappings of src/phantomtcp/portmapping.go: one of the three    *)
(* that a configuration can ask for.                                       *)
(*                                                                         *)
(*   "fixed"  UDPMapping of a local port: one connection to the target,    *)
(*            and a variable SrcAddr that the loop writes and the reader   *)
(*            reads without a lock;                                        *)
(*   "map"    UDPMapping of an address: a connection for every client, in  *)
(*            UDPMap, with a reader each;                                  *)
(*   "tcp"    TCPMapping of a listening address, "bind" of a port that a   *)
(*            SOCKS server listens on, with a tcpMappingRelay for every    *)
(*            connection.                                                  *)
(***************************************************************************)
EXTENDS Naturals, Sequences

CONSTANTS Client,  \* senders of datagrams
          Conn,    \* UDP connections to the target; each is dialed once
          Relay,   \* TCP connections that come in
          MaxSeq,  \* bound: datagrams that the loop of "fixed" reads
          None     \* nil

ASSUME NoneAssumption == None \notin Client \cup Conn \cup Relay

VARIABLES
  mode,      \* which mapping this is
  SrcAddr,   \* fixed: where replies go
  seq,       \* fixed: datagrams read so far
  lastSeen,  \* fixed, history: per client, the number of its last datagram
  asked,     \* fixed: requests the target may answer, as <<client, number>>
  misled,    \* fixed, history: <<request, receiver>> of replies to somebody else
  loop,      \* map: where the loop is
  current,   \* map: the client whose datagram it holds
  dialed,    \* map: its remoteConn
  UDPMap,    \* map: per client, its connection
  owner,     \* map: per connection, its client
  open,      \* map: connections that are open
  reader,    \* map: per connection, where its goroutine is
  firstFail, \* map, history: connections whose first write failed
  accepting, \* TCPMapping has not returned
  pc,        \* tcp: where each relay is
  up,        \* tcp: relays whose goroutine copies to the remote
  remote,    \* tcp: relays whose remote is open
  incoming,  \* tcp: relays whose incoming connection is open
  writing,   \* tcp: relays that have a write to the client under way
  ended      \* tcp: <<relay, peer>>: the peer has ended its direction

fixedVars == <<SrcAddr, seq, lastSeen, asked, misled>>
mapVars == <<loop, current, dialed, UDPMap, owner, open, reader, firstFail>>
tcpVars == <<accepting, pc, up, remote, incoming, writing, ended>>
vars == <<mode, fixedVars, mapVars, tcpVars>>

Init ==
  /\ mode \in {"fixed", "map", "tcp", "bind"}
  /\ SrcAddr = None
  /\ seq = 0
  /\ lastSeen = [c \in Client |-> 0]
  /\ asked = {}
  /\ misled = {}
  /\ loop = "read"
  /\ current = None
  /\ dialed = None
  /\ UDPMap = [c \in Client |-> None]
  /\ owner = [k \in Conn |-> None]
  /\ open = {}
  /\ reader = [k \in Conn |-> "none"]
  /\ firstFail = {}
  /\ accepting = TRUE
  /\ pc = [i \in Relay |-> "idle"]
  /\ up = {}
  /\ remote = {}
  /\ incoming = {}
  /\ writing = {}
  /\ ended = {}

-----------------------------------------------------------------------------
(* UDPMapping of a local port.                                             *)

FixedRead(c) ==
  /\ mode = "fixed" /\ seq < MaxSeq
  /\ seq' = seq + 1
  /\ SrcAddr' = c
  /\ lastSeen' = [lastSeen EXCEPT ![c] = seq + 1]
  /\ asked' = asked \cup {<<c, seq + 1>>}
  /\ UNCHANGED <<mode, misled, mapVars, tcpVars>>

FixedReadError ==
  /\ mode = "fixed"
  /\ SrcAddr' = None
  /\ UNCHANGED <<mode, seq, lastSeen, asked, misled, mapVars, tcpVars>>

\* Mutant: the reader uses the first address it was given.
FixedReplyFirst(r) ==
  /\ mode = "fixed"
  /\ asked' = asked \ {r}
  /\ LET to == CHOOSE c \in Client : lastSeen[c] > 0 IN
     misled' = IF to = r[1] THEN misled ELSE misled \cup {<<r, to>>}
  /\ UNCHANGED <<mode, SrcAddr, seq, lastSeen, mapVars, tcpVars>>

\* The reader has the answer to r; it goes to SrcAddr as it is now.
FixedReply(r) ==
  /\ mode = "fixed"
  /\ asked' = asked \ {r}
  /\ misled' = IF SrcAddr \in {None, r[1]} THEN misled ELSE misled \cup {<<r, SrcAddr>>}
  /\ UNCHANGED <<mode, SrcAddr, seq, lastSeen, mapVars, tcpVars>>

-----------------------------------------------------------------------------
(* UDPMapping of an address.                                               *)

MapRead(c) ==
  /\ mode = "map" /\ loop = "read"
  /\ current' = c
  /\ loop' = "lookup"
  /\ UNCHANGED <<mode, fixedVars, dialed, UDPMap, owner, open, reader, firstFail, tcpVars>>

\* Under UDPLock: a client that is mapped has its datagram written.
MapLookup ==
  /\ loop = "lookup"
  /\ loop' = IF UDPMap[current] # None THEN "read" ELSE "dial"
  /\ UNCHANGED <<mode, fixedVars, current, dialed, UDPMap, owner, open, reader, firstFail, tcpVars>>

MapDial ==
  /\ loop = "dial"
  /\ \E k \in Conn :
       /\ owner[k] = None
       /\ dialed' = k
       /\ owner' = [owner EXCEPT ![k] = current]
       /\ open' = open \cup {k}
  /\ loop' = "insert"
  /\ UNCHANGED <<mode, fixedVars, current, UDPMap, reader, firstFail, tcpVars>>

MapDialFails ==
  /\ loop = "dial"
  /\ loop' = "read"
  /\ UNCHANGED <<mode, fixedVars, current, dialed, UDPMap, owner, open, reader, firstFail, tcpVars>>

\* Under UDPLock: the entry and the first write; the reader only if that works.
MapInsert ==
  /\ loop = "insert"
  /\ UDPMap' = [UDPMap EXCEPT ![current] = dialed]
  /\ \/ reader' = [reader EXCEPT ![dialed] = "reading"] /\ UNCHANGED firstFail
     \/ firstFail' = firstFail \cup {dialed} /\ UNCHANGED reader
  /\ loop' = "read"
  /\ UNCHANGED <<mode, fixedVars, current, dialed, owner, open, tcpVars>>

\* Two minutes without a reply, or an error.
ReaderError(k) ==
  /\ reader[k] = "reading"
  /\ reader' = [reader EXCEPT ![k] = "delete"]
  /\ UNCHANGED <<mode, fixedVars, loop, current, dialed, UDPMap, owner, open, firstFail, tcpVars>>

\* Mutant: the connection is closed, and then its entry deleted.
ReaderCloses(k) ==
  /\ reader[k] = "delete"
  /\ open' = open \ {k}
  /\ reader' = [reader EXCEPT ![k] = "close"]
  /\ UNCHANGED <<mode, fixedVars, loop, current, dialed, UDPMap, owner, firstFail, tcpVars>>

\* Under UDPLock, by the key of the client.
ReaderDelete(k) ==
  /\ reader[k] = "delete"
  /\ UDPMap' = [UDPMap EXCEPT ![owner[k]] = None]
  /\ reader' = [reader EXCEPT ![k] = "close"]
  /\ UNCHANGED <<mode, fixedVars, loop, current, dialed, owner, open, firstFail, tcpVars>>

ReaderClose(k) ==
  /\ reader[k] = "close"
  /\ open' = open \ {k}
  /\ reader' = [reader EXCEPT ![k] = "gone"]
  /\ UNCHANGED <<mode, fixedVars, loop, current, dialed, UDPMap, owner, firstFail, tcpVars>>

-----------------------------------------------------------------------------
(* TCPMapping and tcpMappingRelay.                                         *)

Start(i) ==
  /\ pc' = [pc EXCEPT ![i] = "script"]
  /\ incoming' = incoming \cup {i}

Accept(i) ==
  /\ mode = "tcp" /\ accepting /\ pc[i] = "idle"
  /\ Start(i)
  /\ UNCHANGED <<mode, fixedVars, mapVars, accepting, up, remote, writing, ended>>

AcceptError ==
  /\ mode = "tcp" /\ accepting
  /\ accepting' = FALSE
  /\ UNCHANGED <<mode, fixedVars, mapVars, pc, up, remote, incoming, writing, ended>>

\* DialTCPBind: one connection at a time waits for a peer.
DialTCPBind(i) ==
  /\ mode = "bind" /\ accepting /\ pc[i] = "idle"
  /\ \A j \in Relay : pc[j] # "bound"
  /\ \/ /\ pc' = [pc EXCEPT ![i] = "bound"]
        /\ incoming' = incoming \cup {i}
        /\ UNCHANGED accepting
     \/ accepting' = FALSE /\ UNCHANGED <<pc, incoming>>
  /\ UNCHANGED <<mode, fixedVars, mapVars, up, remote, writing, ended>>

\* SocksBindWaitInbound: a failure ends the mapping.
WaitInbound(i) ==
  /\ pc[i] = "bound"
  /\ \/ Start(i) /\ UNCHANGED accepting
     \/ /\ accepting' = FALSE
        /\ pc' = [pc EXCEPT ![i] = "done"]
        /\ incoming' = incoming \ {i}
  /\ UNCHANGED <<mode, fixedVars, mapVars, up, remote, writing, ended>>

Script(i) ==
  /\ pc[i] = "script"
  /\ \/ pc' = [pc EXCEPT ![i] = "dial"] /\ UNCHANGED incoming
     \/ pc' = [pc EXCEPT ![i] = "done"] /\ incoming' = incoming \ {i}
  /\ UNCHANGED <<mode, fixedVars, mapVars, accepting, up, remote, writing, ended>>

DialRemote(i) ==
  /\ pc[i] = "dial"
  /\ \/ /\ pc' = [pc EXCEPT ![i] = "relay"]
        /\ remote' = remote \cup {i}
        /\ up' = up \cup {i}
        /\ UNCHANGED incoming
     \/ /\ pc' = [pc EXCEPT ![i] = "done"]
        /\ incoming' = incoming \ {i}
        /\ UNCHANGED <<remote, up>>
  /\ UNCHANGED <<mode, fixedVars, mapVars, accepting, writing, ended>>

\* The client ends its direction, or is gone altogether; the remote ends.
PeerEnds(i, peer) ==
  /\ pc[i] \in {"script", "dial", "relay"} /\ (peer = "remote" => i \in remote)
  /\ ended' = ended \cup {<<i, peer>>}
  /\ UNCHANGED <<mode, fixedVars, mapVars, accepting, pc, up, remote, incoming, writing>>

\* go io.Copy(remote, incoming): it ends with the client, or with either
\* connection, and closes neither.
UpEnds(i) ==
  /\ i \in up
  /\ <<i, "client">> \in ended \/ <<i, "gone">> \in ended \/ i \notin incoming \/ i \notin remote
  /\ up' = up \ {i}
  /\ UNCHANGED <<mode, fixedVars, mapVars, accepting, pc, remote, incoming, writing, ended>>

\* io.Copy(incoming, remote) has something for the client: before the remote has
\* ended, or of what it sent before.  The write has no deadline.
DownReads(i) ==
  /\ pc[i] = "relay" /\ i \notin writing
  /\ writing' = writing \cup {i}
  /\ UNCHANGED <<mode, fixedVars, mapVars, accepting, pc, up, remote, incoming, ended>>

\* The client takes it.
DownWritten(i) ==
  /\ i \in writing
  /\ writing' = writing \ {i}
  /\ UNCHANGED <<mode, fixedVars, mapVars, accepting, pc, up, remote, incoming, ended>>

\* The copy is at the remote's end, or its write to a client that is gone fails.
DownOver(i) ==
  IF i \in writing THEN <<i, "gone">> \in ended ELSE <<i, "remote">> \in ended

\* Mutant: the relay leaves the remote to the goroutine.
DownEndsKeeps(i) ==
  /\ pc[i] = "relay" /\ DownOver(i)
  /\ pc' = [pc EXCEPT ![i] = "done"]
  /\ writing' = writing \ {i}
  /\ incoming' = incoming \ {i}
  /\ UNCHANGED <<mode, fixedVars, mapVars, accepting, up, remote, ended>>

\* The relay returns and closes both connections.
DownEnds(i) ==
  /\ pc[i] = "relay" /\ DownOver(i)
  /\ pc' = [pc EXCEPT ![i] = "done"]
  /\ writing' = writing \ {i}
  /\ remote' = remote \ {i}
  /\ incoming' = incoming \ {i}
  /\ UNCHANGED <<mode, fixedVars, mapVars, accepting, up, ended>>

-----------------------------------------------------------------------------

ReaderStep(k) == ReaderError(k) \/ ReaderDelete(k) \/ ReaderClose(k)

RelayStep(i) ==
  \/ WaitInbound(i) \/ Script(i) \/ DialRemote(i) \/ UpEnds(i)
  \/ DownReads(i) \/ DownWritten(i) \/ DownEnds(i)

Next ==
  \/ \E c \in Client : FixedRead(c) \/ MapRead(c)
  \/ FixedReadError
  \/ \E r \in asked : FixedReply(r)
  \/ MapLookup \/ MapDial \/ MapDialFails \/ MapInsert
  \/ \E k \in Conn : ReaderStep(k)
  \/ \E i \in Relay : Accept(i) \/ DialTCPBind(i) \/ RelayStep(i)
  \/ \E i \in Relay, peer \in {"client", "gone", "remote"} : PeerEnds(i, peer)
  \/ AcceptError

\* The goroutine finds its connections closed.  What a remote has sent before its end
\* is finite, so the copy that goes on comes to the end; nothing makes a client read.
Fairness ==
  \A i \in Relay : WF_vars(i \notin incoming /\ UpEnds(i)) /\ SF_vars(DownEnds(i))

Spec == Init /\ [][Next]_vars /\ Fairness

-----------------------------------------------------------------------------

TypeOK ==
  /\ SrcAddr \in Client \cup {None}
  /\ seq \in Nat
  /\ lastSeen \in [Client -> Nat]
  /\ asked \subseteq Client \X Nat
  /\ loop \in {"read", "lookup", "dial", "insert"}
  /\ current \in Client \cup {None}
  /\ dialed \in Conn \cup {None}
  /\ UDPMap \in [Client -> Conn \cup {None}]
  /\ owner \in [Conn -> Client \cup {None}]
  /\ open \subseteq Conn
  /\ reader \in [Conn -> {"none", "reading", "delete", "close", "gone"}]
  /\ firstFail \subseteq Conn

\* A mapped connection is open and its client's, and has a reader unless its
\* first write failed; a reader that has not yet deleted its entry finds its own
\* connection there, never that of a successor (UDPMapping).
MapExact ==
  /\ \A c \in Client : UDPMap[c] # None =>
       /\ UDPMap[c] \in open
       /\ owner[UDPMap[c]] = c
       /\ reader[UDPMap[c]] \in {"reading", "delete"} \/ UDPMap[c] \in firstFail
  /\ \A k \in Conn : reader[k] \in {"reading", "delete"} => UDPMap[owner[k]] = k

\* The open connections, and whose they are.
Live == {p \in Conn \X Client : p[1] \in open /\ owner[p[1]] = p[2]}

Table == INSTANCE FlowTable WITH live <- Live, table <- UDPMap, Flow <- Client, Session <- Conn

\* A connection is entered where its client has none, although UDPLock is released
\* for the dial, and closed only when it has left the map (UDPMapping).
KeepsTable == Table!Spec

\* A reply goes to another client than the one that asked only if that client
\* sent a datagram after the request (SrcAddr in UDPMapping).
MisledOnlyByLater ==
  \A m \in misled : lastSeen[m[2]] > m[1][2]

\* When the remote has ended, all of a relay ends: it returns, its goroutine stops, and
\* both connections are closed, unless a write to a client that stays and does not
\* read goes on for ever (tcpMappingRelay).
RelayEnds ==
  \A i \in Relay :
    []<>(i \notin writing \/ <<i, "gone">> \in ended) =>
      ((<<i, "remote">> \in ended) ~>
         (pc[i] = "done" /\ i \notin up \cup incoming \cup remote))
=============================================================================
