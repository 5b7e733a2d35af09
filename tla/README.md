# Verification of phantomsocks in TLA+

phantomsocks is a proxy: it takes connections and datagrams from local clients
(SOCKS, HTTP, transparent redirection, QUIC, port mappings), chooses an outbound
("PhantomInterface") by server name or address, and forwards the traffic, with
the ClientHello of TLS or QUIC fragmented or decorated on the way. This
directory models the parts of it that keep shared state between goroutines, and
the algorithms whose numbering has to stay consistent, as TLA+ modules that TLC
checks on small instances and that TLAPS proves theorems about for every
instance.

## 1. Inventory

Paths are under `src/phantomtcp` unless they say otherwise. "Goroutines" names
what runs concurrently.

### BIND port queue — `socks.go` 190–435
* State: the map `bindPortQueues` (one `bindPortQueue` per network and address),
  in each `listening` and `waiters`; per waiter `popped`, `notify` (capacity 1),
  `done`; a listening socket per session.
* Operations: `acquireBindListener`, `releaseBindListener`, `forwardBindSlot`,
  `removeWaiter`, `maybeDeleteBindQueue`, `watchBindControl`, around `socks5Bind`.
* Interaction: one goroutine per SOCKS connection, one watcher per session; two
  locks (the map's and the queue's), never held together except in
  `maybeDeleteBindQueue`; handover of the slot through the channel `notify`.
* Hard: a queue object is fetched under one lock and used under another, so it may
  have left the map ("orphan") by then; a waiter may be cancelled while it is
  being handed the slot; the watcher's poll races the join.
* Correct when: the slot is handed over exactly once, no waiter is forgotten, the
  map holds no stale entry, one listener is open at a time.

### Transparent UDP proxy — `udp_linux.go` 199–648
* State: `sessions`, `pending` (held QUIC Initials), `dialSem`; per session the
  channel `upstream` with `queuedSize`, `closed`/`done`, two sockets,
  `relayError`.
* Operations: `dispatch`, `continuePending`, `startSession`, `enqueue`, `run`,
  `relayReplies`, `remove`, `close`.
* Interaction: one dispatcher, and per flow one goroutine that dials and writes
  upstream and one that relays the replies.
* Hard: the dispatcher enqueues after releasing the lock; accounting split over
  two goroutines; a successor of a session that is still closing; early returns
  that owe a token; limits on everything.
* Correct when: datagrams leave in order, the accounting is exact, no token or
  socket is lost, a flow is in one place, the table stays within its limit.

### SOCKS UDP server — `socks.go` 1085–1493
* State: `ConnMap`, `pendingMap`, the semaphore of DNS questions.
* Operations: `SocksUDPProxy` and its helpers, `socksUDPRunSession`.
* Interaction: one reader of all clients' datagrams that also dials and writes,
  one goroutine per session, one per DNS question.
* Hard: both sides delete map entries by key without looking whose they are, and
  the session's goroutine starts before the first write, which may fail.
* Correct when: a flow is never mapped to a closed connection, every connection is
  closed by somebody.

### UDP over TCP — `socks.go` 720–1084
* State: per tunnel `sessions`, `pending`, `mu` (also held while a frame is
  written), and per session its connection.
* Operations: `udp_redirect`, `handleFrame`, `startSession`, `continuePending`,
  `runSession`, `removeSession`.
* Hard: the limit is checked, the lock released, a dial made, and only then the
  entry inserted; sessions outlive the tunnel; a client that does not read blocks
  everyone who needs the lock.
* Correct when: the map is exact, a tunnel that ended leaves no connection.

### QUIC proxy — `quic.go` 1497–1664
* State: `connMap` by client address, `pendingMap` of held Initials with a limit
  and a sweep of expired ones.
* Operations: `QUICProxy`, `quicProxyRunSession`, the write helpers.
* Hard: the same deletes by key as in the SOCKS server, but here the reader is
  started only after the first datagrams are written.
* Correct when: the map is exact, the limit holds, every connection is closed.

### QUIC Initial rewriter — `quic.go` 660–860, 1210–1495
* State: `quicInitialRewriter` (`initialized`, `firstClientPN`, `clientDCID`, the
  expected packet numbers).
* Operations: `rewriteClient`, `rewriteServer`, `mapAckPN`, the remapping of ACK
  frames, the splitting of CRYPTO frames.
* Hard: one packet becomes two, so every later number is shifted and every
  acknowledgement mapped back, over a network that loses, repeats and reorders; a
  Retry restarts it in the middle.
* Correct when: no number is used for two packets, the client is told only of
  packets that it sent and the server received.

### Held QUIC Initials — `quic.go` 284–364, 862–1192
* State: `quicInitialCollector` (the DCID in use, `expected`, `stream` with
  `covered`) and `quicInitialPending` (the collector, the datagrams as they came,
  their size, the time of the last). Used by the four UDP components above.
* Operations: `decodePacketNumber`, `collector.add`/`reset`, `pending.add`,
  `datagrams`, `overLimit`, `expired`, `accumulate`.
* Hard: Initials come in any order, again, or from another connection of the same
  port; the collector begins again for that one while the hold keeps the old
  datagrams; packet numbers are decoded around the one expected, which depends on
  all that.
* Correct when: a hold is released exactly when one connection's hello is whole, and
  no intact Initial is taken for a broken one.

### DNS cache and fake addresses — `dns.go` 468–700, 833–930, 1094–1482
* State: `DNSCache` (name to record), the records, their lists of addresses, `Nose`
  (index to name, for the fake addresses handed out), `DNSRecordMutex`.
* Operations: `NSRequest` (a client's question), `NSLookup` (a dial's), `AddDNSLie`,
  `GetDNSLie`, `GetAnswers`, `BuildResponse`, `PackAnswers`.
* Interaction: one goroutine per question; the maps are locked, the fields of a
  record mostly not; records copied from a rule share their lists, and the line
  `domain=[domain]` puts one record under two names.
* Hard: questions that race for a new name or for a record of two names, an index truncated
  to 16 bits, a pointer tested and used later, a read lock taken twice.
* Correct when: a fake address leads back to its name (or one that has the same record),
  a record has one, an answer is what the server said, no race ends or locks up the program.

### Profile — `phantom.go` 152–198, 507–918
* State: the outbounds, the records of names, the sorted `IPv4Ranges` and
  `IPv6Ranges`. Written at start (`src/main.go` 151–164), and by the `load` command of
  `Netcat` (`proxy.go` 396–402) while searches run, without a lock.
* Operations: `LoadProfile`, `CreateOutbounds`, `GetOutbound` (names, by suffix),
  `GetOutboundByIP` (binary search).
* Hard: unsigned ends that wrap around, nested ranges, an off-by-one at an edge.
* Correct when: the search agrees with the lines of the profile.

### TCP redirection — `proxy.go` 78–366, `tcp.go` 191–203
* State: per connection the outbound and the name in use, the entry of `Nose` of a fake
  address, the retries left, the connection to the server and the packet it came with, two
  copying goroutines and the channel between them.
* Operations: `tcp_redirect`, `relay`, `Keep`.
* Hard: the name in the hello replaces the one that was resolved; attempts fail at any
  point and go on with a retry or a fallback; only one of the two copies is waited
  for.
* Correct when: what is dialed goes through the outbound of its name, every
  connection is closed, both goroutines end.

### Port mapping — `portmapping.go` 245–439
* State: `SrcAddr` (one for all clients) or `UDPMap` with a reader per client; for TCP
  a relay of two goroutines per connection.
* Operations: `UDPMapping`, `TCPMapping`, `tcpMappingRelay`, `DialTCPBind`.
* Hard: `SrcAddr` and `UDPMap`'s entries change between a request and its answer; a
  copy that nobody joins, and one that writes to a client with no deadline.
* Correct when: the map is exact, a relay ends with its remote (unless its client never
  reads), and an answer goes astray only where the design says so.

### Connection monitor — `tcp_root.go` 33–56, `pcap*.go`, `windivert.go`, `tcp_windows.go`
* State: `ConnSyn` (per address a counted entry), `ConnWait4`/`ConnWait6`, `ConnInfo4`/
  `ConnInfo6` (a channel per local port), `TFOSynID`, `TFOPayload`.
* Operations: `AddConn`, `DelConn`, `DialConnInfo`, `connectionMonitor` (two of them),
  and the goroutine that offers a header for two seconds.
* Hard: counters changed without a lock; a port used again while an offer is pending; a
  slot computed before the number it depends on is taken.
* Correct when: the counter is exact, a dial is given its own headers, a SYN carries its
  own data.

### Dial — `tcp_root.go` 58–399, `tcp_user.go`, `tcp_linux.go` 96–261, `raw.go` 237–342
* State: what is left to send of the header, the sequence number kept by hand, the TTL
  and the spliced pages.
* Operations: `dial` of both builds, `SendWithOption`, `SendWithFakePayload` (of Linux, and
  the empty ones of `tcp_windows.go` and `tcp_generic.go`),
  `GetFakePayload`, `ProxyHandshake` (`proxy.go` 431–626), `Keep`.
* Hard: the header leaves in pieces, some urgent, some out of order, beside decoys; each
  step may fail half-way.
* Correct when: the server reads the header once and in order, decoys have the right
  number, no slice is out of bounds.

### The rest
`SocksProxy` and its negotiation as a server (`socks.go` 1–189, 436–719), remote UDP
connections over SOCKS (`udp.go`), other socket options (`tcp*.go`,
`udp_generic.go`), the HTTP proxy (`http.go`), the DNS wire format (`dns.go`),
start-up and the system's proxy settings (`src/main.go`, `src/proxy/`).

How they interact. The servers (SOCKS, HTTP, transparent, mappings) end in
`tcp_redirect` or in one of the UDP tables; those choose an outbound through the
profile and the DNS cache, and dial; a dial with raw packets waits for the monitor.
The shared state between components is the DNS cache, the monitor's tables and the
queues of BIND; everything else belongs to one connection or one server loop.

## 2. Modules

| Module | Models | Proofs |
| --- | --- | --- |
| `BindQueue` | BIND port queue | `BindQueueProofs` |
| `UDPFlow` | what a UDP flow promises: a lossy pipe that never reorders or repeats (abstract) | |
| `FlowTable` | what a table of sessions promises: entries for open connections only, closed after they have left (abstract) | |
| `TProxyUDP` | transparent UDP proxy; implements `UDPFlow` | `ProxyProofs` |
| `SocksUDP` | SOCKS UDP server; implements `FlowTable` | `SocksUDPProofs` |
| `UoT` | UDP over TCP, one tunnel; implements `FlowTable` | `UoTProofs` |
| `QUICProxy` | QUIC proxy; implements `FlowTable` | `QUICProofs` |
| `QUICRewriter` | Initial rewriter with a client, a server and the network | `QUICProofs` |
| `QUICCollector` | one hold of Initials and its collector | `QUICProofs` |
| `DNSCache` | DNS cache and fake addresses | `DNSCacheProofs` |
| `ConnMonitor` | the counters and channels between dials and either monitor | `RawDialProofs` |
| `Dial` | the sends of `dial` and what the server reads of them | `RawDialProofs` |
| `Redirect` | `tcp_redirect`, `relay` and `Keep` for one connection | `ProxyProofs` |
| `Profile` | loading and searching address ranges | `ProxyProofs` |
| `PortMapping` | the mappings of UDP and TCP ports; its map implements `FlowTable` | `PortMappingProofs` |
| `MC...` | them instantiated for TLC, with their symmetry | |

Three of the `MC` modules hold two modules side by side: `MCQUICRewriter`
(`QUICRewriter` and `QUICCollector`), `MCRawDial` (`ConnMonitor` and `Dial`) and
`MCRedirect` (`Redirect` and `Profile`). The two are stages of one path through the
program that share no variable: a hold is released before its Initials are rewritten,
a monitor answers before a dial sends, a profile is loaded and searched before a
redirect begins. A behaviour takes the steps of one of them while the other stands
still, so that a run checks exactly what two runs would.

Conventions. A critical section is one action, and so is every system call; between
two actions anything else may run. Critical sections are merged only where one
goroutine alone touches what they protect, and the module's header says so. A
variable has the name of the code's variable or field. An identity (of a queue
object, of a session) may be reused once nothing refers to it, as memory is, so
that a finite set of them bounds how many exist at once and not how many there are
in a behaviour. What a peer, the operating system or a parser decides is a
disjunction. "History" variables are read by properties only. A definition
headed "Mutant:" is a plausible bug in the definition that follows; no
specification uses it. Replacing the definition by it breaks a property, which
shows that the property looks at the code in question.

### BindQueue
Per key: `cur` is the map's entry, `listening` and `waiters` belong to the queue
objects, mapped or not; `pc` says where a session is in `socks5Bind`. The actions
follow the code in order: `GetQueue` (the map's lock), `AcquireListen`,
`AcquireFail`, `AcquireQueue` (the queue's lock), `WaitNotified`/`WaitCanceled`
(the select), `RecvSlot`, `JoinWatcher`, `ForwardPop`/`ForwardSend` (the pop under
the lock and the send after it), `CheckEmpty`/`DeleteQueue`
(`maybeDeleteBindQueue`), `FirstReply`, `AcceptInbound`/`AcceptError`,
`CloseListener`, `ReleaseGet`/`ReleaseClear`, `SecondReply`, `RelayEnds`. The
watcher has its own (`Watch...`). With `FixedPort` one socket may hold the port;
without it (port 0) the system grants any number.

### TProxyUDP
`job` is what the dispatcher has in hand, `phase` where `run` is (waiting for a
token, each dial, the zero datagram, the held Initials, the packets queued
meanwhile, the loop), `reader` where `relayReplies` is. `hand` and `counted`
separate the receive from `upstream` and the subtraction from `queuedSize`, which
are different moments in the code. A datagram is its number in the
order of arrival, its size and the packet number of its Initial; `datagrams` sorts a
hold by the rank of each of its Initials. `pipe` is the refinement mapping to `UDPFlow`:
the dispatcher's hand-over and what is queued in the session that may still write.

### SocksUDP, UoT, QUICProxy
One reader of the socket (`main`) and one goroutine per session (`reader`). The
three differ exactly in what decides whether deleting by key is safe: `SocksUDP`
starts the reader before the first datagrams are written and deletes without
comparing; `UoT` does the same but compares; `QUICProxy` deletes without
comparing but starts the reader after the writes. The models keep those orders.
`SocksUDP` drops its limit for plain flows because the code has none there.

What all three, and the map of `PortMapping`, have in common is `FlowTable`: `table` is
the code's map and `live` (the operator `Live`) the open connections, each with the key it
was started for. `KeepsTable` says that a module implements it.

### QUICRewriter
The client numbers its Initials, marks them with the connection ID it uses, and
starts again after a Retry; the rewriter handles any of them, repeated or late;
the server accepts what it receives and acknowledges all it has; `Reply` maps the
acknowledgement back. `mapAckPN`, the ranges of an ACK frame and their merge are
operators.

### DNSCache
A record is known by the query that made it, a list of addresses by the query that
stored it, and an address by the name it was asked for. Every access to a record
outside a lock is an action: the test of a pointer, its use after a call, the store
of `nil`, the copy of a rule's record into one that is in the map already. `writer` is
the query that has `DNSRecordMutex` or is next to have it: as in `sync.RWMutex`, a
writer that waits keeps new readers out, also the one that is in `PackAnswers` and has
the lock from `BuildResponse`. A nil pointer used is the label `panic`, after which
nothing runs. `known` and `fakeip` are the configuration. Time is `Expire`.
`profile` is what `LoadProfile` and `LoadHosts` leave behind: which names have a record, of
their own, of another name or of the rule (`domain=[domain]`), which have an entry in `Nose`,
and which a list. `Key` names the record of a name, `Kin` the names and the rule that
its answers may come from.

### QUICCollector
A hello is cut into cells, and each Initial of a connection carries some of them.
`Add`, `OverLimit`, `Unreadable` and `Fails` are the outcomes of adding a datagram;
`Flush` is what the SOCKS callers do with a datagram that is not an Initial; `byName`
tells the callers that wait for a server name from those that wait for the whole hello.
An Initial is readable when `decodePacketNumber`, an operator over a `Window` of any
size, gives its own number back.

### ConnMonitor
The load, the change and the store in `AddConn` and `DelConn` are different actions.
`MonitorSyn` is the monitor of pcap, `DivertSyn` and `DivertSynAck` are that of
WinDivert, which also puts the data of a Fast Open into the SYN; `offers` are the
goroutines that wait two seconds on a port's channel, `buffer` what that of WinDivert
holds. The kernel may send a SYN again.

### Dial
A branch of `dial` is a program, a sequence of sends, of which any may fail; `Branch` picks
it from the hints. The sends of `SendWithOption` are "option", which on Linux write the data
and at most two urgent bytes (`FirstUrgentLost` when only the second leaves), and on another
`system` do nothing and succeed (`Skip`). `kernel` is what the socket was given, `raw` what
left as a raw segment, `spliced` what leaves from pages that first hold a decoy. `Read` puts
together what the server reads. `OOBProgram` to `ActiveProgram` follow the branches of
`tcp_user.go` and `tcp_root.go` in their order; `build` tells the two files apart and, in
the second, the paths without `HINT_FAKE` and with `PassiveMode`.

### Redirect
`Choose` and `Hello` choose the outbound twice: by name, by address, or from the entry of
`Nose` (`lie`), which has an outbound of its own; a rule may be `Nil`, at which `Hello`
returns (`HelloNoRule`) and `Choose` goes on to `Direct`. `Connect` dials, `HelloPassed`,
`HelloRetry` and `HelloFails` are the wait for the server's first answer, `Failed` goes on
with a fallback, `Plain` and `PlainAgain` are the requests without TLS, `Direct` the
connection where there is no outbound or one without hints. The copies of `relay` hand their
end to each other through `errch`; those of `Keep` do not. `info` may be the packet of a
first dial that failed (`PlainAgain` leaves it alone), and decides between the two. `left`
is the set of the connections of attempts that the code gives up without closing them.

### Profile
`Section` and `Prefix` are the lines of a profile, `Sort` its end, `Lookup`, `SearchStep`
and `SearchReturns` a search. `Wrap` is unsigned addition at the width `Space`.

### PortMapping
`mode` is the kind of mapping; each has its variables. `FixedRead`/`FixedReply` race for
`SrcAddr`; `MapLookup`, `MapDial`, `MapInsert` are the loop's steps and `ReaderError`,
`ReaderDelete`, `ReaderClose` a reader's; `Accept` to `DownEnds` are a TCP relay, where
`writing` says that a write to the client is under way.

## 3. Runs

| Run | Instance | Shows |
| --- | --- | --- |
| `bind_queue` | 3 sessions, 4 queue objects, a fixed port, the system failing at will | each pop answered by one token that somebody waits for (`OneHandoff`); no stale `listening` flag (`ListeningIsHeld`); no lost wake-up (`BatonInFlight`); no entry left when all have ended (`NoLeak`); a port is found taken only after a session went through an orphan (`RefusedOnlyAfterStray`) |
| `bind_live` | 2 sessions, 3 objects, port 0, fair | a waiter is served (`WaiterServed`); a client that leaves ends its session (`ClosedClientLeaves`) |
| `tproxy` | a plain and an HTTP/3 flow, 3 sessions, room for one entry, one queued packet, one dial worker, 3 datagrams of 2 sizes | bytes and tokens are accounted for exactly (`CountsExact`), a flow is in one place and the table in its limit (`OneHome`); implements `UDPFlow` (`InOrder`) |
| `tproxy_live` | 2 flows that compete for one dial worker, fair | every session ends with both sockets closed (`SessionEnds`) |
| `socks_udp` | a plain and an HTTP/3 flow, 3 sessions, one held entry, fair | no flow is mapped to a closed connection, and none loses its session before a first write fails (`MapExact`); `EveryConnCloses` |
| `uot` | 3 flows, one of each kind, over a table of 2, 3 sessions, fair | `MapExact`, with the limit of the table; `TunnelDrains` |
| `quic_proxy` | 3 clients, 3 sessions, room for 2 held Initials, fair | `MapExact`, `EveryConnCloses` |
| `quic_rewriter` | 4 Initials, one Retry, loss, repetition and reordering; and a hold of 4 datagrams, 2 connections, hellos of 4 or 5 Initials, numbers modulo 4 | `WireUnique`, `AckSound`, `RemapExact`; `ReleasedWhole`, `GivenUpOnlyFar` |
| `dns_cache` | 3 questions, 2 names: under one suffix rule, one or both with the record of the rule or of one of them, with or without addresses and an entry in `Nose`; 3 fake addresses | `LieTrue`, `OneLie`, `AnswerExact`; a panic needs two questions for one record (`PanicOnlyOverlapped`), a lock-up needs the nested read lock (`StuckOnlyNested`) |
| `raw_dial` | 2 dials to one address over 2 ports, either monitor, 2 slots, one SYN sent again; and a header of 8 cells, both systems, all builds, 66 sets of hints, 4 protocols, names of every place and length | `CountExact`, `OwnInfo`, `OwnData`; `StreamTrue`, `SeqTrue`, `PanicOnlyKnown` |
| `port_mapping` | 2 clients, 3 connections, 2 relays, 3 requests, all 4 kinds, fair | `MapExact`, `MisledOnlyByLater`, `RelayEnds` |
| `redirect` | 2 outbounds, 2 names, 2 retries, 4 dials, 102 configurations, with a name or an address without an outbound and with fake addresses of either kind, fair; and every profile of up to 3 prefixes over 8 addresses | `OutboundOfDomain`, `AllClosed`, `RedirectEnds`; `LookupExact` |

Why the bounds are enough. In the queue three sessions give one that
holds the slot, one that waits and one that comes or is cancelled in between, and
a fourth queue object lets every session hold a different orphan while one is
mapped. In the UDP models one session more than the map can hold (two, where the
table has room for one) lets an old one be closing while its successor runs, which
is what a delete by key can confuse; limits of one or two are reached, exceeded and
freed again. Three datagrams are one before, one during and one after a dial, or
two held Initials in the wrong order and one that completes them. Four Initials
allow one before the split, the split one, and two after it that overtake each
other. In the collector, a window of four with five Initials puts numbers on both
sides of half a window, and two connections reset each other. Three questions are
one that has stored an answer, one that finds it, and one that removes it; two names
show what sharing a rule's list, or a record, does; one fake address less than there can be makes
them run out. Two dials are all that can race for a counter, a port or a slot; a
number of Fast Open that names no slot is next after one that does. A header of eight
cells has a place for a name before, at and after every cut that a branch makes. Four
dials are a first attempt, its two retries and a fallback. Three prefixes over eight
addresses are nested, adjacent, apart, and at both ends of the space; searches take
up to two halvings.

Deadlock checking is off where the system really stops: `quic_rewriter` (its bound
makes the client stop), `dns_cache` (`StuckOnlyNested` says when), `raw_dial` (a dial
is over, or has panicked), `port_mapping` (relays and requests are used up) and
`redirect` (one connection is over). Every other run checks it, the finished system
being a named stuttering action.

Symmetry is used in the runs of safety properties only, over identities that no
definition compares in order.

### Fairness
Weak fairness of each goroutine of the program, because the Go scheduler runs every
goroutine that can run. It covers the steps that end a wait: a poll of
`watchBindControl` ends after 200 ms; a reader's `Read` meets its deadline when
its peer is silent (two minutes, or the idle timeout that the code sets); a dial
has a timeout. So the liveness properties of the UDP models are about flows
whose peers fall silent in the end; one that talks for ever keeps its session,
rightly. No other step of a client, a server
or the system is fair: `Accept` on an open listener need never return, and a client need
never send or close. `WaiterServed` assumes in its statement what the code cannot
ensure, that no listener stays open for ever. `Redirect` and `PortMapping` have no time
limits of their own to lean on: a read from a peer is fair only once that peer has
ended its side, and `RedirectEnds` and `RelayEnds` say what follows from that.
In `PortMapping` the copy from the remote may read and write any number of times before
it gets to the remote's end, which is why `DownEnds` is strongly fair (what was sent before
the end is finite); nothing makes a client read, so `DownWritten` is not fair at all, and
`RelayEnds` has its exception. `Redirect` does not look into the writes of its copies: it
takes it that a peer which has ended does not keep a write to it waiting for ever.

## 4. Proofs

All for every value of the constants, from the `ASSUME`s of the modules alone, which TLC
evaluates in every run: `None` (in `Redirect`, `Nil`) is not an identity, a record or an
address list; flags are Boolean, limits natural numbers; at least one client, flow, name or
Initial; a name whose record is that of another one has it from a name with a record of its
own (`ProfileAssumption` of `DNSCache`); fallbacks make no circle; the dials of
`ConnMonitor` are finitely many; the protocols and builds of `Dial` are those of the code,
and a header has more than four cells. No theorem about a specification has another
hypothesis.

Every proof has the same outline: an inductive invariant, one step per action, and the
property read off it. What follows is what the invariant has to say.

* `BindQueueProofs`: `TypeCorrect`, `QueueDiscipline`, `HandoffExact`,
  `NoStaleListening`, `NoLostWakeup`, `NothingLeaks`, `RefusalNeedsStray`. The first
  five rest on the types, `PcInv`, `RemovedInv` and the safety properties themselves,
  which need each other: that a pop finds a live waiter comes from `QueuedOnce`, that
  its send does not block from `OneHandoff`, that the release clears the right object
  from `ListeningIsHeld`, and the wake-up argument (`BatonInFlight`) follows the slot
  through all of them. `PcInv` ties the phases of a session to those of its
  watcher (a session past the join has no running watcher) and `RemovedInv` says that a
  cancelled waiter that was not popped has left the queue. `NothingLeaks` needs more
  than that every entry in the map is in use: an empty queue in the map has a session or a
  watcher on its way to look at it again (`Tended`). For `RefusalNeedsStray`, while
  nobody has gone through an orphan at most one session has the slot, that of the mapped
  queue, whose flag says so (`SoleHolder`), and a socket is open only in such hands
  (`SockHeld`). The number of sessions and of queue objects is arbitrary.
* `QUICProofs`, proxy: `TypeCorrect`, with the bound on held Initials, and
  `MapIsExact`. Added for the induction: `SetupInv` (a session being set up is open
  and has no reader) and `UnmappedInv` (its client is not mapped while one is set
  up), which is why no second session can be started under the key that a reader
  will delete.
* `QUICProofs`, rewriter: `MapInverts` and `MapMonotone` about `mapAckPN`, for every
  packet number, and `NoNumberReused`. The invariant describes what can be on the
  wire before and after the split (`UnsplitInv`, `SplitInv`) and which number each
  packet has there (`Layout`), from which uniqueness follows. `AckIsSound` adds
  `NumberInv` (a number on the wire is the client's own or, from the split packet on, one
  more) and `ReceivedInv` (the server has packets of the present epoch only), and rests
  on `RemapStaysExact`. What `remapAck` computes is `RemapIsExact`, for any frame that can
  be encoded: each turn of its loop (`RemapGoesOn`) leaves what can be encoded and
  acknowledges the images of the numbers read and no others, also where the two
  fragments' numbers become one and ranges come to touch. The induction over the ranges
  is a least counterexample (`LeastNatural`, from the well-foundedness of the naturals),
  and that the recursive function of the model has values at all (`RemapRuns`) is proved
  in the same way, since TLAPS knows it as a `CHOOSE` only. `RangesOf` says that the
  frame which the model makes for a set acknowledges that set.
* `QUICProofs`, collector: `NumberDecoded`, that `decodePacketNumber` gives a number back
  that is less than half a window from the one expected, for every even window (the
  argument is about quotients: the number is in the window of the expected one, the one
  before or the one after). `ReleasedIsWhole` and `GivenUpIsFar` follow from an invariant
  that ties each field of the collector to the Initials heard since the last one of
  another connection: `expected` is one more than the highest of them, `covered` the
  union of their cells.
* `DNSCacheProofs`: `TypeCorrect` and `LieIsTrue`. The invariant says that the record
  a query has was made for the name it asks for (`MineInv`, and `MapInv` for those in
  the cache), and that every index in a record, in an answer or on its way
  between `AddDNSLie` and the record is that of an entry of `Nose` with a name of this
  record or the rule's (`IndexInv`). `Nose` only grows, so entries stay what they are.
  `NameHasOneLie`, `PanicNeedsOverlap` and `AnswersAreExact` are about records for which
  queries never overlapped ("clean"; `Key` says which record a name has), while those for
  others may. They share
  `CleanInv`. At most one query of a clean record is under way (`Single`), and it works on
  the record in the map (`CurrentInv`), which no other query touches. Lists cross records only
  through the rule's (`HintInv`, `ListInv`; `Alone`), so what such a query tests is still so when
  it uses it (`FoundInv`), and what the server gave it is in the list that it answers
  with (`GotInv`). A record whose names have a fake address has the index, or a query
  about to put it there (`IndexKept`), so that none makes another (`NotNamed`).
* `ProxyProofs`, `Profile`: `LookupIsExact`, for any number of prefixes and any size of
  the address space. The invariant says that the ranges are those of the lines, that they
  are sorted once they can be searched, and that everything below `low` ends at or before
  the address and everything from `high` on ends after it; where no two prefixes overlap,
  sorted starts give sorted ends.
* `ProxyProofs`, `Redirect`: `OutboundIsOfDomain` and `EveryConnIsClosed`, for any
  profile, any chain of fallbacks and any number of retries. The first needs that a
  chain goes on with the fallback of each of its outbounds (it is the least set that does,
  with no recursion), and that the outbound of a fake address is used only as long as its name is
  dialed; the second says at each label which connections are open: those of `left`, and
  the one in use (`OpenAt`).
* `ProxyProofs`, `TProxyUDP`: `EverySessionHasOneHome`, `CountsAreExact` and
  `ImplementsFlow`, for any flows, sessions and limits. `HomeInv` says that a session is
  mapped from its start to `remove`; `PendingInv` that Initials are held only while the flow
  has no session; `TableInv` that the check of the limit still counts when the entry is
  made; `TokensInv` that the tokens out are those of the sessions that dial; `CountInv` that
  `queuedSize` is the number of bytes (a set, so that the lemmas about finite sets say what
  one datagram more or less adds) of what is queued, and of the packet that has been taken
  and not yet subtracted. For the refinement, the datagram in the dispatcher's hand is newer
  than all others, wherever they are (`FreshInv`), held Initials are newer than what the
  flow has written, and in order (`HeldInv`), and an object used again is empty
  (`QueueInv`). Then each step of a flow's sessions is an `Accept`, a `Deliver`, a `Lose` of
  `UDPFlow`, or a stutter.
* `UoTProofs`: `MapIsExact`, with the limit: from the check in `startSession` to the
  insertion there is room for one more (`TableInv`), since only the reader of the tunnel
  inserts; a session that is being set up is unmapped, open and without a reader
  (`SetupInv`), and whoever closes a connection has seen to it that it is in the map
  no more (`ClosingInv`). The two halves of the property are `MappedOpen` and `OpenMapped`.
* `SocksUDPProofs`: `MapIsExact`. Added for the induction: `MainInv` (a session being set
  up is open, without a reader, and its flow without an entry; one given up after a
  failed write is no longer mapped) and `ReaderInv` (a reader that is about to close
  has no entry left). As only the main loop dials and makes entries, a stale delete can
  take an entry away but none is ever put back for a closed connection.
* `PortMappingProofs`: `MapIsExact`, with `LoopInv` (the loop dials only for a client
  without an entry) and `ConnInv` (a connection whose first write failed has no reader),
  and `MisledIsByLater`, with `SeqInv`: `SrcAddr`, when set, is the sender of the last
  datagram of all, so that a request answered to another client is an earlier one.
* `RawDialProofs`, `ConnMonitor`: `CountIsExact`, `InfoIsOwn`, `DataIsOwn`. An update of
  a counter holds the value that will be right when it is stored (`UpdateRight`), unless
  another one of the address began before (`UpdatesApart`). Whatever is known by a
  dial's port (a packet, an offer, a buffered header) is the dial's own (`PortOwn`). A slot
  holds the data of a dial in progress that will empty it (`PayloadHeld`), and two such
  dials at once were noted (`FastOpensNoted`). A dial counts
  as one of them until the monitor has read its SYN, even when it is over by then; without
  that the invariant is not inductive.
* `RawDialProofs`, `Dial`: `SeqIsTrue`, `OnlyKnownPanics` and `StreamIsTrue`, for a header
  of any length and a name at any place in it. Every program of sends that a branch builds
  has its bounds in order (`PanicFree`). Where the number is known, the bytes left to be
  sent less what is left to be added to `seq` make up what `seq` is ahead of the kernel
  (`SeqInv`, with a witness function for the sum, as a fold could not be unfolded). For the
  stream the invariant is `StreamInv`: what is left of the program leads, if no send
  fails, to a stream that reads as the handshake and the header, and no page of it arrives
  as a decoy on the way (`Safe`), or the program ends (`Doomed`). `Laid` says how much of
  the header is in the stream at its place, `Runs` that a piece of the program leads from
  one stream to another; there is a lemma for each send (`LaidGrows`, `UrgentGrows`,
  `RawRuns`, `PagesRun` and so on), one for each branch (`UserLeads`, `OOBLeads`, `PlainLeads`,
  `PassiveLeads`, `ActiveLeads`), and one that a send leaves `StreamInv` true of the rest
  (`SendIsAfter`). `StreamRead` is the step from what is laid to how the server reads it.

* `TableIsKept`, in `SocksUDPProofs`, `UoTProofs`, `QUICProofs` and `PortMappingProofs`: the
  four tables implement `FlowTable`. A dial is a `Dial`, an insertion an `Insert`, a delete a
  `Remove`, or a stutter where another goroutine has been there before, and a close a `Close`, or
  a stutter where the connection is closed already, as it is after a failed first
  write of `SocksUDP`. The guards of `Insert` and `Close` are what the invariants of
  `MapIsExact` say: only one goroutine inserts, and whoever closes has deleted. In
  `SocksUDP` this needs no exception for failed writes, unlike the last part of `MapExact`.
* `DNSCacheProofs`, the mutex: `LockUpIsNested` is `OnlyNested`, the second half of
  `StuckOnlyNested`. The writer of `DNSRecordMutex` is the query that is in a section under
  it, and only `NSLookup` asks for it twice (`MutexInv`); so a writer that waits does so for
  readers, and a reader that waits is in `PackAnswers`.

The `TypeCorrect` theorems and `QueueDiscipline` (a waiter is in one queue, once) are
proved only; no run needs to state them apart from the properties that rest on them. So is
`KeepsTable`: a `PROPERTY KeepsTable` in the configurations of the four modules holds too,
and says of their instances what `TableIsKept` says of all.

Only model-checked: liveness (`WaiterServed`, `ClosedClientLeaves`, `SessionEnds`,
`EveryConnCloses`, `TunnelDrains`, `RelayEnds`, `RedirectEnds`), as fairness is out of the
prover's reach, and the first half of `StuckOnlyNested`, that a query which cannot go on
waits for `DNSRecordMutex` (`Waits`), as it is about what is `ENABLED`.

## 5. What the models show about the code

* The queue of BIND sessions never loses the slot, but a session that fetched a
  queue object just before `maybeDeleteBindQueue` took it away acquires through an
  orphan. Two sessions can then listen at once (port 0) or one be refused (a given
  port). The properties say exactly that: they hold until the first such
  acquisition (`strayed`), and safety of the slot holds regardless.
* In the SOCKS UDP server, a failed first write leaves a reader that will delete
  the entry of whatever session has replaced its own. The replacement goes on
  relaying until it times out but is no longer found (the last part of `MapExact` holds
  until the first such failure). Neither a closed connection in the map nor a
  connection that nobody closes comes of it.
* The rewriter's numbering relies on the split packet being the first of its
  connection ID to be rewritten: a later one that has left unsplit before it has
  the number of the second fragment (`overtaken`), and so has one addressed to the
  ID chosen by the server, which the rewriter cannot decrypt (`Switched`).
  `WireUnique` and the second part of `AckSound` are stated with these conditions, that
  no packet is acknowledged which the client never sent, and `RemapExact`, without.
* `BuildResponse` calls `PackAnswers` with `DNSRecordMutex` read-locked, and
  `PackAnswers` read-locks it again. A `GetAnswers` that asks for the lock in between
  waits for the first read lock and keeps out the second: all three stay where
  they are, and so does every later question that reaches a record. `StuckOnlyNested`
  shows that this is the only lock-up, and a run that forbids stuck states finds it
  in 13 steps, with two questions that have nothing in common but the lock.
* A list that `NSRequest` removes because it expired may be in the hands of `NSLookup`,
  which then uses a nil pointer. It takes two questions for the same record at
  once, which is what `NSLookup` with type 0 makes itself (A and AAAA on one record).
* Overlapping questions for a new name can give it two fake addresses (both lead
  back to it) and put its address into the list of the rule it falls under, from
  where other names of the rule are answered with it. Two names that share a record by
  `domain=[domain]` need no overlap for that: what is stored for the one, a fake address
  or a list, is what the other is answered with (a fake address leads to the name that
  was asked for first, and so does the dial that comes back with it). `LieTrue` and
  `AnswerExact` state what is left: no name is answered with what was stored for a name
  of another record, but for the rule that its record was copied from, unless
  questions overlapped.

* A collector begins again when an Initial of another connection comes from the same
  port, but the hold keeps the datagrams of the old one and hands them on with the new.
  A datagram that is not an Initial makes the QUIC and the transparent proxy give the
  hold up and the SOCKS callers send it on as it is. A hello without a server name is
  never released by the first two; it expires.
* Two `AddConn` or `DelConn` of one address at once lose a count, so that a dial is not
  seen by the monitor, or an entry stays. `CountExact` shows that nothing else does that,
  failed dials included. A header that a connection left in a channel is given to the
  next with the same port within two seconds, or, from the buffer of WinDivert's
  monitor, at any later time. `windivert.go` 611 reads `TFOSynID` that `tcp_windows.go` 26
  increments later: two Fast Open dials at once can send each other's data
  (`OwnData`). A SYN whose number names no slot (128 and up, as `TFOSynID` has two more
  bits than there are slots) is not sent on by the
  monitor.
* `Dial`: the handshake with a SOCKS5 proxy adds five to the sequence number for three
  bytes, that with an HTTPS proxy nothing, so decoys are off the stream with either
  (`SeqKnown`). A SOCKS5 proxy that refuses makes raw builds close a nil connection. The
  branches of `tcp_user.go` that cut the header never speak to a proxy, and the raw build
  without `HINT_FAKE` writes the header below the TLS of an HTTPS proxy (`MissesProxy`). In
  `PassiveMode` with an HTTPS proxy `SendWithOption` is given a TLS connection, and panics.
  With `HINT_OOB` and `HINT_TTL` a name of less than four bytes makes a slice out of range;
  a failed second dial with `HINT_TFO` is overwritten and its nil connection used. The
  errors of some urgent sends and of `PassiveMode` are lost, and `SendWithOption` loses the
  error of the first of two urgent bytes, which takes the data along. On systems other than
  Linux `SendWithOption` and `SendWithFakePayload` send nothing and report success: whatever
  part of the header `dial` leaves to them (`HINT_OOB`, `HINT_TTL` and `HINT_TCPFRAG` in
  `tcp_user.go`; `HINT_OOB` and `PassiveMode` in `tcp_root.go`) is missing from the stream,
  without an error. (The two panics just named for `PassiveMode` and `HINT_TFO` need Linux.)
  `PanicOnlyKnown` and `StreamTrue` show that there is no other case, whatever the header.
* `Redirect`: an attempt whose connection is not closed is left when the read of the
  server's hello fails with no retry left, when writing that hello to the client or the
  stripped request to the server fails, and when `dial` returns an error with a connection.
  `AllClosed` says that these are all: every other connection of the same redirect is
  closed. A plain request whose first dial fails after its SYN goes on, if the fallback's
  dial succeeds, to `Keep` with the packet of the first connection (`proxy.go` 316–327), so
  that decoys have a number of another connection; that is the reason why `info` outlives
  the dial in the model. A hello whose name has no outbound ends the redirect. The retries
  are counted for the whole request and are not renewed by a fallback; `HINT_NOTCP` and
  `HINT_TLS1_3` are not looked at again after one.
* `Profile`: a range inside another hides the rest of the outer one behind it; a range
  that ends with the last address has the `End` 0 and is never found; an IPv6 prefix
  longer than 64 bits ends the program at start (`phantom.go` 657).
* `PortMapping`: an entry whose first write failed stays in `UDPMap` without a reader, so
  its client has no answers until the program ends. In the fixed form an answer goes to
  whoever sent last. A TCP client that stays and never reads keeps a relay for ever, with
  both connections, although its remote has ended: the copy to it has no deadline
  (`portmapping.go` 378). `RelayEnds` is stated with this exception.

## 6. Not modelled

Packet number truncation, keys and padding in the rewriter; Retry, other versions and
several Initials in a datagram in the collector, which reads them one after the other;
expiry of held Initials, which is a choice; parsing and formatting of SOCKS, HTTP and DNS
messages; in the DNS cache, a record's `CName`, outbounds that differ from name to name (all
rules have one), more than one line that makes a record for a name, and a hosts line under a
rule whose record it begins with (`phantom.go` 721–742: the copy keeps the rule's IPv4 list
where the line has an IPv6 address, and the rule's index where its own outbound has no
hints); HTTPS questions and the Fallback and ECS options of a DNS server (the list that an
option supplies counts as an empty one); torn reads of a slice that two questions race for,
which need the overlap that the properties exclude; the layout of captured and crafted
packets; Fast Open of the raw build beyond its SYN; the `load` and `flush` commands of
`Netcat` (`proxy.go` 396–423), which change the profile and the cache without a lock while
everything else runs: `LookupExact` is about searches of a profile that is not being loaded;
a write to a peer that has ended and blocks all the same, in `Redirect`; rules for names,
which are a function in `Redirect` and records in `DNSCache`; `SocksProxy` and the SOCKS
negotiation of the server, the HTTP proxy and `udp.go`, each a straight line of requests and
replies; other socket options and system calls, which succeed or fail; start-up and the
system's proxy settings. Where nothing is kept between two calls there is no state to check.

## 7. Plan

Every safety property of a run is proved, except for the half of `StuckOnlyNested` about
`ENABLED`. What can still be proved: that `TProxyUDP` keeps a table too; a session is mapped
there before it dials, so that `FlowTable` does not fit as it is. What can still be
modelled: the truncated packet numbers of the rewriter (`clientExpected`, `serverExpected`),
to which `NumberDecoded` applies; `SocksProxy` as a server.
