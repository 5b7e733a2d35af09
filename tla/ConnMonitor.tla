---------------------------- MODULE ConnMonitor ----------------------------
(***************************************************************************)
(* The connection monitor (src/phantomtcp/pcap.go, windivert.go) and the   *)
(* dials that wait for it (DialConnInfo, AddConn and DelConn).  A dial     *)
(* registers the address, connects, and waits for the headers of its SYN   *)
(* on the channel of its local port.  The monitor sees the handshakes of   *)
(* the machine one after the other, looks the address up, and starts a     *)
(* goroutine that offers the headers for two seconds.                      *)
(*                                                                         *)
(* The two monitors differ: that of pcap watches and its channels have no  *)
(* buffer; that of WinDivert holds every packet until it sends it on, adds *)
(* the data of a TCP Fast Open to the SYN, and buffers one offer.  Time    *)
(* limits may run out at any moment.                                       *)
(***************************************************************************)
EXTENDS Naturals, Sequences, FiniteSets

CONSTANTS Dial,    \* calls of DialConnInfo
          Address, \* remote addresses
          Port,    \* local ports
          Slots,   \* length of TFOPayload: 64; TFOSynID has two bits more
          SynIDs,  \* bound: values of TFOSynID to begin with
          MaxResent,  \* bound: SYNs the kernel sends again
          MaxUnread, \* bound: handshakes that the monitor has yet to read
          None     \* nil

ASSUME DialAssumption == IsFiniteSet(Dial) /\ None \notin Dial
ASSUME NoneAssumption == None \notin Port \cup Nat \cup [Number : Nat, Hint : BOOLEAN]
ASSUME BoundAssumption == Slots \in Nat \ {0} /\ MaxResent \in Nat /\ MaxUnread \in Nat \ {0}
ASSUME SynIDAssumption == SynIDs \subseteq 0 .. 4 * Slots - 1

VARIABLES
  platform,   \* "pcap" or "windivert"
  addr,       \* raddr of every dial
  tfo,        \* dials with HINT_TFO, which only the monitor of WinDivert looks at
  data,       \* those of them with a payload
  ConnSyn,    \* per address: None, or its SynInfo
  ConnWait,   \* ports with ConnWait set: a SYN+ACK is expected
  TFOSynID,   \* number of the next SYN with Fast Open, a byte
  TFOPayload, \* per slot: the dial whose data it holds
  pc,         \* where each dial is
  info,       \* the local copy in AddConn and DelConn
  slot,       \* tfo_id
  mark,       \* the slot in the TTL of the SYN, None if it has none
  port,       \* local port, None if there is no connection
  resent,     \* SYNs the kernel has sent again
  answering,  \* dials that the server has an answer for
  connInfo,   \* the dial whose headers it has been given
  packets,    \* handshakes the monitor has yet to read
  offers,     \* goroutines that offer headers
  buffer,     \* per port: the channel's buffer
  raced,      \* history: addresses with two updates of ConnSyn at once
  shared,     \* history: dials whose port was not theirs alone
  overlapped, \* history: dials with data that were not alone
  carried     \* history: <<d, e>>: a SYN of d has left with the data of e

given == <<platform, addr, tfo, data>>
tables == <<ConnSyn, ConnWait, TFOSynID, TFOPayload>>
conns == <<port, resent, answering, mark>>
queues == <<packets, offers, buffer>>
history == <<raced, shared, overlapped, carried>>
vars == <<given, tables, pc, info, slot, conns, connInfo, queues, history>>

Goto(d, label) == pc' = [pc EXCEPT ![d] = label]

Init ==
  /\ platform \in {"pcap", "windivert"}
  /\ addr \in [Dial -> Address]
  /\ tfo \in IF platform = "pcap" THEN {{}} ELSE SUBSET Dial
  /\ data \in SUBSET tfo
  /\ ConnSyn = [a \in Address |-> None]
  /\ ConnWait = {}
  /\ TFOSynID \in IF tfo = {} THEN {0} ELSE SynIDs
  /\ TFOPayload = [s \in 0 .. Slots - 1 |-> None]
  /\ pc = [d \in Dial |-> "idle"]
  /\ info = [d \in Dial |-> None]
  /\ slot = [d \in Dial |-> None]
  /\ mark = [d \in Dial |-> None]
  /\ port = [d \in Dial |-> None]
  /\ resent = 0
  /\ answering = {}
  /\ connInfo = [d \in Dial |-> None]
  /\ packets = << >>
  /\ offers = {}
  /\ buffer = [p \in Port |-> None]
  /\ raced = {}
  /\ shared = {}
  /\ overlapped = {}
  /\ carried = {}

\* Between the load and the store of AddConn or DelConn.
Updating(d) == pc[d] \in {"addStore", "delStore", "delDelete"}

\* d begins an update of its entry.
NoteUpdate(d) ==
  raced' = IF \E e \in Dial \ {d} : Updating(e) /\ addr[e] = addr[d]
           THEN raced \cup {addr[d]} ELSE raced

\* The dial goes on, or a SYN of it has yet to be read.
FastOpening(d) ==
  /\ platform = "windivert" /\ d \in tfo
  /\ \/ pc[d] \notin {"idle", "open", "closed"}
     \/ \E i \in DOMAIN packets : ~packets[i].synack /\ packets[i].dial = d

-----------------------------------------------------------------------------
(* DialConnInfo.                                                           *)

\* With data, and under WinDivert, it goes to the slot of the next SYN.
ChooseSlot(d) ==
  /\ pc[d] = "idle"
  /\ Goto(d, "addLoad")
  /\ IF platform = "windivert" /\ d \in data
     THEN /\ slot' = [slot EXCEPT ![d] = TFOSynID % Slots]
          /\ TFOPayload' = [TFOPayload EXCEPT ![TFOSynID % Slots] = d]
     ELSE UNCHANGED <<slot, TFOPayload>>
  /\ LET others == {e \in Dial : FastOpening(e)} IN
     overlapped' = IF d \notin tfo \/ others = {} THEN overlapped ELSE overlapped \cup others \cup {d}
  /\ UNCHANGED <<given, ConnSyn, ConnWait, TFOSynID, info, conns, connInfo, queues,
                 raced, shared, carried>>

\* AddConn: LoadOrStore makes the entry, or returns a copy of it.
AddLoadOrStore(d) ==
  /\ pc[d] = "addLoad"
  /\ IF ConnSyn[addr[d]] = None
     THEN /\ ConnSyn' = [ConnSyn EXCEPT ![addr[d]] = [Number |-> 1, Hint |-> d \in tfo]]
          /\ Goto(d, "dial")
          /\ UNCHANGED info
     ELSE /\ info' = [info EXCEPT ![d] = [Number |-> ConnSyn[addr[d]].Number + 1,
                                          Hint |-> d \in tfo]]
          /\ Goto(d, "addStore")
          /\ UNCHANGED ConnSyn
  /\ NoteUpdate(d)
  /\ UNCHANGED <<given, ConnWait, TFOSynID, TFOPayload, slot, conns, connInfo, queues,
                 shared, overlapped, carried>>

AddStore(d) ==
  /\ pc[d] = "addStore"
  /\ ConnSyn' = [ConnSyn EXCEPT ![addr[d]] = info[d]]
  /\ Goto(d, "dial")
  /\ UNCHANGED <<given, ConnWait, TFOSynID, TFOPayload, info, slot, conns, connInfo,
                 queues, history>>

\* DialWithOption: the kernel picks a port, which another connection may have
\* to another address.  For Fast Open under WinDivert the TTL, TFOSynID | 64,
\* names a slot; with the highest bit set it is not below 128 and names none.
Connect(d, p) ==
  /\ pc[d] = "dial" /\ Len(packets) < MaxUnread
  /\ \A e \in Dial : port[e] = p => addr[e] # addr[d]
  /\ port' = [port EXCEPT ![d] = p]
  /\ IF platform = "windivert" /\ d \in tfo
     THEN /\ mark' = [mark EXCEPT ![d] = IF TFOSynID < 2 * Slots THEN TFOSynID % Slots ELSE None]
          /\ TFOSynID' = (TFOSynID + 1) % (4 * Slots)
     ELSE UNCHANGED <<mark, TFOSynID>>
  /\ packets' = Append(packets, [synack |-> FALSE, dial |-> d, port |-> p, mark |-> mark'[d]])
  /\ LET others == {e \in Dial \ {d} : port[e] = p}
         quiet == /\ others = {} /\ buffer[p] = None
                  /\ \A o \in offers : o.port # p
                  /\ \A i \in DOMAIN packets : packets[i].port # p
     IN shared' = IF quiet THEN shared ELSE shared \cup others \cup {d}
  /\ Goto(d, "connecting")
  /\ UNCHANGED <<given, ConnSyn, ConnWait, TFOPayload, info, slot, resent, answering, connInfo,
                 offers, buffer, raced, overlapped, carried>>

\* The kernel sends the SYN again.
Resend(d) ==
  /\ pc[d] = "connecting" /\ resent < MaxResent /\ Len(packets) < MaxUnread
  /\ resent' = resent + 1
  /\ packets' = Append(packets, [synack |-> FALSE, dial |-> d, port |-> port[d], mark |-> mark[d]])
  /\ UNCHANGED <<given, tables, pc, info, slot, port, answering, mark, connInfo, offers,
                 buffer, history>>

\* The answer of the server arrives: under WinDivert it waits for the monitor.
ServerAnswers(d) ==
  /\ pc[d] = "connecting"
  /\ IF platform = "pcap"
     THEN Goto(d, "wait") /\ UNCHANGED <<answering, packets>>
     ELSE /\ d \in answering /\ Len(packets) < MaxUnread
          /\ answering' = answering \ {d}
          /\ packets' = Append(packets, [synack |-> TRUE, dial |-> d, port |-> port[d], mark |-> None])
          /\ UNCHANGED pc
  /\ UNCHANGED <<given, tables, info, slot, port, resent, mark, connInfo, offers, buffer,
                 history>>

\* Refused, or no answer in time.
DialFails(d) ==
  /\ pc[d] \in {"dial", "connecting"}
  /\ port' = [port EXCEPT ![d] = None]
  /\ Goto(d, "delLoad")
  /\ UNCHANGED <<given, tables, info, slot, resent, answering, mark, connInfo, queues, history>>

\* Mutant: the channel is that of the remote address.
ReceiveRemote(d) ==
  /\ pc[d] = "wait"
  /\ \E o \in offers :
       /\ addr[o.dial] = addr[d]
       /\ connInfo' = [connInfo EXCEPT ![d] = o.from]
       /\ offers' = offers \ {o}
  /\ Goto(d, "delLoad")
  /\ UNCHANGED <<given, tables, info, slot, conns, packets, buffer, history>>

\* The select of DialConnInfo: the buffer first, or a goroutine that offers.
Receive(d) ==
  /\ pc[d] = "wait"
  /\ IF buffer[port[d]] # None
     THEN /\ connInfo' = [connInfo EXCEPT ![d] = buffer[port[d]].from]
          /\ buffer' = [buffer EXCEPT ![port[d]] = None]
          /\ UNCHANGED offers
     ELSE \E o \in offers :
            /\ o.port = port[d]
            /\ connInfo' = [connInfo EXCEPT ![d] = o.from]
            /\ offers' = offers \ {o}
            /\ UNCHANGED buffer
  /\ Goto(d, "delLoad")
  /\ UNCHANGED <<given, tables, info, slot, conns, packets, history>>

WaitTimeout(d) ==
  /\ pc[d] = "wait"
  /\ Goto(d, "delLoad")
  /\ UNCHANGED <<given, tables, info, slot, conns, connInfo, queues, history>>

\* Mutant: the entry goes with the first of its dials.
DelStoreAll(d) ==
  /\ pc[d] \in {"delStore", "delDelete"}
  /\ ConnSyn' = [ConnSyn EXCEPT ![addr[d]] = None]
  /\ Goto(d, "return")
  /\ UNCHANGED <<given, ConnWait, TFOSynID, TFOPayload, info, slot, conns, connInfo,
                 queues, history>>

\* DelConn: Load, then Store of the smaller number or Delete.
DelLoad(d) ==
  /\ pc[d] = "delLoad"
  /\ LET entry == ConnSyn[addr[d]] IN
     CASE entry = None -> Goto(d, "return") /\ UNCHANGED info
       [] entry # None /\ entry.Number > 1 ->
            /\ info' = [info EXCEPT ![d] = [entry EXCEPT !.Number = @ - 1]]
            /\ Goto(d, "delStore")
       [] OTHER -> Goto(d, "delDelete") /\ UNCHANGED info
  /\ NoteUpdate(d)
  /\ UNCHANGED <<given, tables, slot, conns, connInfo, queues, shared, overlapped, carried>>

DelStore(d) ==
  /\ pc[d] \in {"delStore", "delDelete"}
  /\ ConnSyn' = [ConnSyn EXCEPT ![addr[d]] = IF pc[d] = "delStore" THEN info[d] ELSE None]
  /\ Goto(d, "return")
  /\ UNCHANGED <<given, ConnWait, TFOSynID, TFOPayload, info, slot, conns, connInfo,
                 queues, history>>

\* Mutant: the data stay in their slot.
ReturnKeepsSlot(d) ==
  /\ pc[d] = "return"
  /\ \/ /\ port[d] # None
        /\ Goto(d, "open")
        /\ UNCHANGED port
     \/ /\ port[d] = None \/ platform = "pcap"
        /\ Goto(d, "closed")
        /\ port' = [port EXCEPT ![d] = None]
  /\ info' = [info EXCEPT ![d] = None]
  /\ slot' = [slot EXCEPT ![d] = None]
  /\ mark' = [mark EXCEPT ![d] = None]
  /\ answering' = answering \ {d}
  /\ UNCHANGED <<given, tables, resent, connInfo, queues, history>>

\* The slot is emptied.  A connection that needs headers (MaxTTL, or data) is
\* closed under pcap if it has none, or if a socket option cannot be set.
Return(d) ==
  /\ pc[d] = "return"
  /\ TFOPayload' = IF slot[d] = None THEN TFOPayload ELSE [TFOPayload EXCEPT ![slot[d]] = None]
  /\ \/ /\ port[d] # None
        /\ Goto(d, "open")
        /\ UNCHANGED port
     \/ /\ port[d] = None \/ platform = "pcap"
        /\ Goto(d, "closed")
        /\ port' = [port EXCEPT ![d] = None]
  /\ info' = [info EXCEPT ![d] = None]
  /\ slot' = [slot EXCEPT ![d] = None]
  /\ mark' = [mark EXCEPT ![d] = None]
  /\ answering' = answering \ {d}
  /\ UNCHANGED <<given, ConnSyn, ConnWait, TFOSynID, resent, connInfo, queues, history>>

\* The relay is over.
Close(d) ==
  /\ pc[d] = "open"
  /\ port' = [port EXCEPT ![d] = None]
  /\ Goto(d, "closed")
  /\ UNCHANGED <<given, tables, info, slot, resent, answering, mark, connInfo, queues, history>>

-----------------------------------------------------------------------------
(* The monitor.                                                            *)

Offer(packet, from) ==
  offers' = offers \cup
    {[dial |-> packet.dial, port |-> packet.port, from |-> from,
      id |-> CHOOSE n \in 0 .. Cardinality(offers) :
               \A o \in offers : o.dial = packet.dial => o.id # n]}

\* The server will answer, if anybody still waits for that.
Leaves(d) == answering' = IF pc[d] = "connecting" THEN answering \cup {d} ELSE answering

\* pcap: a SYN to a registered address is offered; ConnWait is never set, so a
\* SYN+ACK is passed over.
MonitorSyn ==
  /\ platform = "pcap" /\ packets # << >>
  /\ packets' = Tail(packets)
  /\ LET packet == Head(packets) IN
     IF ConnSyn[addr[packet.dial]] # None THEN Offer(packet, packet.dial) ELSE UNCHANGED offers
  /\ UNCHANGED <<given, tables, pc, info, slot, conns, connInfo, buffer, history>>

\* WinDivert, a SYN.  Under a registration with HINT_TFO one whose TTL names a
\* slot leaves with the data of the slot, if there is a cookie for the server,
\* and is dropped if there are none; one whose TTL does not is not sent on.
DivertSyn ==
  /\ platform = "windivert" /\ packets # << >> /\ ~Head(packets).synack
  /\ packets' = Tail(packets)
  /\ LET packet == Head(packets)
         d == packet.dial
         entry == ConnSyn[addr[d]]
     IN CASE entry = None ->
               Leaves(d) /\ UNCHANGED <<ConnWait, offers, carried>>
          [] entry # None /\ ~entry.Hint ->
               Leaves(d) /\ Offer(packet, d) /\ UNCHANGED <<ConnWait, carried>>
          [] entry # None /\ entry.Hint /\ packet.mark = None ->
               Offer(packet, d) /\ UNCHANGED <<answering, ConnWait, carried>>
          [] OTHER ->
               LET payload == TFOPayload[packet.mark] IN
               IF payload = None
               THEN Offer(packet, None) /\ UNCHANGED <<answering, ConnWait, carried>>
               ELSE /\ Leaves(d)
                    /\ carried' \in {carried, carried \cup {<<d, payload>>}}
                    /\ ConnWait' = ConnWait \cup {packet.port}
                    /\ Offer(packet, d)
  /\ UNCHANGED <<given, ConnSyn, TFOSynID, TFOPayload, pc, info, slot, port, resent, mark,
                 connInfo, buffer, raced, shared, overlapped>>

\* WinDivert, a SYN+ACK: one that is expected is offered and goes no further.
DivertSynAck ==
  /\ platform = "windivert" /\ packets # << >> /\ Head(packets).synack
  /\ packets' = Tail(packets)
  /\ LET packet == Head(packets)
         d == packet.dial
     IN IF packet.port \in ConnWait
        THEN /\ ConnWait' = ConnWait \ {packet.port}
             /\ Offer(packet, d)
             /\ Leaves(d)
             /\ UNCHANGED pc
        ELSE /\ IF pc[d] = "connecting" THEN Goto(d, "wait") ELSE UNCHANGED pc
             /\ UNCHANGED <<ConnWait, offers, answering>>
  /\ UNCHANGED <<given, ConnSyn, TFOSynID, TFOPayload, info, slot, port, resent, mark,
                 connInfo, buffer, history>>

\* The goroutine of an offer: into the buffer, or two seconds are over.
Buffer(o) ==
  /\ platform = "windivert" /\ buffer[o.port] = None
  /\ offers' = offers \ {o}
  /\ buffer' = [buffer EXCEPT ![o.port] = o]
  /\ UNCHANGED <<given, tables, pc, info, slot, conns, connInfo, packets, history>>

Expire(o) ==
  /\ platform = "pcap" \/ buffer[o.port] # None
  /\ offers' = offers \ {o}
  /\ UNCHANGED <<given, tables, pc, info, slot, conns, connInfo, packets, buffer, history>>

-----------------------------------------------------------------------------

DialStep(d) ==
  \/ ChooseSlot(d) \/ AddLoadOrStore(d) \/ AddStore(d)
  \/ \E p \in Port : Connect(d, p)
  \/ ServerAnswers(d) \/ DialFails(d) \/ Receive(d) \/ WaitTimeout(d)
  \/ DelLoad(d) \/ DelStore(d) \/ Return(d)

MonitorStep == MonitorSyn \/ DivertSyn \/ DivertSynAck

OfferEnds == \E o \in offers : Buffer(o) \/ Expire(o)

Next ==
  \/ \E d \in Dial : DialStep(d) \/ Resend(d) \/ Close(d)
  \/ MonitorStep
  \/ OfferEnds

Spec == Init /\ [][Next]_vars

-----------------------------------------------------------------------------

\* Dials that are in the count of their address.
Counted(a) == {d \in Dial : addr[d] = a /\ pc[d] \in {"dial", "connecting", "wait", "delLoad", "delStore", "delDelete"}}

\* Unless two dials to an address update its entry at the same time, the entry
\* counts exactly the dials that need it: no SYN is missed and none of other
\* programs is matched afterwards (AddConn, DelConn).
CountExact ==
  \A a \in Address \ raced :
    IF Counted(a) = {} THEN ConnSyn[a] = None
    ELSE ConnSyn[a] # None /\ ConnSyn[a].Number = Cardinality(Counted(a))

\* A dial is given the headers of another connection only if they had the same
\* local port at a time, or its port still had a handshake or an offer pending
\* from before (connectionMonitor, DialConnInfo).
OwnInfo == \A d \in Dial : connInfo[d] \in {None, d} \/ d \in shared

\* A SYN leaves with the data of another dial only if the two dials with TCP
\* Fast Open were in progress at once, the SYN of one that the monitor has yet
\* to read included (DialConnInfo, DialWithOption).
OwnData == \A c \in carried : c[1] = c[2] \/ c[1] \in overlapped
=============================================================================
