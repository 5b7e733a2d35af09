---------------------------- MODULE RawDialProofs ----------------------------
(***************************************************************************)
(* Proofs about the connection monitor and the dials that wait for it, for *)
(* any number of dials, addresses, ports and slots; and about the sends    *)
(* that follow, for a header of any length and a name at any place in it.  *)
(*                                                                         *)
(* The count of an address is right since an update that is under way      *)
(* holds, in its local copy, the number that will be right when it is      *)
(* stored; this is lost only if another update of the address begins       *)
(* before that, which raced notes.  The headers and the data that a dial   *)
(* is given are its own since all that is named by its port (handshakes,   *)
(* offers, the buffer), or by a slot, is of a dial that was in progress    *)
(* with it, which shared and overlapped note.                              *)
(*                                                                         *)
(* The server reads every byte once and in order since the program that is *)
(* chosen leads there, whatever the hints and the place of the name, and   *)
(* each send leaves the rest of it on the way.                             *)
(***************************************************************************)
EXTENDS ConnMonitor, Dial, FiniteSetTheorems, SequenceTheorems, TLAPS

-----------------------------------------------------------------------------
(* The invariant of the monitor.                                           *)

SynInfo == [Number : Nat, Hint : BOOLEAN]
Slot == 0 .. Slots - 1
Packet == [synack : BOOLEAN, dial : Dial, port : Port, mark : Slot \cup {None}]

Labels == {"idle", "addLoad", "addStore", "dial", "connecting", "wait", "delLoad", "delStore",
           "delDelete", "return", "open", "closed"}

Offered(o) == o.dial \in Dial /\ o.port \in Port /\ o.from \in {None, o.dial}

TypeOK ==
  /\ addr \in [Dial -> Address]
  /\ tfo \subseteq Dial /\ data \subseteq tfo
  /\ ConnSyn \in [Address -> SynInfo \cup {None}]
  /\ TFOSynID \in 0 .. 4 * Slots - 1
  /\ TFOPayload \in [Slot -> Dial \cup {None}]
  /\ pc \in [Dial -> Labels]
  /\ info \in [Dial -> SynInfo \cup {None}]
  /\ slot \in [Dial -> Slot \cup {None}]
  /\ mark \in [Dial -> Slot \cup {None}]
  /\ port \in [Dial -> Port \cup {None}]
  /\ \A d \in Dial : pc[d] \in {"connecting", "wait"} => port[d] # None
  /\ connInfo \in [Dial -> Dial \cup {None}]
  /\ packets \in Seq(Packet)
  /\ \A o \in offers : Offered(o)
  /\ buffer = [p \in Port |-> buffer[p]]
  /\ \A p \in Port : buffer[p] # None => Offered(buffer[p]) /\ buffer[p].port = p

\* What an update in progress will store.
UpdateRight ==
  \A d \in Dial : addr[d] \notin raced =>
    LET n == Cardinality(Counted(addr[d])) IN
    /\ pc[d] = "addStore" => n > 0 /\ info[d] # None /\ info[d].Number = n + 1
    /\ pc[d] = "delStore" => n > 1 /\ info[d] # None /\ info[d].Number = n - 1
    /\ pc[d] = "delDelete" => n = 1

UpdatesApart ==
  \A d, e \in Dial :
    Updating(d) /\ Updating(e) /\ addr[d] = addr[e] /\ addr[d] \notin raced => d = e

CountInv == CountExact /\ UpdateRight /\ UpdatesApart

\* Something that is known by the port is of the dial.
Named(e, p) ==
  \/ port[e] = p
  \/ \E i \in DOMAIN packets : packets[i].port = p /\ packets[i].dial = e
  \/ \E o \in offers : o.port = p /\ o.dial = e
  \/ buffer[p] # None /\ buffer[p].dial = e

\* All that is known by the port of a dial is its own, or the port was shared.
PortOwn ==
  \A d, e \in Dial : port[d] # None /\ d \notin shared /\ Named(e, port[d]) => e = d

\* Two dials with Fast Open are in progress only if that was noted.
FastOpensNoted ==
  \A d, e \in Dial : FastOpening(d) /\ FastOpening(e) /\ d # e => d \in overlapped

\* A slot holds the data of a dial in progress, which is to empty it.
PayloadHeld ==
  \A s \in Slot : TFOPayload[s] # None =>
    LET d == TFOPayload[s] IN
    platform = "windivert" /\ d \in tfo /\ pc[d] \notin {"idle", "open", "closed"} /\ slot[d] = s

\* Only a SYN with Fast Open is marked.
MarkedFast ==
  /\ \A d \in Dial : mark[d] # None => d \in tfo
  /\ \A i \in DOMAIN packets : packets[i].mark # None => packets[i].dial \in tfo

IInv == TypeOK /\ CountInv /\ PortOwn /\ OwnInfo /\ FastOpensNoted /\ MarkedFast
        /\ PayloadHeld /\ OwnData

-----------------------------------------------------------------------------
(* Types.                                                                  *)

LEMMA InitTypeOK == Init => TypeOK
<1> SUFFICES ASSUME Init PROVE TypeOK
  OBVIOUS
<1>1. Slots \in Nat \ {0}
  BY BoundAssumption
<1>2. TFOSynID \in 0 .. 4 * Slots - 1
  BY <1>1, SynIDAssumption DEF Init
<1>3. \A p \in Port : buffer[p] = None
  BY DEF Init
<1>4. buffer = [p \in Port |-> buffer[p]]
  BY DEF Init
<1>5. packets \in Seq(Packet) /\ offers = {}
  BY DEF Init
<1>6. TFOPayload \in [Slot -> Dial \cup {None}]
  BY DEF Init, Slot
<1>7. tfo \subseteq Dial /\ data \subseteq tfo
  <2>1. CASE platform = "pcap"
    BY <2>1 DEF Init
  <2>2. CASE platform # "pcap"
    BY <2>2 DEF Init
  <2> QED
    BY <2>1, <2>2
<1> QED
  BY <1>2, <1>3, <1>4, <1>5, <1>6, <1>7 DEF Init, TypeOK, Labels

\* A handshake at the end of those to be read.
LEMMA Appended ==
  ASSUME packets \in Seq(Packet), NEW packet \in Packet, packets' = Append(packets, packet)
  PROVE  /\ packets' \in Seq(Packet)
         /\ Len(packets') = Len(packets) + 1
         /\ \A i \in DOMAIN packets' : packets'[i] = packet \/ (i \in DOMAIN packets /\ packets'[i] = packets[i])
         /\ \A i \in DOMAIN packets : i \in DOMAIN packets' /\ packets'[i] = packets[i]
         /\ Len(packets) + 1 \in DOMAIN packets' /\ packets'[Len(packets) + 1] = packet
OBVIOUS

\* The first handshake is read.
LEMMA Unread ==
  ASSUME packets \in Seq(Packet), packets # << >>, packets' = Tail(packets)
  PROVE  /\ Head(packets) \in Packet /\ 1 \in DOMAIN packets /\ packets[1] = Head(packets)
         /\ packets' \in Seq(Packet)
         /\ \A i \in DOMAIN packets' : i + 1 \in DOMAIN packets /\ packets'[i] = packets[i + 1]
OBVIOUS

\* A new offer is that of its handshake.
LEMMA OfferTyped ==
  ASSUME NEW packet \in Packet, NEW from \in {None, packet.dial}, Offer(packet, from)
  PROVE  \A o \in offers' :
           \/ o \in offers
           \/ o.dial = packet.dial /\ o.port = packet.port /\ o.from = from /\ Offered(o)
BY DEF Offer, Packet, Offered

\* What the monitor does to what it has read.
LEMMA MonitorReads ==
  ASSUME TypeOK, MonitorStep
  PROVE  /\ packets # << >> /\ packets' = Tail(packets)
         /\ \A o \in offers' :
              \/ o \in offers
              \/ o.dial = Head(packets).dial /\ o.port = Head(packets).port /\ Offered(o)
         /\ UNCHANGED <<given, ConnSyn, TFOSynID, TFOPayload, info, slot, port, resent, mark,
                        connInfo, buffer, raced, shared, overlapped>>
         /\ \A d \in Dial : pc'[d] = pc[d] \/ (pc[d] = "connecting" /\ pc'[d] = "wait")
         /\ pc' \in [Dial -> Labels]
<1>1. packets # << >> /\ packets' = Tail(packets)
  BY DEF MonitorStep, MonitorSyn, DivertSyn, DivertSynAck
<1>2. Head(packets) \in Packet
  BY <1>1, Unread DEF TypeOK
<1> DEFINE packet == Head(packets)
           sound == \A o \in offers' :
              \/ o \in offers
              \/ o.dial = packet.dial /\ o.port = packet.port /\ Offered(o)
<1>3. (\E from \in {None, packet.dial} : Offer(packet, from)) \/ UNCHANGED offers => sound
  BY <1>2, OfferTyped
<1>4. CASE MonitorSyn
  <2>1. (\E from \in {None, packet.dial} : Offer(packet, from)) \/ UNCHANGED offers
    BY <1>4 DEF MonitorSyn
  <2> QED
    BY <1>1, <1>3, <1>4, <2>1 DEF MonitorSyn, tables, conns, history, TypeOK
<1>5. CASE DivertSyn
  <2>1. (\E from \in {None, packet.dial} : Offer(packet, from)) \/ UNCHANGED offers
    BY <1>5 DEF DivertSyn
  <2> QED
    BY <1>1, <1>3, <1>5, <2>1 DEF DivertSyn, TypeOK
<1>6. CASE DivertSynAck
  <2>1. (\E from \in {None, packet.dial} : Offer(packet, from)) \/ UNCHANGED offers
    BY <1>6 DEF DivertSynAck
  <2>2. packet.dial \in Dial
    BY <1>2 DEF Packet
  <2>3. /\ \A d \in Dial : pc'[d] = pc[d] \/ (pc[d] = "connecting" /\ pc'[d] = "wait")
        /\ pc' \in [Dial -> Labels]
    BY <1>6, <2>2 DEF DivertSynAck, Goto, TypeOK, Labels
  <2> QED
    BY <1>1, <1>3, <1>6, <2>1, <2>3 DEF DivertSynAck, history
<1> QED
  BY <1>4, <1>5, <1>6 DEF MonitorStep

LEMMA NextTypeOK == ASSUME TypeOK, [Next]_vars PROVE TypeOK'
<1>1. ASSUME NEW d \in Dial, ChooseSlot(d) PROVE TypeOK'
  <2>1. Slots \in Nat \ {0} /\ TFOSynID \in Nat
    BY BoundAssumption DEF TypeOK
  <2>2. TFOSynID % Slots \in Slot
    BY <2>1 DEF Slot
  <2> QED
    BY <1>1, <2>2 DEF TypeOK, ChooseSlot, Goto, Labels, given, conns, queues
<1>2. ASSUME NEW d \in Dial, AddLoadOrStore(d) \/ AddStore(d) \/ DelLoad(d) \/ DelStore(d) PROVE TypeOK'
  <2>1. ConnSyn' \in [Address -> SynInfo \cup {None}] /\ info' \in [Dial -> SynInfo \cup {None}]
    <3>1. addr[d] \in Address /\ ConnSyn[addr[d]] \in SynInfo \cup {None} /\ info[d] \in SynInfo \cup {None}
      BY DEF TypeOK
    <3>2. [Number |-> 1, Hint |-> d \in tfo] \in SynInfo
      BY DEF SynInfo
    <3>3. ConnSyn[addr[d]] # None =>
            /\ [Number |-> ConnSyn[addr[d]].Number + 1, Hint |-> d \in tfo] \in SynInfo
            /\ ConnSyn[addr[d]].Number > 1 =>
                 [ConnSyn[addr[d]] EXCEPT !.Number = @ - 1] \in SynInfo
      BY <3>1 DEF SynInfo
    <3>4. CASE AddLoadOrStore(d)
      BY <3>1, <3>2, <3>3, <3>4 DEF AddLoadOrStore, TypeOK
    <3>5. CASE AddStore(d) \/ DelStore(d)
      BY <3>1, <3>5 DEF AddStore, DelStore, TypeOK
    <3>6. CASE DelLoad(d)
      BY <3>1, <3>3, <3>6 DEF DelLoad, tables, TypeOK
    <3> QED
      BY <1>2, <3>4, <3>5, <3>6
  <2>2. pc' \in [Dial -> Labels]
    <3>1. \E l \in Labels : pc' = [pc EXCEPT ![d] = l]
      BY <1>2 DEF AddLoadOrStore, AddStore, DelLoad, DelStore, Goto, Labels
    <3>2. pc \in [Dial -> Labels]
      BY DEF TypeOK
    <3> QED
      BY <3>1, <3>2
  <2>3. \A e \in Dial : pc'[e] \in {"connecting", "wait"} => pc[e] = pc'[e]
    BY <1>2 DEF TypeOK, AddLoadOrStore, AddStore, DelLoad, DelStore, Goto
  <2>4. UNCHANGED <<given, TFOSynID, TFOPayload, slot, conns, connInfo, queues>>
    BY <1>2 DEF AddLoadOrStore, AddStore, DelLoad, DelStore, tables
  <2> QED
    BY <2>1, <2>2, <2>3, <2>4 DEF TypeOK, given, conns, queues
<1>3. ASSUME NEW d \in Dial, NEW p \in Port, Connect(d, p) PROVE TypeOK'
  <2>1. Slots \in Nat \ {0} /\ TFOSynID \in Nat
    BY BoundAssumption DEF TypeOK
  <2>2. TFOSynID % Slots \in Slot /\ (TFOSynID + 1) % (4 * Slots) \in 0 .. 4 * Slots - 1
    BY <2>1 DEF Slot
  <2>3. mark' \in [Dial -> Slot \cup {None}] /\ TFOSynID' \in 0 .. 4 * Slots - 1
    BY <1>3, <2>2 DEF Connect, TypeOK
  <2>4. [synack |-> FALSE, dial |-> d, port |-> p, mark |-> mark'[d]] \in Packet
    BY <2>3 DEF Packet
  <2>5. packets' \in Seq(Packet)
    BY <1>3, <2>4, Appended DEF Connect, TypeOK
  <2>6. UNCHANGED <<given, ConnSyn, TFOPayload, info, slot, connInfo, offers, buffer>>
        /\ port' = [port EXCEPT ![d] = p] /\ pc' = [pc EXCEPT ![d] = "connecting"]
    BY <1>3 DEF Connect, Goto
  <2>7. p # None
    BY NoneAssumption
  <2> QED
    BY <2>3, <2>5, <2>6, <2>7 DEF TypeOK, given, Labels
<1>4. ASSUME NEW d \in Dial, ServerAnswers(d) \/ Resend(d) PROVE TypeOK'
  <2>1. pc[d] = "connecting" /\ port[d] \in Port
    BY <1>4 DEF ServerAnswers, Resend, TypeOK
  <2>2. \A m \in Slot \cup {None}, b \in BOOLEAN : [synack |-> b, dial |-> d, port |-> port[d], mark |-> m] \in Packet
    BY <2>1 DEF Packet
  <2>3. mark[d] \in Slot \cup {None}
    BY DEF TypeOK
  <2>4. packets' \in Seq(Packet)
    BY <1>4, <2>2, <2>3, Appended DEF ServerAnswers, Resend, TypeOK
  <2>5. UNCHANGED <<given, ConnSyn, TFOSynID, TFOPayload, info, slot, port, mark, connInfo, offers, buffer>>
    BY <1>4 DEF ServerAnswers, Resend, tables
  <2>6. pc' = pc \/ pc' = [pc EXCEPT ![d] = "wait"]
    BY <1>4 DEF ServerAnswers, Resend, Goto
  <2> QED
    BY <2>1, <2>4, <2>5, <2>6 DEF TypeOK, given, Labels
<1>5. ASSUME NEW d \in Dial, DialFails(d) \/ WaitTimeout(d) \/ Return(d) \/ Close(d) PROVE TypeOK'
  <2>1. /\ UNCHANGED <<given, ConnSyn, TFOSynID, connInfo, queues>>
        /\ port' = port \/ port' = [port EXCEPT ![d] = None]
        /\ \E l \in {"delLoad", "open", "closed"} : pc' = [pc EXCEPT ![d] = l]
        /\ info' = info \/ info' = [info EXCEPT ![d] = None]
        /\ slot' = slot \/ slot' = [slot EXCEPT ![d] = None]
        /\ mark' = mark \/ mark' = [mark EXCEPT ![d] = None]
    BY <1>5 DEF DialFails, WaitTimeout, Return, Close, Goto, tables, conns
  <2>2. TFOPayload' \in [Slot -> Dial \cup {None}]
    BY <1>5 DEF DialFails, WaitTimeout, Return, Close, tables, TypeOK
  <2>3. port' \in [Dial -> Port \cup {None}] /\ slot' \in [Dial -> Slot \cup {None}]
        /\ mark' \in [Dial -> Slot \cup {None}] /\ info' \in [Dial -> SynInfo \cup {None}]
    BY <2>1 DEF TypeOK
  <2>4. PICK l \in {"delLoad", "open", "closed"} : pc' = [pc EXCEPT ![d] = l]
    BY <2>1
  <2>5. pc' \in [Dial -> Labels]
    BY <2>4 DEF TypeOK, Labels
  <2>6. \A e \in Dial : pc'[e] \in {"connecting", "wait"} => port'[e] # None
    BY <2>1, <2>4 DEF TypeOK
  <2>7. UNCHANGED <<given, ConnSyn, TFOSynID, connInfo, queues>>
    BY <2>1
  <2> QED
    BY <2>2, <2>3, <2>5, <2>6, <2>7 DEF TypeOK, given, queues
<1>6. ASSUME NEW d \in Dial, Receive(d) PROVE TypeOK'
  <2>1. /\ UNCHANGED <<given, tables, info, slot, conns, packets>>
        /\ pc' = [pc EXCEPT ![d] = "delLoad"]
        /\ pc[d] = "wait" /\ port[d] \in Port
    BY <1>6 DEF Receive, Goto, TypeOK
  <2>2. CASE buffer[port[d]] # None
    <3>1. buffer[port[d]].from \in Dial \cup {None}
      BY <2>1, <2>2 DEF TypeOK, Offered
    <3>2. /\ connInfo' = [connInfo EXCEPT ![d] = buffer[port[d]].from]
          /\ buffer' = [buffer EXCEPT ![port[d]] = None]
          /\ UNCHANGED offers
      BY <1>6, <2>2 DEF Receive
    <3>3. buffer' = [p \in Port |-> buffer'[p]] /\ \A p \in Port : buffer'[p] \in {None, buffer[p]}
      BY <3>2 DEF TypeOK
    <3> QED
      BY <2>1, <3>1, <3>2, <3>3 DEF TypeOK, given, tables, conns, Labels
  <2>3. CASE buffer[port[d]] = None
    <3>1. PICK o \in offers : connInfo' = [connInfo EXCEPT ![d] = o.from] /\ offers' = offers \ {o}
                              /\ UNCHANGED buffer
      BY <1>6, <2>3 DEF Receive
    <3>2. o.from \in Dial \cup {None}
      BY DEF TypeOK, Offered
    <3> QED
      BY <2>1, <3>1, <3>2 DEF TypeOK, given, tables, conns, Labels
  <2> QED
    BY <2>2, <2>3
<1>7. CASE MonitorStep
  <2>1. packets' \in Seq(Packet)
    BY <1>7, MonitorReads, Unread DEF TypeOK
  <2> QED
    BY <1>7, <2>1, MonitorReads DEF TypeOK, given
<1>8. CASE OfferEnds
  <2>1. PICK o \in offers : Buffer(o) \/ Expire(o)
    BY <1>8 DEF OfferEnds
  <2>2. /\ UNCHANGED <<given, tables, pc, info, slot, conns, connInfo, packets>>
        /\ offers' = offers \ {o}
        /\ buffer' = buffer \/ buffer' = [buffer EXCEPT ![o.port] = o]
    BY <2>1 DEF Buffer, Expire
  <2>3. Offered(o)
    BY DEF TypeOK
  <2>4. buffer' = [p \in Port |-> buffer'[p]]
    BY <2>2, <2>3 DEF TypeOK, Offered
  <2>5. ASSUME NEW p \in Port, buffer'[p] # None PROVE Offered(buffer'[p]) /\ buffer'[p].port = p
    <3>1. buffer'[p] = buffer[p] \/ (p = o.port /\ buffer'[p] = o)
      BY <2>2, <2>3 DEF TypeOK, Offered
    <3> QED
      BY <2>3, <2>5, <3>1 DEF TypeOK
  <2> QED
    BY <2>2, <2>4, <2>5 DEF TypeOK, given, tables, conns
<1>9. CASE UNCHANGED vars
  BY <1>9 DEF vars, TypeOK, given, tables, conns, queues, Offered
<1> QED
  BY <1>1, <1>2, <1>3, <1>4, <1>5, <1>6, <1>7, <1>8, <1>9 DEF Next, DialStep

-----------------------------------------------------------------------------
(* The counts.                                                             *)

InCount == {"dial", "connecting", "wait", "delLoad", "delStore", "delDelete"}

LEMMA CountedFinite ==
  ASSUME NEW a
  PROVE  /\ IsFiniteSet(Counted(a)) /\ Cardinality(Counted(a)) \in Nat
         /\ Cardinality(Counted(a)) = 0 <=> Counted(a) = {}
<1>1. Counted(a) \subseteq Dial
  BY DEF Counted
<1>2. IsFiniteSet(Counted(a))
  BY <1>1, DialAssumption, FS_Subset
<1> QED
  BY <1>2, FS_CardinalityType, FS_EmptySet

\* A step that begins and ends no update and counts no dial more or less.
LEMMA CountStays ==
  ASSUME CountInv, UNCHANGED <<addr, ConnSyn, raced>>,
         \A d \in Dial : \/ pc'[d] = pc[d] /\ info'[d] = info[d]
                         \/ {pc[d], pc'[d]} \cap {"addStore", "delStore", "delDelete"} = {},
         \A d \in Dial : pc'[d] \in InCount <=> pc[d] \in InCount
  PROVE  CountInv'
<1>1. \A a : Counted(a)' = Counted(a)
  BY DEF Counted, InCount
<1>2. CountExact'
  BY <1>1 DEF CountInv, CountExact
<1>3. \A d \in Dial : Updating(d)' => Updating(d) /\ pc'[d] = pc[d] /\ info'[d] = info[d]
  BY DEF Updating
<1>4. UpdatesApart'
  BY <1>3 DEF CountInv, UpdatesApart
<1>5. UpdateRight'
  BY <1>1, <1>3 DEF CountInv, UpdateRight, Updating
<1> QED
  BY <1>2, <1>4, <1>5 DEF CountInv

\* Once an update of an address that was not raced begins, there is no other.
LEMMA NoteUpdateRaced ==
  ASSUME NEW d \in Dial, NoteUpdate(d)
  PROVE  /\ raced \subseteq raced'
         /\ addr[d] \notin raced' => \A e \in Dial \ {d} : ~(Updating(e) /\ addr[e] = addr[d])
BY DEF NoteUpdate

\* The address of d is counted anew; the others are as they were.
LEMMA CountAt ==
  ASSUME TypeOK, CountInv, NEW d \in Dial, addr' = addr, raced \subseteq raced',
         \A e \in Dial \ {d} : pc'[e] = pc[e] /\ info'[e] = info[e],
         \A a \in Address \ {addr[d]} : ConnSyn'[a] = ConnSyn[a],
         addr[d] \notin raced' =>
           /\ \A e \in Dial \ {d} : ~(Updating(e) /\ addr[e] = addr[d])
           /\ IF Counted(addr[d])' = {} THEN ConnSyn'[addr[d]] = None
              ELSE ConnSyn'[addr[d]] # None /\ ConnSyn'[addr[d]].Number = Cardinality(Counted(addr[d])')
           /\ LET n == Cardinality(Counted(addr[d])') IN
              /\ pc'[d] = "addStore" => n > 0 /\ info'[d] # None /\ info'[d].Number = n + 1
              /\ pc'[d] = "delStore" => n > 1 /\ info'[d] # None /\ info'[d].Number = n - 1
              /\ pc'[d] = "delDelete" => n = 1
  PROVE  CountInv'
<1>1. \A a : a # addr[d] => Counted(a)' = Counted(a)
  BY DEF Counted
<1>2. CountExact'
  <2> SUFFICES ASSUME NEW a \in Address \ raced'
               PROVE  IF Counted(a)' = {} THEN ConnSyn'[a] = None
                      ELSE ConnSyn'[a] # None /\ ConnSyn'[a].Number = Cardinality(Counted(a)')
    BY DEF CountExact
  <2>1. CASE a = addr[d]
    BY <2>1
  <2>2. CASE a # addr[d]
    BY <1>1, <2>2 DEF CountInv, CountExact
  <2> QED
    BY <2>1, <2>2
<1>3. UpdatesApart'
  BY DEF CountInv, UpdatesApart, Updating
<1>4. UpdateRight'
  <2> SUFFICES ASSUME NEW e \in Dial, addr[e] \notin raced'
               PROVE  LET n == Cardinality(Counted(addr[e])') IN
                      /\ pc'[e] = "addStore" => n > 0 /\ info'[e] # None /\ info'[e].Number = n + 1
                      /\ pc'[e] = "delStore" => n > 1 /\ info'[e] # None /\ info'[e].Number = n - 1
                      /\ pc'[e] = "delDelete" => n = 1
    BY DEF UpdateRight
  <2>1. CASE e = d
    BY <2>1
  <2>2. CASE e # d /\ addr[e] = addr[d]
    BY <2>2 DEF Updating
  <2>3. CASE e # d /\ addr[e] # addr[d]
    BY <1>1, <2>3 DEF CountInv, UpdateRight
  <2> QED
    BY <2>1, <2>2, <2>3
<1> QED
  BY <1>2, <1>3, <1>4 DEF CountInv

\* d is counted, or no longer.
LEMMA CountedPlus ==
  ASSUME NEW d \in Dial, addr' = addr, \A e \in Dial \ {d} : pc'[e] = pc[e],
         pc[d] \notin InCount, pc'[d] \in InCount
  PROVE  /\ Cardinality(Counted(addr[d])') = Cardinality(Counted(addr[d])) + 1
         /\ Counted(addr[d])' # {}
<1>1. Counted(addr[d])' = Counted(addr[d]) \cup {d} /\ d \notin Counted(addr[d])
  BY DEF Counted, InCount
<1> QED
  BY <1>1, CountedFinite, FS_AddElement

LEMMA CountedMinus ==
  ASSUME NEW d \in Dial, addr' = addr, \A e \in Dial \ {d} : pc'[e] = pc[e],
         pc[d] \in InCount, pc'[d] \notin InCount
  PROVE  /\ Cardinality(Counted(addr[d])') = Cardinality(Counted(addr[d])) - 1
         /\ Counted(addr[d])' = {} <=> Cardinality(Counted(addr[d])) = 1
<1>1. Counted(addr[d])' = Counted(addr[d]) \ {d} /\ d \in Counted(addr[d])
  BY DEF Counted, InCount
<1>2. IsFiniteSet(Counted(addr[d])') /\ Cardinality(Counted(addr[d])') = Cardinality(Counted(addr[d])) - 1
  BY <1>1, CountedFinite, FS_RemoveElement
<1> QED
  BY <1>2, CountedFinite, FS_EmptySet

LEMMA CountedSame ==
  ASSUME addr' = addr, \A e \in Dial : pc'[e] \in InCount <=> pc[e] \in InCount
  PROVE  \A a : Counted(a)' = Counted(a)
BY DEF Counted, InCount

LEMMA NotNone == ASSUME NEW i \in SynInfo PROVE i # None
BY NoneAssumption DEF SynInfo

LEMMA AddKeepsCount ==
  ASSUME TypeOK, CountInv, NEW d \in Dial, AddLoadOrStore(d)
  PROVE  CountInv'
<1>1. addr' = addr /\ raced \subseteq raced' /\ pc[d] = "addLoad"
      /\ (addr[d] \notin raced' => \A e \in Dial \ {d} : ~(Updating(e) /\ addr[e] = addr[d]))
  BY NoteUpdateRaced DEF AddLoadOrStore, given
<1>2. \A e \in Dial \ {d} : pc'[e] = pc[e] /\ info'[e] = info[e]
  BY DEF AddLoadOrStore, Goto, TypeOK
<1>3. addr[d] \in Address /\ ConnSyn \in [Address -> SynInfo \cup {None}]
  BY DEF TypeOK
<1>4. \A a \in Address \ {addr[d]} : ConnSyn'[a] = ConnSyn[a]
  BY <1>3 DEF AddLoadOrStore
<1>5. addr[d] \notin raced' => CountExact /\ addr[d] \in Address \ raced
  BY <1>1, <1>3 DEF CountInv
<1>6. CASE ConnSyn[addr[d]] = None
  <2>1. /\ ConnSyn'[addr[d]] = [Number |-> 1, Hint |-> d \in tfo] /\ pc'[d] = "dial"
    BY <1>3, <1>6 DEF AddLoadOrStore, Goto, TypeOK
  <2>2. ConnSyn'[addr[d]] # None /\ ConnSyn'[addr[d]].Number = 1
    <3>1. [Number |-> 1, Hint |-> d \in tfo] \in SynInfo
      BY DEF SynInfo
    <3> QED
      BY <2>1, <3>1, NotNone
  <2>3. addr[d] \notin raced' => Counted(addr[d]) = {} /\ Cardinality(Counted(addr[d])) = 0
    BY <1>5, <1>6, CountedFinite DEF CountExact
  <2>4. Cardinality(Counted(addr[d])') = Cardinality(Counted(addr[d])) + 1 /\ Counted(addr[d])' # {}
    BY <1>1, <1>2, <2>1, CountedPlus DEF InCount
  <2> QED
    BY <1>1, <1>2, <1>4, <2>1, <2>2, <2>3, <2>4, CountAt
<1>7. CASE ConnSyn[addr[d]] # None
  <2>1. /\ UNCHANGED ConnSyn /\ pc'[d] = "addStore"
        /\ info'[d] = [Number |-> ConnSyn[addr[d]].Number + 1, Hint |-> d \in tfo]
    BY <1>7 DEF AddLoadOrStore, Goto, TypeOK
  <2>2. info'[d] # None /\ info'[d].Number = ConnSyn[addr[d]].Number + 1
    <3>1. ConnSyn[addr[d]].Number + 1 \in Nat
      BY <1>3, <1>7 DEF SynInfo
    <3>2. [Number |-> ConnSyn[addr[d]].Number + 1, Hint |-> d \in tfo] \in SynInfo
      BY <3>1 DEF SynInfo
    <3> QED
      BY <2>1, <3>2, NotNone
  <2>3. Counted(addr[d])' = Counted(addr[d])
    BY <1>1, <1>2, <2>1, CountedSame DEF InCount
  <2>4. addr[d] \notin raced' =>
          Counted(addr[d]) # {} /\ ConnSyn[addr[d]].Number = Cardinality(Counted(addr[d]))
    BY <1>5, <1>7 DEF CountExact
  <2>5. Cardinality(Counted(addr[d])) \in Nat /\ (Counted(addr[d]) # {} => Cardinality(Counted(addr[d])) > 0)
    BY CountedFinite
  <2> QED
    BY <1>1, <1>2, <1>4, <1>7, <2>1, <2>2, <2>3, <2>4, <2>5, CountAt
<1> QED
  BY <1>6, <1>7

LEMMA AddStoreKeepsCount ==
  ASSUME TypeOK, CountInv, NEW d \in Dial, AddStore(d)
  PROVE  CountInv'
<1>1. /\ addr' = addr /\ raced' = raced /\ pc[d] = "addStore" /\ pc'[d] = "dial"
      /\ ConnSyn' = [ConnSyn EXCEPT ![addr[d]] = info[d]]
      /\ \A e \in Dial \ {d} : pc'[e] = pc[e] /\ info'[e] = info[e]
  BY DEF AddStore, Goto, TypeOK, given, history
<1>2. addr[d] \in Address /\ ConnSyn'[addr[d]] = info[d]
      /\ \A a \in Address \ {addr[d]} : ConnSyn'[a] = ConnSyn[a]
  BY <1>1 DEF TypeOK
<1>3. addr[d] \notin raced => \A e \in Dial \ {d} : ~(Updating(e) /\ addr[e] = addr[d])
  BY <1>1 DEF CountInv, UpdatesApart, Updating
<1>4. addr[d] \notin raced => info[d] # None /\ info[d].Number = Cardinality(Counted(addr[d])) + 1
  BY <1>1 DEF CountInv, UpdateRight
<1>5. Cardinality(Counted(addr[d])') = Cardinality(Counted(addr[d])) + 1 /\ Counted(addr[d])' # {}
  BY <1>1, CountedPlus DEF InCount
<1> QED
  BY <1>1, <1>2, <1>3, <1>4, <1>5, CountAt

LEMMA DelLoadKeepsCount ==
  ASSUME TypeOK, CountInv, NEW d \in Dial, DelLoad(d)
  PROVE  CountInv'
<1>1. addr' = addr /\ raced \subseteq raced' /\ pc[d] = "delLoad"
      /\ (addr[d] \notin raced' => \A e \in Dial \ {d} : ~(Updating(e) /\ addr[e] = addr[d]))
  BY NoteUpdateRaced DEF DelLoad, given
<1>2. UNCHANGED ConnSyn /\ \A e \in Dial \ {d} : pc'[e] = pc[e] /\ info'[e] = info[e]
  BY DEF DelLoad, Goto, TypeOK, tables
<1>3. addr[d] \in Address /\ ConnSyn[addr[d]] \in SynInfo \cup {None}
  BY DEF TypeOK
<1>4. d \in Counted(addr[d])
  BY <1>1 DEF Counted
<1>5. addr[d] \notin raced' =>
        ConnSyn[addr[d]] # None /\ ConnSyn[addr[d]].Number = Cardinality(Counted(addr[d]))
  BY <1>1, <1>3, <1>4 DEF CountInv, CountExact
<1>6. Cardinality(Counted(addr[d])) \in Nat /\ Cardinality(Counted(addr[d])) > 0
  BY <1>4, CountedFinite
<1>7. CASE ConnSyn[addr[d]] = None
  <2>1. addr[d] \in raced'
    BY <1>5, <1>7
  <2> QED
    BY <1>1, <1>2, <2>1, CountAt
<1>8. CASE ConnSyn[addr[d]] # None /\ ConnSyn[addr[d]].Number > 1
  <2>1. /\ pc'[d] = "delStore"
        /\ info'[d] = [ConnSyn[addr[d]] EXCEPT !.Number = @ - 1]
    BY <1>8 DEF DelLoad, Goto, TypeOK
  <2>2. info'[d] \in SynInfo /\ info'[d].Number = ConnSyn[addr[d]].Number - 1
    BY <1>3, <1>8, <2>1 DEF SynInfo
  <2>3. Counted(addr[d])' = Counted(addr[d])
    BY <1>1, <1>2, <2>1, CountedSame DEF InCount
  <2>4. info'[d] # None
    BY <2>2, NotNone
  <2> QED
    BY <1>1, <1>2, <1>4, <1>5, <1>8, <2>1, <2>2, <2>3, <2>4, CountAt
<1>9. CASE ConnSyn[addr[d]] # None /\ ~(ConnSyn[addr[d]].Number > 1)
  <2>1. pc'[d] = "delDelete"
    BY <1>9 DEF DelLoad, Goto, TypeOK
  <2>2. Counted(addr[d])' = Counted(addr[d])
    BY <1>1, <1>2, <2>1, CountedSame DEF InCount
  <2>3. addr[d] \notin raced' => Cardinality(Counted(addr[d])) = 1
    BY <1>5, <1>6, <1>9
  <2> QED
    BY <1>1, <1>2, <1>4, <1>5, <2>1, <2>2, <2>3, CountAt
<1> QED
  BY <1>7, <1>8, <1>9

LEMMA DelStoreKeepsCount ==
  ASSUME TypeOK, CountInv, NEW d \in Dial, DelStore(d)
  PROVE  CountInv'
<1>1. /\ addr' = addr /\ raced' = raced /\ pc[d] \in {"delStore", "delDelete"} /\ pc'[d] = "return"
      /\ ConnSyn' = [ConnSyn EXCEPT ![addr[d]] = IF pc[d] = "delStore" THEN info[d] ELSE None]
      /\ \A e \in Dial \ {d} : pc'[e] = pc[e] /\ info'[e] = info[e]
  BY DEF DelStore, Goto, TypeOK, given, history
<1>2. addr[d] \in Address /\ ConnSyn'[addr[d]] = (IF pc[d] = "delStore" THEN info[d] ELSE None)
      /\ \A a \in Address \ {addr[d]} : ConnSyn'[a] = ConnSyn[a]
  BY <1>1 DEF TypeOK
<1>3. addr[d] \notin raced => \A e \in Dial \ {d} : ~(Updating(e) /\ addr[e] = addr[d])
  BY <1>1 DEF CountInv, UpdatesApart, Updating
<1>4. addr[d] \notin raced =>
        /\ pc[d] = "delStore" => Cardinality(Counted(addr[d])) > 1 /\ info[d] # None
                                  /\ info[d].Number = Cardinality(Counted(addr[d])) - 1
        /\ pc[d] = "delDelete" => Cardinality(Counted(addr[d])) = 1
  BY DEF CountInv, UpdateRight
<1>5. /\ Cardinality(Counted(addr[d])') = Cardinality(Counted(addr[d])) - 1
      /\ Counted(addr[d])' = {} <=> Cardinality(Counted(addr[d])) = 1
  BY <1>1, CountedMinus DEF InCount
<1>6. Cardinality(Counted(addr[d])) \in Nat
  BY CountedFinite
<1> QED
  BY <1>1, <1>2, <1>3, <1>4, <1>5, <1>6, CountAt

LEMMA NextCountInv == ASSUME TypeOK, CountInv, [Next]_vars PROVE CountInv'
<1>1. ASSUME NEW d \in Dial,
             ChooseSlot(d) \/ (\E p \in Port : Connect(d, p)) \/ ServerAnswers(d) \/ DialFails(d)
             \/ Receive(d) \/ WaitTimeout(d) \/ Return(d) \/ Resend(d) \/ Close(d)
      PROVE  CountInv'
  <2>1. UNCHANGED <<addr, ConnSyn, raced>>
    BY <1>1 DEF ChooseSlot, Connect, ServerAnswers, DialFails, Receive, WaitTimeout, Return, Resend,
         Close, given, tables, history
  <2>2. \A e \in Dial \ {d} : pc'[e] = pc[e] /\ info'[e] = info[e]
    BY <1>1 DEF ChooseSlot, Connect, ServerAnswers, DialFails, Receive, WaitTimeout, Return, Resend,
         Close, Goto, TypeOK
  <2>3. pc[d] \notin {"addStore", "delStore", "delDelete"} /\ pc'[d] \notin {"addStore", "delStore", "delDelete"}
    BY <1>1 DEF ChooseSlot, Connect, ServerAnswers, DialFails, Receive, WaitTimeout, Return, Resend,
         Close, Goto, TypeOK
  <2>4. pc'[d] \in InCount <=> pc[d] \in InCount
    BY <1>1 DEF ChooseSlot, Connect, ServerAnswers, DialFails, Receive, WaitTimeout, Return, Resend,
         Close, Goto, TypeOK, InCount
  <2>5. \A e \in Dial : \/ pc'[e] = pc[e] /\ info'[e] = info[e]
                        \/ {pc[e], pc'[e]} \cap {"addStore", "delStore", "delDelete"} = {}
    BY <2>2, <2>3
  <2>6. \A e \in Dial : pc'[e] \in InCount <=> pc[e] \in InCount
    BY <2>2, <2>4
  <2> QED
    BY <2>1, <2>5, <2>6, CountStays
<1>2. CASE MonitorStep
  <2>1. UNCHANGED <<addr, ConnSyn, raced, info>>
    BY <1>2, MonitorReads DEF given
  <2>2. \A e \in Dial : pc'[e] = pc[e] \/ (pc[e] = "connecting" /\ pc'[e] = "wait")
    BY <1>2, MonitorReads
  <2>3. \A e \in Dial : \/ pc'[e] = pc[e] /\ info'[e] = info[e]
                        \/ {pc[e], pc'[e]} \cap {"addStore", "delStore", "delDelete"} = {}
    BY <2>1, <2>2
  <2>4. \A e \in Dial : pc'[e] \in InCount <=> pc[e] \in InCount
    BY <2>2 DEF InCount
  <2> QED
    BY <2>1, <2>3, <2>4, CountStays
<1>3. CASE OfferEnds \/ UNCHANGED vars
  <2>1. UNCHANGED <<addr, ConnSyn, raced, pc, info>>
    BY <1>3 DEF OfferEnds, Buffer, Expire, vars, given, tables, history
  <2> QED
    BY <2>1, CountStays
<1> QED
  BY <1>1, <1>2, <1>3, AddKeepsCount, AddStoreKeepsCount, DelLoadKeepsCount, DelStoreKeepsCount
  DEF Next, DialStep

LEMMA InitCountInv == Init => CountInv
BY FS_EmptySet DEF Init, CountInv, CountExact, UpdateRight, UpdatesApart, Counted, Updating

-----------------------------------------------------------------------------
(* The headers a dial is given.                                            *)

\* A step that names nothing by a port that was not named so before.
LEMMA NamesStay ==
  ASSUME TypeOK, PortOwn, shared \subseteq shared',
         \A d \in Dial : port'[d] \in {port[d], None},
         \A e \in Dial, p \in Port : Named(e, p)' => Named(e, p)
  PROVE  PortOwn'
<1>1. \A d \in Dial : port[d] \in Port \cup {None}
  BY DEF TypeOK
<1> SUFFICES ASSUME NEW d \in Dial, NEW e \in Dial, port'[d] # None, d \notin shared', Named(e, port[d])'
             PROVE  e = d
  BY DEF PortOwn
<1>2. port'[d] = port[d] /\ port[d] \in Port
  BY <1>1
<1>3. Named(e, port[d])
  BY <1>2
<1> QED
  BY <1>2, <1>3 DEF PortOwn

LEMMA ConnectKeepsPorts ==
  ASSUME TypeOK, PortOwn, NEW d \in Dial, NEW p \in Port, Connect(d, p)
  PROVE  PortOwn'
<1> DEFINE others == {e \in Dial \ {d} : port[e] = p}
           quiet == /\ others = {} /\ buffer[p] = None
                    /\ \A o \in offers : o.port # p
                    /\ \A i \in DOMAIN packets : packets[i].port # p
           packet == [synack |-> FALSE, dial |-> d, port |-> p, mark |-> mark'[d]]
<1>1. /\ port' = [port EXCEPT ![d] = p]
      /\ shared' = IF quiet THEN shared ELSE shared \cup others \cup {d}
      /\ UNCHANGED <<offers, buffer>>
      /\ packets' = Append(packets, packet)
  BY DEF Connect
<1>2. port'[d] = p /\ \A e \in Dial \ {d} : port'[e] = port[e]
  BY <1>1 DEF TypeOK
<1>3. \A i \in DOMAIN packets' :
        \/ packets'[i].dial = d /\ packets'[i].port = p
        \/ i \in DOMAIN packets /\ packets'[i] = packets[i]
  <2>1. packets \in Seq(Packet)
    BY DEF TypeOK
  <2> QED
    BY <1>1, <2>1
<1>4. ASSUME NEW e \in Dial, NEW q \in Port, Named(e, q)' PROVE Named(e, q) \/ (e = d /\ q = p)
  <2>1. CASE port'[e] = q
    BY <1>2, <2>1 DEF Named
  <2>2. CASE \E i \in DOMAIN packets' : packets'[i].port = q /\ packets'[i].dial = e
    BY <1>3, <2>2 DEF Named
  <2>3. CASE (\E o \in offers' : o.port = q /\ o.dial = e) \/ (buffer'[q] # None /\ buffer'[q].dial = e)
    BY <1>1, <2>3 DEF Named
  <2> QED
    BY <1>4, <2>1, <2>2, <2>3 DEF Named
<1> SUFFICES ASSUME NEW c \in Dial, NEW e \in Dial, port'[c] # None, c \notin shared', Named(e, port[c])'
             PROVE  e = c
  BY DEF PortOwn
<1>5. port'[c] \in Port /\ (c # d => port'[c] = port[c])
  BY <1>2 DEF TypeOK
<1>6. CASE c = d
  <2>1. quiet
    BY <1>1, <1>6
  <2>2. \A x \in Dial \ {d} : ~Named(x, p)
    BY <2>1 DEF Named
  <2> QED
    BY <1>2, <1>4, <1>6, <2>2
<1>7. CASE c # d
  <2>1. port[c] # p
    BY <1>1, <1>5, <1>7
  <2>2. Named(e, port[c])
    BY <1>4, <1>5, <1>7, <2>1
  <2>3. c \notin shared
    BY <1>1
  <2> QED
    BY <1>5, <1>7, <2>2, <2>3 DEF PortOwn
<1> QED
  BY <1>6, <1>7

LEMMA NextPortOwn == ASSUME TypeOK, PortOwn, [Next]_vars PROVE PortOwn'
<1>1. ASSUME NEW d \in Dial,
             ChooseSlot(d) \/ AddLoadOrStore(d) \/ AddStore(d) \/ DialFails(d) \/ WaitTimeout(d)
             \/ DelLoad(d) \/ DelStore(d) \/ Return(d) \/ Close(d)
      PROVE  PortOwn'
  <2>1. UNCHANGED <<packets, offers, buffer, shared>>
    BY <1>1 DEF ChooseSlot, AddLoadOrStore, AddStore, DialFails, WaitTimeout, DelLoad, DelStore, Return,
         Close, queues, history
  <2>2. port' = port \/ port' = [port EXCEPT ![d] = None]
    BY <1>1 DEF ChooseSlot, AddLoadOrStore, AddStore, DialFails, WaitTimeout, DelLoad, DelStore, Return,
         Close, conns
  <2>3. \A e \in Dial : port'[e] \in {port[e], None}
    BY <2>2 DEF TypeOK
  <2>4. \A e \in Dial, p \in Port : Named(e, p)' => Named(e, p)
    BY <2>1, <2>3, NoneAssumption DEF Named
  <2> QED
    BY <2>1, <2>3, <2>4, NamesStay
<1>2. ASSUME NEW d \in Dial, ServerAnswers(d) \/ Resend(d) PROVE PortOwn'
  <2>1. UNCHANGED <<port, offers, buffer, shared>>
    BY <1>2 DEF ServerAnswers, Resend, history
  <2>2. UNCHANGED packets
        \/ \E b \in BOOLEAN, m \in Slot \cup {None} :
             packets' = Append(packets, [synack |-> b, dial |-> d, port |-> port[d], mark |-> m])
    BY <1>2 DEF ServerAnswers, Resend, TypeOK
  <2>3. \A i \in DOMAIN packets' :
          \/ packets'[i].dial = d /\ packets'[i].port = port[d]
          \/ i \in DOMAIN packets /\ packets'[i] = packets[i]
    <3>1. packets \in Seq(Packet)
      BY DEF TypeOK
    <3>2. ASSUME NEW m, packets' = Append(packets, m), m.dial = d, m.port = port[d]
          PROVE  \A i \in DOMAIN packets' :
                   \/ packets'[i].dial = d /\ packets'[i].port = port[d]
                   \/ i \in DOMAIN packets /\ packets'[i] = packets[i]
      BY <3>1, <3>2
    <3> QED
      BY <2>2, <3>2
  <2>4. ASSUME NEW e \in Dial, NEW p \in Port, Named(e, p)' PROVE Named(e, p)
    <3>1. CASE \E i \in DOMAIN packets' : packets'[i].port = p /\ packets'[i].dial = e
      BY <2>3, <3>1 DEF Named
    <3> QED
      BY <2>1, <2>4, <3>1 DEF Named
  <2> QED
    BY <2>1, <2>4, NamesStay
<1>3. ASSUME NEW d \in Dial, Receive(d) PROVE PortOwn'
  <2>1. UNCHANGED <<port, packets, shared>> /\ offers' \subseteq offers
        /\ (buffer' = buffer \/ buffer' = [buffer EXCEPT ![port[d]] = None])
    BY <1>3 DEF Receive, conns, history
  <2>2. \A p \in Port : buffer'[p] \in {buffer[p], None}
    BY <2>1 DEF TypeOK
  <2>3. \A e \in Dial, p \in Port : Named(e, p)' => Named(e, p)
    BY <2>1, <2>2 DEF Named
  <2> QED
    BY <2>1, <2>3, NamesStay
<1>4. CASE MonitorStep
  <2>1. packets # << >> /\ packets' = Tail(packets) /\ UNCHANGED <<port, buffer, shared>>
    BY <1>4, MonitorReads
  <2>2. /\ 1 \in DOMAIN packets /\ packets[1] = Head(packets)
        /\ \A i \in DOMAIN packets' : i + 1 \in DOMAIN packets /\ packets'[i] = packets[i + 1]
    BY <2>1, Unread DEF TypeOK
  <2>3. \A o \in offers' : \/ o \in offers
                           \/ o.dial = packets[1].dial /\ o.port = packets[1].port
    BY <1>4, <2>2, MonitorReads
  <2>4. \A e \in Dial, p \in Port : Named(e, p)' => Named(e, p)
    BY <2>1, <2>2, <2>3 DEF Named
  <2> QED
    BY <2>1, <2>4, NamesStay
<1>5. CASE OfferEnds
  <2>1. PICK o \in offers : Buffer(o) \/ Expire(o)
    BY <1>5 DEF OfferEnds
  <2>2. UNCHANGED <<port, packets, shared>> /\ offers' \subseteq offers
        /\ (buffer' = buffer \/ buffer' = [buffer EXCEPT ![o.port] = o])
    BY <2>1 DEF Buffer, Expire, conns, history
  <2>3. \A p \in Port : buffer'[p] = buffer[p] \/ (p = o.port /\ buffer'[p] = o)
    BY <2>2 DEF TypeOK, Offered
  <2>4. \A e \in Dial, p \in Port : Named(e, p)' => Named(e, p)
    BY <2>2, <2>3 DEF Named
  <2> QED
    BY <2>2, <2>4, NamesStay
<1>6. CASE UNCHANGED vars
  BY <1>6 DEF vars, conns, queues, history, PortOwn, Named
<1> QED
  BY <1>1, <1>2, <1>3, <1>4, <1>5, <1>6, ConnectKeepsPorts DEF Next, DialStep

LEMMA NextOwnInfo == ASSUME TypeOK, PortOwn, OwnInfo, [Next]_vars PROVE OwnInfo'
<1>1. shared \subseteq shared'
  BY DEF Next, DialStep, ChooseSlot, AddLoadOrStore, AddStore, Connect, ServerAnswers, DialFails, Receive,
         WaitTimeout, DelLoad, DelStore, Return, Resend, Close, MonitorStep, MonitorSyn, DivertSyn,
         DivertSynAck, OfferEnds, Buffer, Expire, vars, history
<1>2. ASSUME NEW d \in Dial, Receive(d) PROVE OwnInfo'
  <2>1. pc[d] = "wait" /\ port[d] \in Port
    BY <1>2 DEF Receive, TypeOK
  <2>2. PICK o : /\ connInfo' = [connInfo EXCEPT ![d] = o.from]
                 /\ Offered(o) /\ Named(o.dial, port[d])
    <3>1. CASE buffer[port[d]] # None
      <4>1. connInfo' = [connInfo EXCEPT ![d] = buffer[port[d]].from]
        BY <1>2, <3>1 DEF Receive
      <4>2. Offered(buffer[port[d]]) /\ Named(buffer[port[d]].dial, port[d])
        BY <2>1, <3>1 DEF TypeOK, Named
      <4> QED
        BY <4>1, <4>2
    <3>2. CASE buffer[port[d]] = None
      <4>1. PICK o \in offers : o.port = port[d] /\ connInfo' = [connInfo EXCEPT ![d] = o.from]
        BY <1>2, <3>2 DEF Receive
      <4>2. Offered(o) /\ Named(o.dial, port[d])
        BY <4>1 DEF TypeOK, Named
      <4> QED
        BY <4>1, <4>2
    <3> QED
      BY <3>1, <3>2
  <2>3. o.from \in {None, o.dial} /\ o.dial \in Dial
    BY <2>2 DEF Offered
  <2>4. port[d] # None /\ (d \notin shared => o.dial = d)
    BY <2>1, <2>2, <2>3, NoneAssumption DEF PortOwn
  <2>5. connInfo'[d] = o.from /\ \A e \in Dial \ {d} : connInfo'[e] = connInfo[e]
    BY <2>2 DEF TypeOK
  <2> QED
    BY <1>1, <2>3, <2>4, <2>5 DEF OwnInfo
<1>3. CASE ~(\E d \in Dial : Receive(d))
  <2>1. UNCHANGED connInfo
    BY <1>3 DEF Next, DialStep, ChooseSlot, AddLoadOrStore, AddStore, Connect, ServerAnswers, DialFails,
         WaitTimeout, DelLoad, DelStore, Return, Resend, Close, MonitorStep, MonitorSyn, DivertSyn,
         DivertSynAck, OfferEnds, Buffer, Expire, vars
  <2> QED
    BY <1>1, <2>1 DEF OwnInfo
<1> QED
  BY <1>2, <1>3

-----------------------------------------------------------------------------
(* The data a SYN leaves with.                                             *)

\* A step that begins no dial with Fast Open.
LEMMA FastOpensStay ==
  ASSUME FastOpensNoted, overlapped \subseteq overlapped',
         \A d \in Dial : FastOpening(d)' => FastOpening(d)
  PROVE  FastOpensNoted'
BY DEF FastOpensNoted

Begun == {"addLoad", "addStore", "dial", "connecting", "wait", "delLoad", "delStore", "delDelete", "return"}

\* FastOpening after a step that leaves the queue alone, and one that adds to it.
LEMMA FastOpeningKept ==
  ASSUME TypeOK, NEW d \in Dial, UNCHANGED <<platform, tfo>>, pc'[d] \in Begun => pc[d] \in Begun,
         \A i \in DOMAIN packets' : ~packets'[i].synack /\ packets'[i].dial = d =>
            \/ pc[d] \in Begun
            \/ \E j \in DOMAIN packets : ~packets[j].synack /\ packets[j].dial = d,
         pc' \in [Dial -> Labels]
  PROVE  FastOpening(d)' => FastOpening(d)
<1>1. pc[d] \in Labels /\ pc'[d] \in Labels
  BY DEF TypeOK
<1> QED
  BY <1>1 DEF FastOpening, Begun, Labels

\* What a dial adds to the queue is its own handshake.
LEMMA HandshakeSent ==
  ASSUME TypeOK, NEW d \in Dial, (\E p \in Port : Connect(d, p)) \/ ServerAnswers(d) \/ Resend(d)
  PROVE  \/ UNCHANGED packets
         \/ \E m : packets' = Append(packets, m) /\ m.dial = d /\ m.mark \in {None, mark'[d]}
<1>1. ASSUME NEW p, NEW b, NEW k,
             packets' = Append(packets, [synack |-> b, dial |-> d, port |-> p, mark |-> k]),
             k \in {None, mark'[d]}
      PROVE  \E m : packets' = Append(packets, m) /\ m.dial = d /\ m.mark \in {None, mark'[d]}
<2> DEFINE m == [synack |-> b, dial |-> d, port |-> p, mark |-> k]
<2>1. packets' = Append(packets, m) /\ m.dial = d /\ m.mark \in {None, mark'[d]}
  BY <1>1
<2> QED
  BY <2>1
<1>2. CASE \E p \in Port : Connect(d, p)
  BY <1>1, <1>2 DEF Connect
<1>3. CASE ServerAnswers(d)
  BY <1>1, <1>3 DEF ServerAnswers
<1>4. CASE Resend(d)
  BY <1>1, <1>4 DEF Resend
<1> QED
  BY <1>2, <1>3, <1>4

LEMMA NextFastOpens == ASSUME TypeOK, TypeOK', FastOpensNoted, [Next]_vars PROVE FastOpensNoted'
<1> USE DEF Begun
<1>0. pc' \in [Dial -> Labels]
  BY DEF TypeOK
<1>1. ASSUME NEW d \in Dial, ChooseSlot(d) PROVE FastOpensNoted'
  <2>1. /\ UNCHANGED <<platform, tfo, packets>> /\ \A e \in Dial \ {d} : pc'[e] = pc[e]
        /\ overlapped' = IF d \notin tfo \/ {e \in Dial : FastOpening(e)} = {} THEN overlapped
                         ELSE overlapped \cup {e \in Dial : FastOpening(e)} \cup {d}
    BY <1>1 DEF ChooseSlot, Goto, TypeOK, given, queues
  <2>2. \A e \in Dial : FastOpening(e)' => (e = d \/ FastOpening(e)) /\ e \in tfo
    BY <2>1 DEF FastOpening
  <2> QED
    BY <2>1, <2>2 DEF FastOpensNoted
<1>2. ASSUME NEW d \in Dial,
             AddLoadOrStore(d) \/ AddStore(d) \/ DialFails(d) \/ WaitTimeout(d) \/ Receive(d)
             \/ DelLoad(d) \/ DelStore(d) \/ Return(d) \/ Close(d)
      PROVE  FastOpensNoted'
  <2>1. UNCHANGED <<platform, tfo, packets, overlapped>>
    BY <1>2 DEF AddLoadOrStore, AddStore, DialFails, WaitTimeout, Receive, DelLoad, DelStore, Return,
         Close, given, queues, history
  <2>2. \A e \in Dial : pc'[e] \in Begun => pc[e] \in Begun
    BY <1>2 DEF AddLoadOrStore, AddStore, DialFails, WaitTimeout, Receive, DelLoad, DelStore, Return,
         Close, Goto, TypeOK
  <2> QED
    BY <1>0, <2>1, <2>2, FastOpeningKept, FastOpensStay
<1>3. ASSUME NEW d \in Dial, (\E p \in Port : Connect(d, p)) \/ ServerAnswers(d) \/ Resend(d)
      PROVE  FastOpensNoted'
  <2>1. UNCHANGED <<platform, tfo, overlapped>> /\ pc[d] \in Begun /\ pc'[d] \in Begun
        /\ \A e \in Dial \ {d} : pc'[e] = pc[e]
    BY <1>3 DEF Connect, ServerAnswers, Resend, Goto, TypeOK, given, history
  <2>2. UNCHANGED packets \/ \E m : packets' = Append(packets, m) /\ m.dial = d
    BY <1>3, HandshakeSent
  <2>3. \A i \in DOMAIN packets' : packets'[i].dial = d \/ (i \in DOMAIN packets /\ packets'[i] = packets[i])
    <3>1. packets \in Seq(Packet)
      BY DEF TypeOK
    <3>2. ASSUME NEW m, packets' = Append(packets, m), m.dial = d
          PROVE  \A i \in DOMAIN packets' :
                   packets'[i].dial = d \/ (i \in DOMAIN packets /\ packets'[i] = packets[i])
      BY <3>1, <3>2
    <3> QED
      BY <2>2, <3>2
  <2>4. \A e \in Dial : FastOpening(e)' => FastOpening(e)
    <3> TAKE e \in Dial
    <3>1. pc'[e] \in Begun => pc[e] \in Begun
      BY <2>1
    <3>2. \A i \in DOMAIN packets' : ~packets'[i].synack /\ packets'[i].dial = e =>
            \/ pc[e] \in Begun
            \/ \E j \in DOMAIN packets : ~packets[j].synack /\ packets[j].dial = e
      BY <2>1, <2>3
    <3> QED
      BY <1>0, <2>1, <3>1, <3>2, FastOpeningKept
  <2> QED
    BY <2>1, <2>4, FastOpensStay
<1>4. CASE MonitorStep
  <2>1. packets # << >> /\ packets' = Tail(packets) /\ UNCHANGED <<platform, tfo, overlapped>>
    BY <1>4, MonitorReads DEF given
  <2>2. \A i \in DOMAIN packets' : i + 1 \in DOMAIN packets /\ packets'[i] = packets[i + 1]
    BY <2>1, Unread DEF TypeOK
  <2>3. \A e \in Dial : pc'[e] = pc[e] \/ (pc[e] = "connecting" /\ pc'[e] = "wait")
    BY <1>4, MonitorReads
  <2>4. \A e \in Dial : FastOpening(e)' => FastOpening(e)
    <3> TAKE e \in Dial
    <3>1. pc'[e] \in Begun => pc[e] \in Begun
      BY <2>3
    <3> QED
      BY <1>0, <2>1, <2>2, <3>1, FastOpeningKept
  <2> QED
    BY <2>1, <2>4, FastOpensStay
<1>5. CASE OfferEnds \/ UNCHANGED vars
  <2>1. UNCHANGED <<platform, tfo, pc, packets, overlapped>>
    BY <1>5 DEF OfferEnds, Buffer, Expire, vars, given, queues, history
  <2> QED
    BY <2>1 DEF FastOpensNoted, FastOpening
<1> QED
  BY <1>1, <1>2, <1>3, <1>4, <1>5 DEF Next, DialStep

LEMMA NextPayload == ASSUME TypeOK, PayloadHeld, [Next]_vars PROVE PayloadHeld'
<1>0. Slot \subseteq Nat /\ None \notin Slot /\ None \notin Dial
  BY BoundAssumption, NoneAssumption, DialAssumption DEF Slot
<1>1. ASSUME NEW d \in Dial, ChooseSlot(d) PROVE PayloadHeld'
  <2>1. pc[d] = "idle" /\ UNCHANGED <<platform, tfo, data>> /\ pc' = [pc EXCEPT ![d] = "addLoad"]
    BY <1>1 DEF ChooseSlot, Goto, given
  <2>2. CASE platform = "windivert" /\ d \in data
    <3> DEFINE t == TFOSynID % Slots
    <3>1. slot' = [slot EXCEPT ![d] = t] /\ TFOPayload' = [TFOPayload EXCEPT ![t] = d]
      BY <1>1, <2>2 DEF ChooseSlot
    <3>2. d \in tfo
      BY <2>2 DEF TypeOK
    <3> HIDE DEF t
    <3>3. ASSUME NEW s \in Slot, TFOPayload'[s] # None
          PROVE  LET e == TFOPayload'[s] IN
                 e \in tfo /\ pc'[e] \notin {"idle", "open", "closed"} /\ slot'[e] = s
      <4>1. CASE s = t
        BY <2>1, <3>1, <3>2, <4>1 DEF TypeOK
      <4>2. CASE s # t
        <5>1. TFOPayload'[s] = TFOPayload[s]
          BY <3>1, <4>2 DEF TypeOK
        <5>2. TFOPayload[s] \in Dial /\ TFOPayload[s] # d
          BY <2>1, <3>3, <5>1 DEF TypeOK, PayloadHeld
        <5> QED
          BY <2>1, <3>1, <3>3, <5>1, <5>2 DEF TypeOK, PayloadHeld
      <4> QED
        BY <4>1, <4>2
    <3> QED
      BY <2>1, <2>2, <3>3 DEF PayloadHeld
  <2>3. CASE ~(platform = "windivert" /\ d \in data)
    <3>1. UNCHANGED <<slot, TFOPayload>>
      BY <1>1, <2>3 DEF ChooseSlot
    <3> QED
      BY <2>1, <3>1 DEF PayloadHeld, TypeOK
  <2> QED
    BY <2>2, <2>3
<1>2. ASSUME NEW d \in Dial, Return(d) PROVE PayloadHeld'
  <2>1. /\ UNCHANGED <<platform, tfo>>
        /\ \A e \in Dial \ {d} : pc'[e] = pc[e] /\ slot'[e] = slot[e]
        /\ TFOPayload' = IF slot[d] = None THEN TFOPayload ELSE [TFOPayload EXCEPT ![slot[d]] = None]
    BY <1>2 DEF Return, Goto, TypeOK, given
  <2>2. ASSUME NEW s \in Slot, TFOPayload'[s] # None
        PROVE  TFOPayload'[s] = TFOPayload[s] /\ TFOPayload[s] \in Dial \ {d}
    <3>1. slot[d] \in Slot \cup {None}
      BY DEF TypeOK
    <3>2. TFOPayload'[s] = TFOPayload[s] /\ slot[d] # s
      <4>1. CASE slot[d] = None
        BY <1>0, <2>1, <4>1
      <4>2. CASE slot[d] # None
        BY <2>1, <2>2, <3>1, <4>2 DEF TypeOK
      <4> QED
        BY <4>1, <4>2
    <3> QED
      BY <2>2, <3>2 DEF PayloadHeld, TypeOK
  <2> QED
    BY <2>1, <2>2 DEF PayloadHeld
<1>3. CASE \A d \in Dial : ~ChooseSlot(d) /\ ~Return(d)
  <2>1. UNCHANGED <<platform, tfo, slot, TFOPayload>>
    BY <1>3 DEF Next, DialStep, AddLoadOrStore, AddStore, Connect, ServerAnswers, DialFails, Receive,
         WaitTimeout, DelLoad, DelStore, Resend, Close, MonitorStep, MonitorSyn, DivertSyn,
         DivertSynAck, OfferEnds, Buffer, Expire, vars, given, tables
  <2>2. \A e \in Dial : pc[e] \notin {"idle", "open", "closed"} => pc'[e] \notin {"idle", "open", "closed"}
    <3>1. CASE MonitorStep
      BY <3>1, MonitorReads
    <3>2. CASE OfferEnds \/ UNCHANGED vars
      BY <3>2 DEF OfferEnds, Buffer, Expire, vars
    <3>3. ASSUME NEW d \in Dial, DialStep(d) \/ Resend(d) \/ Close(d)
          PROVE  \A e \in Dial : pc[e] \notin {"idle", "open", "closed"} => pc'[e] \notin {"idle", "open", "closed"}
      BY <1>3, <3>3 DEF DialStep, AddLoadOrStore, AddStore, Connect, ServerAnswers, DialFails, Receive,
         WaitTimeout, DelLoad, DelStore, Resend, Close, Goto, TypeOK
    <3> QED
      BY <3>1, <3>2, <3>3 DEF Next
  <2> QED
    BY <2>1, <2>2 DEF PayloadHeld, TypeOK
<1> QED
  BY <1>1, <1>2, <1>3

LEMMA NextMarked == ASSUME TypeOK, MarkedFast, [Next]_vars PROVE MarkedFast'
<1>1. tfo' = tfo
  BY DEF Next, DialStep, ChooseSlot, AddLoadOrStore, AddStore, Connect, ServerAnswers, DialFails, Receive,
         WaitTimeout, DelLoad, DelStore, Return, Resend, Close, MonitorStep, MonitorSyn, DivertSyn,
         DivertSynAck, OfferEnds, Buffer, Expire, vars, given
<1>2. \A d \in Dial : mark'[d] # None => d \in tfo
  <2>1. ASSUME NEW d \in Dial, NEW p \in Port, Connect(d, p) PROVE \A e \in Dial : mark'[e] # None => e \in tfo
    BY <2>1 DEF Connect, TypeOK, MarkedFast
  <2>2. ASSUME NEW d \in Dial, Return(d) PROVE \A e \in Dial : mark'[e] # None => e \in tfo
    BY <2>2 DEF Return, TypeOK, MarkedFast
  <2>3. UNCHANGED mark \/ \E d \in Dial : Return(d) \/ \E p \in Port : Connect(d, p)
    BY DEF Next, DialStep, ChooseSlot, AddLoadOrStore, AddStore, ServerAnswers, DialFails, Receive,
         WaitTimeout, DelLoad, DelStore, Resend, Close, MonitorStep, MonitorSyn, DivertSyn,
         DivertSynAck, OfferEnds, Buffer, Expire, vars, conns
  <2> QED
    BY <2>1, <2>2, <2>3 DEF MarkedFast
<1>3. \A i \in DOMAIN packets' : packets'[i].mark # None => packets'[i].dial \in tfo
  <2>1. ASSUME NEW d \in Dial, (\E p \in Port : Connect(d, p)) \/ ServerAnswers(d) \/ Resend(d)
        PROVE  \A i \in DOMAIN packets' : packets'[i].mark # None => packets'[i].dial \in tfo
    <3>1. ASSUME NEW m, packets' = Append(packets, m), m.dial = d, m.mark \in {None, mark'[d]}
          PROVE  \A i \in DOMAIN packets' : packets'[i].mark # None => packets'[i].dial \in tfo
      <4>1. packets \in Seq(Packet)
        BY DEF TypeOK
      <4>2. \A i \in DOMAIN packets' : packets'[i] = m \/ (i \in DOMAIN packets /\ packets'[i] = packets[i])
        BY <3>1, <4>1
      <4> QED
        BY <1>2, <3>1, <4>2 DEF MarkedFast
    <3> QED
      BY <2>1, <3>1, HandshakeSent DEF MarkedFast
  <2>2. CASE MonitorStep
    <3>1. packets # << >> /\ packets' = Tail(packets)
      BY <2>2, MonitorReads
    <3>2. \A i \in DOMAIN packets' : i + 1 \in DOMAIN packets /\ packets'[i] = packets[i + 1]
      BY <3>1, Unread DEF TypeOK
    <3> QED
      BY <3>2 DEF MarkedFast
  <2>3. \/ UNCHANGED packets
        \/ MonitorStep
        \/ \E d \in Dial : (\E p \in Port : Connect(d, p)) \/ ServerAnswers(d) \/ Resend(d)
    BY DEF Next, DialStep, ChooseSlot, AddLoadOrStore, AddStore, DialFails, Receive,
         WaitTimeout, DelLoad, DelStore, Return, Close, OfferEnds, Buffer, Expire, vars, queues
  <2> QED
    BY <2>1, <2>2, <2>3 DEF MarkedFast
<1> QED
  BY <1>1, <1>2, <1>3 DEF MarkedFast

LEMMA NextOwnData ==
  ASSUME TypeOK, FastOpensNoted, MarkedFast, PayloadHeld, OwnData, [Next]_vars
  PROVE  OwnData'
<1>1. overlapped \subseteq overlapped'
  BY DEF Next, DialStep, ChooseSlot, AddLoadOrStore, AddStore, Connect, ServerAnswers, DialFails, Receive,
         WaitTimeout, DelLoad, DelStore, Return, Resend, Close, MonitorStep, MonitorSyn, DivertSyn,
         DivertSynAck, OfferEnds, Buffer, Expire, vars, history
<1>2. CASE DivertSyn
  <2> DEFINE d == Head(packets).dial
             payload == TFOPayload[Head(packets).mark]
  <2>1. /\ platform = "windivert" /\ packets # << >> /\ ~Head(packets).synack
        /\ \/ UNCHANGED carried
           \/ /\ Head(packets).mark # None /\ payload # None
              /\ ConnSyn[addr[d]] # None /\ ConnSyn[addr[d]].Hint
              /\ carried' \in {carried, carried \cup {<<d, payload>>}}
    BY <1>2 DEF DivertSyn
  <2>2. Head(packets) \in Packet /\ 1 \in DOMAIN packets /\ packets[1] = Head(packets)
    BY <2>1 DEF TypeOK
  <2>3. d \in Dial /\ Head(packets).mark \in Slot \cup {None}
    BY <2>2 DEF Packet
  <2>4. CASE UNCHANGED carried
    BY <1>1, <2>4 DEF OwnData
  <2>5. CASE Head(packets).mark # None /\ payload # None
    <3>1. payload \in Dial /\ FastOpening(payload)
      BY <2>3, <2>5 DEF PayloadHeld, FastOpening, TypeOK
    <3>2. FastOpening(d)
      <4>1. d \in tfo
        BY <2>2, <2>5 DEF MarkedFast
      <4> QED
        BY <2>1, <2>2, <2>3, <4>1 DEF FastOpening
    <3> QED
      BY <1>1, <2>1, <2>3, <3>1, <3>2 DEF FastOpensNoted, OwnData
  <2> QED
    BY <2>1, <2>4, <2>5
<1>3. CASE ~DivertSyn
  <2>1. UNCHANGED carried
    BY <1>3 DEF Next, DialStep, ChooseSlot, AddLoadOrStore, AddStore, Connect, ServerAnswers, DialFails,
         Receive, WaitTimeout, DelLoad, DelStore, Return, Resend, Close, MonitorStep, MonitorSyn,
         DivertSynAck, OfferEnds, Buffer, Expire, vars, history
  <2> QED
    BY <1>1, <2>1 DEF OwnData
<1> QED
  BY <1>2, <1>3

-----------------------------------------------------------------------------

LEMMA InitIInv == Init => IInv
<1> SUFFICES ASSUME Init PROVE IInv
  OBVIOUS
<1>1. TypeOK /\ CountInv
  BY InitTypeOK, InitCountInv
<1>2. PortOwn /\ OwnInfo /\ FastOpensNoted /\ MarkedFast /\ PayloadHeld /\ OwnData
  BY DEF Init, PortOwn, OwnInfo, FastOpensNoted, FastOpening, MarkedFast, PayloadHeld, Slot, OwnData
<1> QED
  BY <1>1, <1>2 DEF IInv

LEMMA NextIInv == IInv /\ [Next]_vars => IInv'
<1> SUFFICES ASSUME IInv, [Next]_vars PROVE IInv'
  OBVIOUS
<1>1. TypeOK' /\ CountInv' /\ PortOwn' /\ OwnInfo'
  BY NextTypeOK, NextCountInv, NextPortOwn, NextOwnInfo DEF IInv
<1>2. FastOpensNoted' /\ MarkedFast' /\ PayloadHeld' /\ OwnData'
  BY <1>1, NextFastOpens, NextMarked, NextPayload, NextOwnData DEF IInv
<1> QED
  BY <1>1, <1>2 DEF IInv

\* An address that was never updated by two dials at once counts exactly the dials
\* that need it, for any number of dials and addresses (AddConn, DelConn).
THEOREM CountIsExact == Spec => []CountExact
<1>1. IInv => CountExact
  BY DEF IInv, CountInv
<1> QED
  BY InitIInv, NextIInv, <1>1, PTL DEF Spec

\* A dial is given the headers of another only if the port was shared, or named
\* something left from before (connectionMonitor, DialConnInfo).
THEOREM InfoIsOwn == Spec => []OwnInfo
<1>1. IInv => OwnInfo
  BY DEF IInv
<1> QED
  BY InitIInv, NextIInv, <1>1, PTL DEF Spec

\* A SYN leaves with the data of another dial only if both were in progress at
\* once, however many dials there are for each slot (DialConnInfo).
THEOREM DataIsOwn == Spec => []OwnData
<1>1. IInv => OwnData
  BY DEF IInv
<1> QED
  BY InitIInv, NextIInv, <1>1, PTL DEF Spec

-----------------------------------------------------------------------------
(* The sends of a dial.  Outside of the four known cases every send that is *)
(* left, and every send of a fallback, has its bounds in order; and where   *)
(* the numbers are known, the bytes left to be written, less what is left   *)
(* to be added to the number, are what it is ahead of the kernel.           *)

Cell == {"b", "f", "h", "k", "0", "clear"} \X Int

SendOps == {"handshake", "write", "option", "fake", "decoy", "raw", "addLen",
            "splice", "copy", "lowTTL", "setTTL"}

Ordered(o) ==
  o.op \in {"write", "option", "fake", "splice"} =>
    /\ o.from <= o.to /\ o.to <= L
    /\ o.op = "option" => ~NotTCP

Sends(fallbacks) ==
  {o \in [op : SendOps, from : Nat, to : Nat, oob : Seq(Cell), lossy : BOOLEAN, fallback : fallbacks] :
     Ordered(o)}

Final == Sends({Nothing})
Sound == Sends(Seq(Final))

Known ==
  \/ Has("TFO") /\ system = "linux"
  \/ build = "user" /\ {"OOB", "TTL"} \subseteq Hint /\ length \in 1 .. 3
  \/ NotTCP /\ length > 0
  \/ build \in {"passive", "active"} /\ Protocol = "SOCKS5"

DialTypeOK ==
  /\ build \in Builds /\ Possible
  /\ system \in Systems
  /\ Protocol \in Protocols
  /\ offset \in 0 .. L /\ length \in 0 .. L /\ offset + length <= L
  /\ offset = 0 <=> length = 0
  /\ cut \in 0 .. L
  /\ stage = "cut" => cut \in Cuts
  /\ seq \in Int
  /\ kept \in Nat

PanicFree == ~Known => stage # "panic" /\ program \in Seq(Sound) /\ kernel \in Seq(Cell)

\* What a send adds to the bytes of the kernel, less what it adds to seq, for a
\* header cut at c, and r where its parts are in reverse.
Gain(o, c, r) ==
  CASE o.op \in {"write", "option", "fake"} -> (o.to - o.from) + Len(o.oob)
    [] o.op = "splice" -> o.to - o.from
    [] o.op = "raw" -> -c
    [] o.op = "addLen" -> -(IF r THEN L - c ELSE L)
    [] OTHER -> 0

\* The sends of p gain n in all: left is what is still to be gained at each.
Gains(p, n, c, r) ==
  \E left \in [1 .. Len(p) + 1 -> Int] :
    /\ left[1] = n /\ left[Len(p) + 1] = 0
    /\ \A i \in 1 .. Len(p) : left[i] = Gain(p[i], c, r) + left[i + 1]

\* A send whose error is not lost, and that is made in the same way on every system.
Certain(o) == ~o.lossy /\ o.op \notin SystemOps

InStep ==
  /\ \A i \in 1 .. Len(program) : Certain(program[i])
  /\ Gains(program, seq - Len(kernel), cut, Has("REVERSE"))

SeqInv ==
  build = "active" /\ SeqKnown =>
    /\ stage \in {"start", "connected", "cut"} => seq = 0 /\ kernel = << >>
    /\ stage = "syn" => seq = -1 /\ kernel = << >>
    /\ stage = "sending" => InStep
    /\ stage = "done" => Len(kernel) = seq

DialIInv == DialTypeOK /\ PanicFree /\ SeqInv

-----------------------------------------------------------------------------
(* The programs are sound.                                                  *)

LEMMA OpSound ==
  ASSUME NEW op \in SendOps, NEW from \in Nat, NEW to \in Nat, NEW oob \in Seq(Cell),
         op \in {"write", "option", "fake", "splice"} =>
           from <= to /\ to <= L /\ (op = "option" => ~NotTCP)
  PROVE  Op(op, from, to, oob) \in Seq(Final) /\ Len(Op(op, from, to, oob)) = 1
<1> DEFINE o == [op |-> op, from |-> from, to |-> to, oob |-> oob, lossy |-> FALSE, fallback |-> << >>]
<1>1. o \in Final BY DEF Final, Sends, Ordered, Nothing
<1> QED BY <1>1 DEF Op

LEMMA FinalSound == Final \subseteq Sound /\ Seq(Final) \subseteq Seq(Sound)
<1>1. {Nothing} \subseteq Seq(Final) BY DEF Nothing
<1> DEFINE S == Seq(Final)
<1>2. Sends({Nothing}) \subseteq Sends(S) BY <1>1 DEF Sends
<1>3. Final \subseteq Sound BY <1>2 DEF Final, Sound
<1> QED BY <1>3

LEMMA LossySound ==
  ASSUME NEW p \in Seq(Final), Len(p) = 1, NEW fallback \in Seq(Final)
  PROVE  Lossy(p, fallback) \in Seq(Sound)
<1> DEFINE o == [p[1] EXCEPT !.lossy = TRUE, !.fallback = fallback]
           S == Seq(Final)
<1>1. p[1] \in Final OBVIOUS
<1>2. o \in Sends(S) BY <1>1 DEF Final, Sends, Ordered
<1> QED BY <1>2 DEF Lossy, Sound

LEMMA NoSends == Nothing \in Seq(Final) /\ Nothing \in Seq(Cell)
BY DEF Nothing

LEMMA StepSound ==
  ASSUME NEW op \in SendOps, op \notin {"write", "option", "fake", "splice"}
  PROVE  Step(op) \in Seq(Final) /\ Len(Step(op)) = 1
BY NoSends, OpSound DEF Step

LEMMA WriteSound ==
  ASSUME NEW from \in Nat, NEW to \in Nat, from <= to, to <= L
  PROVE  /\ Write(from, to) \in Seq(Final) /\ Len(Write(from, to)) = 1
         /\ WriteFake(from, to) \in Seq(Final) /\ Len(WriteFake(from, to)) = 1
<1>1. "write" \in SendOps /\ "fake" \in SendOps
  BY DEF SendOps
<1>2. Nothing \in Seq(Cell)
  BY NoSends
<1>3. Op("write", from, to, Nothing) \in Seq(Final) /\ Len(Op("write", from, to, Nothing)) = 1
  BY <1>1, <1>2, OpSound
<1>4. Op("fake", from, to, Nothing) \in Seq(Final) /\ Len(Op("fake", from, to, Nothing)) = 1
  BY <1>1, <1>2, OpSound
<1> QED
  BY <1>3, <1>4 DEF Write, WriteFake

LEMMA OptionSound ==
  ASSUME NEW from \in Nat, NEW to \in Nat, from <= to, to <= L, ~NotTCP
  PROVE  Option(from, to) \in Seq(Final) /\ Len(Option(from, to)) = 1
<1>1. "option" \in SendOps
  BY DEF SendOps
<1> QED
  BY <1>1, NoSends, OpSound DEF Option

LEMMA OobSound ==
  ASSUME NEW from \in Nat, NEW to \in Nat, from <= to, to <= L, NEW oob \in Seq(Cell), ~NotTCP
  PROVE  Oob(from, to, oob) \in Seq(Final) /\ Len(Oob(from, to, oob)) = 1
<1>1. "option" \in SendOps
  BY DEF SendOps
<1> QED
  BY <1>1, OpSound DEF Oob

LEMMA CellsOfOob ==
  ASSUME NEW i \in Int, NEW j \in Int
  PROVE  /\ B(i) \in Cell /\ Zero \in Cell
         /\ <<Zero>> \in Seq(Cell) /\ <<B(i)>> \in Seq(Cell)
         /\ <<B(i), Zero>> \in Seq(Cell) /\ <<B(i), B(j)>> \in Seq(Cell)
<1>1. B(i) \in Cell
  BY DEF B, Cell
<1>2. B(j) \in Cell
  BY DEF B, Cell
<1>3. Zero \in Cell
  BY DEF Zero, Cell
<1> QED BY <1>1, <1>2, <1>3

LEMMA Joined ==
  ASSUME NEW S, NEW p \in Seq(S), NEW q \in Seq(S)
  PROVE  p \o q \in Seq(S) /\ Len(p \o q) = Len(p) + Len(q)
OBVIOUS

LEMMA Joined3 ==
  ASSUME NEW S, NEW p \in Seq(S), NEW q \in Seq(S), NEW r \in Seq(S)
  PROVE  p \o q \o r \in Seq(S) /\ Len(p \o q \o r) = Len(p) + Len(q) + Len(r)
<1>1. p \o q \in Seq(S) /\ Len(p \o q) = Len(p) + Len(q)
  BY Joined
<1> QED
  BY <1>1, Joined

LEMMA CutPlace ==
  ASSUME DialTypeOK, stage = "cut"
  PROVE  /\ offset # 0 => offset <= cut /\ cut <= offset + length
         /\ offset # 0 /\ build = "user" /\ Has("OOB") => cut = offset + length \div 2
         /\ offset = 0 => cut \in {0, L \div 2}
<1>1. cut \in Cuts
  BY DEF DialTypeOK
<1>2. CASE offset = 0
  BY <1>1, <1>2, LengthAssumption DEF Cuts, DialTypeOK
<1>3. CASE offset # 0
  BY <1>1, <1>3, LengthAssumption DEF Cuts, DialTypeOK
<1> QED
  BY <1>2, <1>3

LEMMA OOBProgramSound ==
  ASSUME DialTypeOK, stage = "cut", build = "user", Has("OOB"), length # 0, ~Known
  PROVE  OOBProgram \in Seq(Sound)
<1>1. /\ offset \in Nat /\ length \in Nat /\ offset >= 1 /\ length >= 1 /\ offset + length <= L
      /\ L \in Nat /\ L > 4 /\ cut \in Nat /\ cut <= L
  BY LengthAssumption DEF DialTypeOK
<1>0. ~NotTCP
  BY DEF NotTCP
<1>2. cut = offset + length \div 2
  BY <1>1, CutPlace DEF DialTypeOK
<1>3. Write(cut, L) \in Seq(Final)
  BY <1>1, WriteSound
<1>4. CASE Has("TTL")
  <2> DEFINE rest == Oob(offset + 2, cut, <<Zero>>) \o Write(cut, L)
             first == Oob(0, offset, <<B(offset), B(offset + 1)>>)
  <2>1. length >= 4
    BY <1>1, <1>4 DEF Known, Has
  <2>2. offset + 2 <= cut /\ offset + 2 \in Nat
    BY <1>1, <1>2, <2>1
  <2>3. <<Zero>> \in Seq(Cell)
    BY CellsOfOob
  <2>4. Oob(offset + 2, cut, <<Zero>>) \in Seq(Final)
    BY <1>0, <1>1, <2>2, <2>3, OobSound
  <2>5. rest \in Seq(Final)
    BY <1>3, <2>4, Joined
  <2>6. <<B(offset), B(offset + 1)>> \in Seq(Cell)
    BY <1>1, CellsOfOob
  <2>7. first \in Seq(Final) /\ Len(first) = 1
    <3>1. 0 \in Nat /\ 0 <= offset /\ offset <= L
      BY <1>1
    <3> QED
      BY <1>0, <1>1, <2>6, <3>1, OobSound
  <2>8. Lossy(first, rest) \in Seq(Sound)
    BY <2>5, <2>7, LossySound
  <2>9. Lossy(first, rest) \o rest \in Seq(Sound)
    BY <2>5, <2>8, Joined, FinalSound
  <2> QED
    BY <1>4, <2>9 DEF OOBProgram
<1>5. CASE ~Has("TTL") /\ Has("TCPFRAG")
  <2> DEFINE rest == Oob(1, offset, <<B(offset), Zero>>) \o Write(offset + 1, L)
  <2>1. <<B(offset), Zero>> \in Seq(Cell)
    BY <1>1, CellsOfOob
  <2>2. Oob(1, offset, <<B(offset), Zero>>) \in Seq(Final)
    <3>1. 1 \in Nat /\ 1 <= offset /\ offset <= L
      BY <1>1
    <3> QED
      BY <1>0, <1>1, <2>1, <3>1, OobSound
  <2>3. Write(offset + 1, L) \in Seq(Final)
    BY <1>1, WriteSound
  <2>4. rest \in Seq(Final)
    BY <2>2, <2>3, Joined
  <2>5. Write(0, 1) \in Seq(Final) /\ Len(Write(0, 1)) = 1
    BY <1>1, WriteSound
  <2>6. Lossy(Write(0, 1), rest) \in Seq(Sound)
    BY <2>4, <2>5, LossySound
  <2>7. Lossy(Write(0, 1), rest) \o rest \in Seq(Sound)
    BY <2>4, <2>6, Joined, FinalSound
  <2> QED
    BY <1>5, <2>7 DEF OOBProgram
<1>6. CASE ~Has("TTL") /\ ~Has("TCPFRAG")
  <2>1. <<B(1), Zero>> \in Seq(Cell)
    BY CellsOfOob
  <2>2. Oob(0, 1, <<B(1), Zero>>) \in Seq(Final)
    <3>1. 0 \in Nat /\ 1 \in Nat /\ 0 <= 1 /\ 1 <= L
      BY <1>1
    <3> QED
      BY <1>0, <2>1, <3>1, OobSound
  <2>3. Write(2, L) \in Seq(Final)
    BY <1>1, WriteSound
  <2>4. Oob(0, 1, <<B(1), Zero>>) \o Write(2, L) \in Seq(Sound)
    BY <2>2, <2>3, Joined, FinalSound
  <2> QED
    BY <1>6, <2>4 DEF OOBProgram
<1> QED
  BY <1>4, <1>5, <1>6

LEMMA UserProgramSound ==
  ASSUME DialTypeOK, stage = "cut", build = "user", ~Known
  PROVE  UserProgram \in Seq(Sound)
<1>1. L \in Nat /\ L > 4 /\ cut \in Nat /\ cut <= L
  BY LengthAssumption DEF DialTypeOK
<1>0. ~NotTCP
  BY DEF NotTCP
<1>2. Write(0, L) \in Seq(Sound) /\ Write(cut, L) \in Seq(Sound) /\ Write(0, cut) \in Seq(Sound)
  BY <1>1, WriteSound, FinalSound
<1>3. /\ Option(cut, L) \in Seq(Sound) /\ Option(0, cut) \in Seq(Sound)
      /\ Option(0, 1) \in Seq(Sound) /\ Option(1, 4) \in Seq(Sound)
      /\ cut > 4 => Option(4, cut) \in Seq(Sound)
  BY <1>0, <1>1, OptionSound, FinalSound
<1>8. CASE Has("TFO")
  <2>1. Write(0, cut) \o Write(cut, L) \in Seq(Sound)
    BY <1>2, Joined
  <2> QED
    BY <1>2, <1>8, <2>1 DEF UserProgram
<1>4. CASE ~Has("TFO") /\ length # 0 /\ Has("OOB")
  BY <1>4, OOBProgramSound DEF UserProgram
<1>5. CASE ~Has("TFO") /\ length # 0 /\ ~Has("OOB") /\ Has("TTL")
  <2>1. SplicePart \in Nat /\ SplicePart <= L
    BY <1>1 DEF SplicePart
  <2>2. "splice" \in SendOps /\ "lowTTL" \in SendOps /\ "copy" \in SendOps /\ "setTTL" \in SendOps
    BY DEF SendOps
  <2>3. Op("splice", 0, SplicePart, Nothing) \in Seq(Sound)
    BY <2>1, <2>2, OpSound, NoSends, FinalSound
  <2>4. Step("lowTTL") \in Seq(Sound) /\ Step("copy") \in Seq(Sound) /\ Step("setTTL") \in Seq(Sound)
    BY <2>2, StepSound, FinalSound
  <2>5. SpliceFake \in Seq(Sound)
    BY <2>3, <2>4, Joined DEF SpliceFake
  <2>6. SwapPages \in Seq(Sound)
    BY <2>4, Joined DEF SwapPages
  <2>7. (IF SplicePart < L THEN Write(SplicePart, L) ELSE Nothing) \in Seq(Sound)
    BY <1>1, <2>1, WriteSound, NoSends, FinalSound
  <2> QED
    BY <1>5, <2>5, <2>6, <2>7, Joined3 DEF UserProgram
<1>6. CASE ~Has("TFO") /\ length # 0 /\ ~Has("OOB") /\ ~Has("TTL") /\ Has("TCPFRAG")
  <2>1. FragProgram \in Seq(Sound)
    <3>1. CASE cut > 4
      <4>1. Option(0, 1) \o Option(1, 4) \o Option(4, cut) \in Seq(Sound)
        BY <1>3, <3>1, Joined3
      <4> QED
        BY <1>3, <3>1, <4>1, Joined DEF FragProgram
    <3>2. CASE ~(cut > 4)
      BY <1>3, <3>2, Joined DEF FragProgram
    <3> QED
      BY <3>1, <3>2
  <2> QED
    BY <1>6, <2>1 DEF UserProgram
<1>7. CASE ~Has("TFO") /\ (length = 0 \/ (~Has("OOB") /\ ~Has("TTL") /\ ~Has("TCPFRAG")))
  <2>1. Step("handshake") \in Seq(Sound)
    BY StepSound, FinalSound DEF SendOps
  <2> QED
    BY <1>2, <1>7, <2>1, Joined DEF UserProgram
<1> QED
  BY <1>4, <1>5, <1>6, <1>7, <1>8

LEMMA PlainProgramSound ==
  ASSUME DialTypeOK, build = "plain"
  PROVE  PlainProgram \in Seq(Sound)
<1>1. L \in Nat /\ L > 4 /\ cut \in Nat /\ cut <= L
  BY LengthAssumption DEF DialTypeOK
<1>0. ~NotTCP
  BY DEF NotTCP
<1> DEFINE Tagged(SegOffset) == Oob(SegOffset, cut, <<Zero>>) \o Write(cut, L)
<1>2. Step("handshake") \in Seq(Sound)
  BY StepSound, FinalSound DEF SendOps
<1>3. /\ Write(0, L) \in Seq(Sound) /\ Write(0, 1) \in Seq(Sound) /\ Write(1, 4) \in Seq(Sound)
      /\ Write(4, L) \in Seq(Sound) /\ Write(cut, L) \in Seq(Final)
      /\ Write(0, 1) \in Seq(Final) /\ Len(Write(0, 1)) = 1
  BY <1>1, WriteSound, FinalSound
<1>4. <<Zero>> \in Seq(Cell) /\ <<B(3)>> \in Seq(Cell)
  BY CellsOfOob
<1>5. Tagged(0) \in Seq(Final)
  <2>1. 0 \in Nat /\ 0 <= cut
    BY <1>1
  <2>2. Oob(0, cut, <<Zero>>) \in Seq(Final)
    BY <1>0, <1>1, <1>4, <2>1, OobSound
  <2> QED
    BY <1>3, <2>2, Joined
<1>6. cut > 4 => Tagged(4) \in Seq(Final)
  <2>1. SUFFICES ASSUME cut > 4 PROVE Tagged(4) \in Seq(Final)
    OBVIOUS
  <2>2. 4 \in Nat /\ 4 <= cut
    BY <1>1, <2>1
  <2>3. Oob(4, cut, <<Zero>>) \in Seq(Final)
    BY <1>0, <1>1, <1>4, <2>2, OobSound
  <2> QED
    BY <1>3, <2>3, Joined
<1>7. Oob(1, 3, <<B(3)>>) \in Seq(Final) /\ Len(Oob(1, 3, <<B(3)>>)) = 1
  <2>1. 1 \in Nat /\ 3 \in Nat /\ 1 <= 3 /\ 3 <= L
    BY <1>1
  <2> QED
    BY <1>0, <1>4, <2>1, OobSound
<1>8. Lossy(Write(0, 1), Tagged(0)) \in Seq(Sound)
  BY <1>3, <1>5, LossySound
<1>9. cut > 4 => Lossy(Oob(1, 3, <<B(3)>>), Tagged(4)) \in Seq(Sound)
  BY <1>6, <1>7, LossySound
<1>10. Write(0, 1) \o Write(1, 4) \o Write(4, L) \in Seq(Sound)
  BY <1>3, Joined3
<1>11. cut > 4 =>
         Lossy(Write(0, 1), Tagged(0)) \o Lossy(Oob(1, 3, <<B(3)>>), Tagged(4)) \o Tagged(4) \in Seq(Sound)
  BY <1>6, <1>8, <1>9, Joined3, FinalSound
<1>12. Tagged(0) \in Seq(Sound)
  BY <1>5, FinalSound
<1> DEFINE rest ==
     IF cut <= 4 \/ Hint \cap {"TCPFRAG", "OOB"} = {} THEN Write(0, L)
     ELSE IF ~Has("OOB") THEN Write(0, 1) \o Write(1, 4) \o Write(4, L)
     ELSE IF ~Has("TCPFRAG") THEN Tagged(0)
     ELSE Lossy(Write(0, 1), Tagged(0)) \o Lossy(Oob(1, 3, <<B(3)>>), Tagged(4)) \o Tagged(4)
<1>13. rest \in Seq(Sound)
  <2> HIDE DEF Tagged
  <2> QED
    BY <1>1, <1>3, <1>10, <1>11, <1>12
<1>14. PlainProgram = Step("handshake") \o rest
  BY DEF PlainProgram
<1> HIDE DEF rest
<1> QED
  BY <1>2, <1>13, <1>14, Joined

LEMMA PassiveProgramSound ==
  ASSUME DialTypeOK, build = "passive", ~Known
  PROVE  PassiveProgram \in Seq(Sound)
<1>1. L \in Nat /\ L > 4 /\ cut \in Nat /\ cut <= L /\ length \in Nat
  BY LengthAssumption DEF DialTypeOK
<1>2. Step("handshake") \in Seq(Sound)
  BY StepSound, FinalSound DEF SendOps
<1>3. Write(0, L) \in Seq(Sound) /\ Write(cut, L) \in Seq(Sound)
  BY <1>1, WriteSound, FinalSound
<1>4. CASE length > 0
  <2>1. ~NotTCP
    BY <1>4 DEF Known
  <2>2. Option(0, cut) \in Seq(Final) /\ Len(Option(0, cut)) = 1
    BY <1>1, <2>1, OptionSound
  <2>3. Lossy(Option(0, cut), Nothing) \in Seq(Sound)
    BY <2>2, LossySound, NoSends
  <2> QED
    BY <1>2, <1>3, <1>4, <2>3, Joined DEF PassiveProgram
<1>5. CASE ~(length > 0)
  BY <1>2, <1>3, <1>5, Joined DEF PassiveProgram
<1> QED
  BY <1>4, <1>5

LEMMA ActiveProgramSound ==
  ASSUME DialTypeOK
  PROVE  ActiveProgram \in Seq(Sound)
<1>1. L \in Nat /\ L > 4 /\ cut \in Nat /\ cut <= L
  BY LengthAssumption DEF DialTypeOK
<1> DEFINE frag == Has("TCPFRAG") /\ cut > 4
           SegOffset == IF frag THEN 4 ELSE 0
           first == IF frag THEN Write(0, 1) \o Write(1, 4) ELSE Nothing
           parts == IF Has("REVERSE") THEN ReverseProgram(SegOffset)
                    ELSE Write(SegOffset, cut) \o Decoy \o Write(cut, L)
           last == IF Has("SAT") THEN Decoy ELSE Nothing
<1>2. /\ Step("handshake") \in Seq(Sound) /\ Step("raw") \in Seq(Sound) /\ Decoy \in Seq(Sound)
      /\ Step("addLen") \in Seq(Sound)
  BY StepSound, FinalSound DEF SendOps, Decoy
<1>3. SegOffset \in Nat /\ SegOffset <= cut
  BY <1>1
<1>4. first \in Seq(Sound)
  <2>1. Write(0, 1) \o Write(1, 4) \in Seq(Sound)
    BY <1>1, WriteSound, FinalSound, Joined
  <2> QED
    BY <2>1, NoSends, FinalSound
<1>5. parts \in Seq(Sound)
  <2> HIDE DEF SegOffset
  <2>1. /\ Write(SegOffset, cut) \in Seq(Sound) /\ WriteFake(cut, L) \in Seq(Sound)
        /\ Write(cut, L) \in Seq(Sound)
    BY <1>1, <1>3, WriteSound, FinalSound
  <2>2. ReverseProgram(SegOffset) \in Seq(Sound)
    BY <1>2, <2>1, Joined3 DEF ReverseProgram
  <2>3. Write(SegOffset, cut) \o Decoy \o Write(cut, L) \in Seq(Sound)
    BY <1>2, <2>1, Joined3
  <2> QED
    BY <2>2, <2>3
<1>6. last \in Seq(Sound)
  BY <1>2, NoSends, FinalSound
<1>7. Lossy(Write(0, L), Nothing) \in Seq(Sound)
  BY <1>1, WriteSound, LossySound, NoSends
<1>8. ActiveProgram = Step("handshake") \o
        IF Protocol = "HTTPS" THEN Lossy(Write(0, L), Nothing)
        ELSE Decoy \o first \o parts \o Step("addLen") \o last
  BY DEF ActiveProgram
<1> HIDE DEF first, parts, last
<1>9. Decoy \o first \o parts \in Seq(Sound)
  BY <1>2, <1>4, <1>5, Joined3
<1>10. Decoy \o first \o parts \o Step("addLen") \o last \in Seq(Sound)
  BY <1>2, <1>6, <1>9, Joined3
<1> QED
  BY <1>2, <1>7, <1>8, <1>10, Joined

-----------------------------------------------------------------------------
(* The bytes that the sends of a dial with raw packets have left.           *)

LEMMA GainIsInt ==
  ASSUME NEW o \in Sound, NEW c \in Int, NEW r \in BOOLEAN
  PROVE  Gain(o, c, r) \in Int
<1>1. o.from \in Nat /\ o.to \in Nat /\ Len(o.oob) \in Nat
  BY DEF Sound, Sends
<1>2. L - c \in Int /\ -(L - c) \in Int /\ -L \in Int /\ -c \in Int
  BY LengthAssumption
<1>3. o.to - o.from \in Int /\ (o.to - o.from) + Len(o.oob) \in Int
  BY <1>1
<1>4. CASE o.op = "addLen"
  BY <1>2, <1>4 DEF Gain
<1>5. CASE o.op # "addLen"
  BY <1>2, <1>3, <1>5 DEF Gain
<1> QED
  BY <1>4, <1>5

LEMMA NoneGained ==
  ASSUME NEW c, NEW r
  PROVE  Gains(<< >>, 0, c, r) /\ \A n : Gains(<< >>, n, c, r) => n = 0
<1>1. Gains(<< >>, 0, c, r)
  <2> DEFINE left == [i \in 1 .. Len(<< >>) + 1 |-> 0]
  <2>1. left \in [1 .. Len(<< >>) + 1 -> Int] /\ left[1] = 0 /\ left[Len(<< >>) + 1] = 0
    OBVIOUS
  <2>2. \A i \in 1 .. Len(<< >>) : left[i] = Gain(<< >>[i], c, r) + left[i + 1]
    OBVIOUS
  <2> QED
    BY <2>1, <2>2 DEF Gains
<1>2. \A n : Gains(<< >>, n, c, r) => n = 0
  BY DEF Gains
<1> QED
  BY <1>1, <1>2

LEMMA OneGained ==
  ASSUME NEW o \in Sound, NEW c \in Int, NEW r \in BOOLEAN
  PROVE  Gains(<<o>>, Gain(o, c, r), c, r)
<1> DEFINE left == [i \in 1 .. Len(<<o>>) + 1 |-> IF i = 1 THEN Gain(o, c, r) ELSE 0]
<1>1. Gain(o, c, r) \in Int
  BY GainIsInt
<1>2. left \in [1 .. Len(<<o>>) + 1 -> Int]
  BY <1>1
<1>3. left[1] = Gain(o, c, r) /\ left[Len(<<o>>) + 1] = 0
  OBVIOUS
<1>4. \A i \in 1 .. Len(<<o>>) : left[i] = Gain(<<o>>[i], c, r) + left[i + 1]
  BY <1>1
<1> HIDE DEF left
<1> QED
  BY <1>2, <1>3, <1>4 DEF Gains

LEMMA TailGained ==
  ASSUME NEW p \in Seq(Sound), p # << >>, NEW n \in Int, NEW c \in Int, NEW r \in BOOLEAN, Gains(p, n, c, r)
  PROVE  Gains(Tail(p), n - Gain(p[1], c, r), c, r)
<1>1. PICK left \in [1 .. Len(p) + 1 -> Int] :
        /\ left[1] = n /\ left[Len(p) + 1] = 0
        /\ \A i \in 1 .. Len(p) : left[i] = Gain(p[i], c, r) + left[i + 1]
  BY DEF Gains
<1> DEFINE q == Tail(p)
           rest == [i \in 1 .. Len(q) + 1 |-> left[i + 1]]
<1>2. Len(p) \in Nat /\ Len(p) >= 1 /\ Len(q) = Len(p) - 1 /\ \A i \in 1 .. Len(q) : q[i] = p[i + 1]
  OBVIOUS
<1>3. p[1] \in Sound
  BY <1>2
<1>4. Gain(p[1], c, r) \in Int
  BY <1>3, GainIsInt
<1> HIDE DEF q
<1>5. rest \in [1 .. Len(q) + 1 -> Int]
  BY <1>1, <1>2
<1>6. rest[1] = n - Gain(p[1], c, r)
  BY <1>1, <1>2, <1>4
<1>7. rest[Len(q) + 1] = 0
  BY <1>1, <1>2
<1>8. ASSUME NEW i \in 1 .. Len(q)
      PROVE  rest[i] = Gain(q[i], c, r) + rest[i + 1]
  <2>1. i + 1 \in 1 .. Len(p) /\ i + 1 \in 1 .. Len(q) + 1 /\ i \in 1 .. Len(q) + 1
    BY <1>2
  <2>2. rest[i] = left[i + 1] /\ rest[i + 1] = left[(i + 1) + 1]
    BY <2>1
  <2> QED
    BY <1>1, <1>2, <2>1, <2>2
<1> HIDE DEF rest
<1>9. Gains(q, n - Gain(p[1], c, r), c, r)
  BY <1>5, <1>6, <1>7, <1>8 DEF Gains
<1> QED
  BY <1>9 DEF q

LEMMA JoinedGained ==
  ASSUME NEW p \in Seq(Sound), NEW q \in Seq(Sound), NEW n \in Int, NEW m \in Int,
         NEW c \in Int, NEW r \in BOOLEAN, Gains(p, n, c, r), Gains(q, m, c, r)
  PROVE  Gains(p \o q, n + m, c, r)
<1>1. PICK left \in [1 .. Len(p) + 1 -> Int] :
        /\ left[1] = n /\ left[Len(p) + 1] = 0
        /\ \A i \in 1 .. Len(p) : left[i] = Gain(p[i], c, r) + left[i + 1]
  BY DEF Gains
<1>2. PICK rest \in [1 .. Len(q) + 1 -> Int] :
        /\ rest[1] = m /\ rest[Len(q) + 1] = 0
        /\ \A i \in 1 .. Len(q) : rest[i] = Gain(q[i], c, r) + rest[i + 1]
  BY DEF Gains
<1> DEFINE pq == p \o q
           k == Len(p)
           all == [i \in 1 .. Len(pq) + 1 |-> IF i <= k THEN left[i] + m ELSE rest[i - k]]
<1>3. k \in Nat /\ Len(q) \in Nat /\ Len(pq) = k + Len(q)
  OBVIOUS
<1>4. \A i \in 1 .. Len(pq) : pq[i] = IF i <= k THEN p[i] ELSE q[i - k]
  OBVIOUS
<1>5. \A i \in 1 .. k : Gain(p[i], c, r) \in Int
  <2> TAKE i \in 1 .. k
  <2>1. p[i] \in Sound
    OBVIOUS
  <2> QED
    BY <2>1, GainIsInt
<1> HIDE DEF pq
<1>6. all \in [1 .. Len(pq) + 1 -> Int]
  <2>1. ASSUME NEW i \in 1 .. Len(pq) + 1
        PROVE  (IF i <= k THEN left[i] + m ELSE rest[i - k]) \in Int
    <3>1. CASE i <= k
      <4>1. left[i] \in Int
        BY <1>3, <3>1
      <4> QED
        BY <3>1, <4>1
    <3>2. CASE ~(i <= k)
      <4>1. i - k \in 1 .. Len(q) + 1
        BY <1>3, <3>2
      <4> QED
        BY <3>2, <4>1
    <3> QED
      BY <3>1, <3>2
  <2> QED
    BY <2>1
<1>7. all[1] = n + m
  <2>1. CASE k = 0
    <3>1. n = 0
      BY <1>1, <2>1
    <3>2. all[1] = rest[1]
      BY <1>3, <2>1
    <3> QED
      BY <1>2, <3>1, <3>2
  <2>2. CASE k # 0
    BY <1>1, <1>3, <2>2
  <2> QED
    BY <2>1, <2>2
<1>8. all[Len(pq) + 1] = 0
  BY <1>2, <1>3
<1>9. ASSUME NEW i \in 1 .. Len(pq)
      PROVE  all[i] = Gain(pq[i], c, r) + all[i + 1]
  <2>1. i \in 1 .. Len(pq) + 1 /\ i + 1 \in 1 .. Len(pq) + 1
    BY <1>3
  <2>2. CASE i < k
    <3>1. i \in 1 .. k /\ i + 1 <= k /\ i + 1 \in 1 .. k + 1
      BY <1>3, <2>1, <2>2
    <3>4. left[i + 1] \in Int
      BY <3>1
    <3>2. all[i] = left[i] + m /\ all[i + 1] = left[i + 1] + m /\ pq[i] = p[i]
      BY <1>3, <1>4, <2>1, <3>1
    <3>3. left[i] = Gain(p[i], c, r) + left[i + 1] /\ Gain(p[i], c, r) \in Int
      BY <1>1, <1>5, <3>1
    <3> QED
      BY <3>2, <3>3, <3>4
  <2>3. CASE i = k
    <3>1. all[i] = left[k] + m /\ pq[i] = p[k] /\ k \in 1 .. k
      BY <1>3, <1>4, <2>1, <2>3
    <3>2. all[i + 1] = rest[1]
      BY <1>3, <2>1, <2>3
    <3>3. left[k] = Gain(p[k], c, r) + 0 /\ Gain(p[k], c, r) \in Int
      BY <1>1, <1>5, <3>1
    <3> QED
      BY <1>2, <3>1, <3>2, <3>3
  <2>4. CASE i > k
    <3>1. i - k \in 1 .. Len(q) /\ (i + 1) - k = (i - k) + 1
      BY <1>3, <2>4
    <3>2. all[i] = rest[i - k] /\ all[i + 1] = rest[(i - k) + 1] /\ pq[i] = q[i - k]
      BY <1>3, <1>4, <2>1, <2>4, <3>1
    <3> QED
      BY <1>2, <3>1, <3>2
  <2> QED
    BY <1>3, <2>2, <2>3, <2>4
<1> HIDE DEF all
<1>10. Gains(pq, n + m, c, r)
  BY <1>6, <1>7, <1>8, <1>9 DEF Gains
<1> QED
  BY <1>10 DEF pq

\* Sends that are certain, and what they gain.
Adds(p, n) ==
  /\ p \in Seq(Sound)
  /\ n \in Int
  /\ \A i \in 1 .. Len(p) : Certain(p[i])
  /\ Gains(p, n, cut, Has("REVERSE"))

LEMMA HasIsBoolean == Has("REVERSE") \in BOOLEAN
BY DEF Has

LEMMA AddsJoined ==
  ASSUME NEW p, NEW q, NEW n, NEW m, cut \in Int, Adds(p, n), Adds(q, m)
  PROVE  Adds(p \o q, n + m)
<1>1. p \in Seq(Sound) /\ q \in Seq(Sound) /\ n \in Int /\ m \in Int
  BY DEF Adds
<1>2. p \o q \in Seq(Sound)
  BY <1>1, Joined
<1>3. \A i \in 1 .. Len(p \o q) : Certain((p \o q)[i])
  <2> TAKE i \in 1 .. Len(p \o q)
  <2>1. CASE i <= Len(p)
    <3>1. (p \o q)[i] = p[i] /\ i \in 1 .. Len(p)
      BY <1>1, <2>1
    <3> QED
      BY <3>1 DEF Adds
  <2>2. CASE i > Len(p)
    <3>1. (p \o q)[i] = q[i - Len(p)] /\ i - Len(p) \in 1 .. Len(q)
      BY <1>1, <2>2
    <3> QED
      BY <3>1 DEF Adds
  <2> QED
    BY <1>1, <2>1, <2>2
<1>4. Gains(p \o q, n + m, cut, Has("REVERSE"))
  BY <1>1, JoinedGained, HasIsBoolean DEF Adds
<1> QED
  BY <1>1, <1>2, <1>3, <1>4 DEF Adds

LEMMA OpAdds ==
  ASSUME cut \in Int, NEW op \in SendOps, NEW from \in Nat, NEW to \in Nat,
         op \notin SystemOps,
         op \in {"write", "fake"} => from <= to /\ to <= L
  PROVE  Adds(Op(op, from, to, Nothing),
              CASE op \in {"write", "fake"} -> to - from
                [] op = "raw" -> -cut
                [] op = "addLen" -> -(IF Has("REVERSE") THEN L - cut ELSE L)
                [] OTHER -> 0)
<1> DEFINE o == [op |-> op, from |-> from, to |-> to, oob |-> << >>, lossy |-> FALSE, fallback |-> << >>]
           p == Op(op, from, to, Nothing)
<1>1. p \in Seq(Final)
  BY OpSound, NoSends DEF SystemOps
<1>2. p = <<o>>
  BY DEF Op, Nothing
<1>3. o \in Sound
  BY <1>1, <1>2, FinalSound
<1>4. Gains(p, Gain(o, cut, Has("REVERSE")), cut, Has("REVERSE"))
  BY <1>2, <1>3, OneGained, HasIsBoolean
<1>5. Gain(o, cut, Has("REVERSE")) =
        CASE op \in {"write", "fake"} -> to - from
          [] op = "raw" -> -cut
          [] op = "addLen" -> -(IF Has("REVERSE") THEN L - cut ELSE L)
          [] OTHER -> 0
  BY DEF Gain, SystemOps
<1>6. Gain(o, cut, Has("REVERSE")) \in Int
  BY <1>3, GainIsInt, HasIsBoolean
<1>7. \A i \in 1 .. Len(p) : Certain(p[i])
  BY <1>2 DEF Certain
<1>8. p \in Seq(Sound)
  BY <1>1, FinalSound
<1> HIDE DEF o, p
<1>9. Adds(p, Gain(o, cut, Has("REVERSE")))
  BY <1>4, <1>6, <1>7, <1>8 DEF Adds
<1> QED
  BY <1>5, <1>9 DEF p

LEMMA StepAdds ==
  ASSUME cut \in Int
  PROVE  /\ Adds(Step("handshake"), 0) /\ Adds(Decoy, 0)
         /\ Adds(Step("raw"), -cut)
         /\ Adds(Step("addLen"), -(IF Has("REVERSE") THEN L - cut ELSE L))
<1>1. Adds(Step("handshake"), 0)
  BY OpAdds DEF SendOps, SystemOps, Step
<1>2. Adds(Decoy, 0)
  BY OpAdds DEF SendOps, SystemOps, Step, Decoy
<1>3. Adds(Step("raw"), -cut)
  BY OpAdds DEF SendOps, SystemOps, Step
<1>4. Adds(Step("addLen"), -(IF Has("REVERSE") THEN L - cut ELSE L))
  BY OpAdds DEF SendOps, SystemOps, Step
<1> QED
  BY <1>1, <1>2, <1>3, <1>4

LEMMA WriteAdds ==
  ASSUME cut \in Int, NEW from \in Nat, NEW to \in Nat, from <= to, to <= L
  PROVE  Adds(Write(from, to), to - from) /\ Adds(WriteFake(from, to), to - from)
<1>1. Adds(Write(from, to), to - from)
  BY OpAdds DEF SendOps, SystemOps, Write
<1>2. Adds(WriteFake(from, to), to - from)
  BY OpAdds DEF SendOps, SystemOps, WriteFake
<1> QED
  BY <1>1, <1>2

LEMMA NothingAdds == Adds(Nothing, 0)
BY NoneGained, NoSends, FinalSound DEF Adds, Nothing

\* A program of raw packets adds as much to the number as to the kernel.
LEMMA ActiveProgramAdds ==
  ASSUME DialTypeOK, Protocol # "HTTPS"
  PROVE  Adds(ActiveProgram, 0)
<1>1. L \in Nat /\ L > 4 /\ cut \in Nat /\ cut <= L /\ cut \in Int
  BY LengthAssumption DEF DialTypeOK
<1> DEFINE frag == Has("TCPFRAG") /\ cut > 4
           SegOffset == IF frag THEN 4 ELSE 0
           first == IF frag THEN Write(0, 1) \o Write(1, 4) ELSE Nothing
           parts == IF Has("REVERSE") THEN ReverseProgram(SegOffset)
                    ELSE Write(SegOffset, cut) \o Decoy \o Write(cut, L)
           last == IF Has("SAT") THEN Decoy ELSE Nothing
           added == IF Has("REVERSE") THEN L - cut ELSE L
<1>2. ActiveProgram = Step("handshake") \o (Decoy \o first \o parts \o Step("addLen") \o last)
  BY DEF ActiveProgram
<1>3. SegOffset \in Nat /\ SegOffset <= cut
  BY <1>1
<1>4. Adds(first, SegOffset)
  <2>1. Adds(Write(0, 1), 1)
    <3>1. 0 \in Nat /\ 1 \in Nat /\ 0 <= 1 /\ 1 <= L /\ 1 - 0 = 1
      BY <1>1
    <3> QED
      BY <1>1, <3>1, WriteAdds
  <2>2. Adds(Write(1, 4), 3)
    <3>1. 1 \in Nat /\ 4 \in Nat /\ 1 <= 4 /\ 4 <= L /\ 4 - 1 = 3
      BY <1>1
    <3> QED
      BY <1>1, <3>1, WriteAdds
  <2>3. Adds(Write(0, 1) \o Write(1, 4), 1 + 3)
    BY <1>1, <2>1, <2>2, AddsJoined
  <2>4. 1 + 3 = 4
    OBVIOUS
  <2> QED
    BY <2>3, <2>4, NothingAdds
<1> HIDE DEF frag, SegOffset, first
<1>5. Adds(parts, IF Has("REVERSE") THEN L - cut - SegOffset ELSE L - SegOffset)
  <2>1. Adds(Write(SegOffset, cut), cut - SegOffset)
    BY <1>1, <1>3, WriteAdds
  <2>2. Adds(WriteFake(cut, L), L - cut) /\ Adds(Write(cut, L), L - cut)
    BY <1>1, WriteAdds
  <2>3. CASE Has("REVERSE")
    <3>1. Adds(Step("raw") \o Write(SegOffset, cut) \o WriteFake(cut, L),
               (-cut + (cut - SegOffset)) + (L - cut))
      BY <1>1, <2>1, <2>2, StepAdds, AddsJoined
    <3>2. (-cut + (cut - SegOffset)) + (L - cut) = L - cut - SegOffset
      BY <1>1, <1>3
    <3> QED
      BY <2>3, <3>1, <3>2 DEF ReverseProgram
  <2>4. CASE ~Has("REVERSE")
    <3>1. Adds(Write(SegOffset, cut) \o Decoy \o Write(cut, L),
               ((cut - SegOffset) + 0) + (L - cut))
      BY <1>1, <2>1, <2>2, StepAdds, AddsJoined
    <3>2. ((cut - SegOffset) + 0) + (L - cut) = L - SegOffset
      BY <1>1, <1>3
    <3> QED
      BY <2>4, <3>1, <3>2
  <2> QED
    BY <2>3, <2>4
<1>6. Adds(last, 0)
  BY <1>1, StepAdds, NothingAdds
<1> HIDE DEF parts, last
<1> DEFINE n == IF Has("REVERSE") THEN L - cut - SegOffset ELSE L - SegOffset
<1>7. Adds(Decoy \o first, 0 + SegOffset)
  BY <1>1, <1>4, StepAdds, AddsJoined
<1>8. Adds(Decoy \o first \o parts, (0 + SegOffset) + n)
  BY <1>1, <1>5, <1>7, AddsJoined
<1>9. Adds(Decoy \o first \o parts \o Step("addLen"), ((0 + SegOffset) + n) + -added)
  BY <1>1, <1>8, StepAdds, AddsJoined
<1>10. Adds(Decoy \o first \o parts \o Step("addLen") \o last, (((0 + SegOffset) + n) + -added) + 0)
  BY <1>1, <1>6, <1>9, AddsJoined
<1>11. Adds(ActiveProgram, 0 + ((((0 + SegOffset) + n) + -added) + 0))
  BY <1>1, <1>2, <1>10, StepAdds, AddsJoined
<1>12. 0 + ((((0 + SegOffset) + n) + -added) + 0) = 0
  BY <1>1, <1>3
<1> QED
  BY <1>11, <1>12

-----------------------------------------------------------------------------
(* The invariant of the sends.                                              *)

LEMMA DialInitIInv == DialInit => DialIInv
<1> SUFFICES ASSUME DialInit PROVE DialIInv
  OBVIOUS
<1>1. DialTypeOK
  <2>2. PICK name \in {<<0, 0>>} \cup {n \in (1 .. L) \X (1 .. L) : n[1] + n[2] <= L} :
          offset = name[1] /\ length = name[2]
    BY DEF DialInit
  <2>3. offset \in 0 .. L /\ length \in 0 .. L /\ offset + length <= L /\ (offset = 0 <=> length = 0)
    <3>1. CASE name = <<0, 0>>
      BY <2>2, <3>1, LengthAssumption
    <3>2. CASE name \in (1 .. L) \X (1 .. L) /\ name[1] + name[2] <= L
      BY <2>2, <3>2, LengthAssumption
    <3> QED
      BY <2>2, <3>1, <3>2
  <2> QED
    BY <2>3, LengthAssumption DEF DialInit, DialTypeOK
<1>2. PanicFree
  BY DEF DialInit, PanicFree
<1>3. SeqInv
  BY DEF DialInit, SeqInv
<1> QED
  BY <1>1, <1>2, <1>3 DEF DialIInv

LEMMA CellsAre ==
  ASSUME NEW kind \in {"b", "f", "h", "k", "0", "clear"}, NEW from \in Nat, NEW to \in Nat, from <= to
  PROVE  Cells(kind, from, to) \in Seq(Cell) /\ Len(Cells(kind, from, to)) = to - from
<1>1. \A i \in 1 .. to - from : <<kind, from + i - 1>> \in Cell
  BY DEF Cell
<1>2. to - from \in Nat
  OBVIOUS
<1> DEFINE n == to - from
           cells == [i \in 1 .. n |-> <<kind, from + i - 1>>]
<1>3. cells \in [1 .. n -> Cell]
  BY <1>1
<1>4. n \in Nat
  BY <1>2
<1>5. cells = Cells(kind, from, to)
  BY DEF Cells
<1> HIDE DEF cells, n
<1>6. cells \in Seq(Cell) /\ Len(cells) = n
  BY <1>3, <1>4
<1> QED
  BY <1>5, <1>6 DEF n

\* The send that is next.
LEMMA TopIs ==
  ASSUME PanicFree, ~Known, program # << >>
  PROVE  /\ program \in Seq(Sound) /\ Tail(program) \in Seq(Sound)
         /\ Top \in Sound /\ Top.op \in SendOps
         /\ Top.from \in Nat /\ Top.to \in Nat /\ Top.oob \in Seq(Cell)
         /\ Top.fallback \in Seq(Sound)
<1>1. program \in Seq(Sound)
  BY DEF PanicFree
<1>2. Top \in Sound /\ Tail(program) \in Seq(Sound)
  BY <1>1 DEF Top
<1>3. Top.fallback \in Seq(Final)
  BY <1>2 DEF Sound, Sends
<1> QED
  BY <1>1, <1>2, <1>3, FinalSound DEF Sound, Sends

LEMMA HandshakeIs ==
  ASSUME DialTypeOK
  PROVE  /\ Handshake.sent \in Nat /\ Handshake.proxy_seq \in Nat
         /\ SeqKnown => Handshake.sent = Handshake.proxy_seq
BY ProtocolAssumption DEF DialTypeOK, Handshake, SeqKnown

\* What the bytes of the kernel grow by.
LEMMA SendGrows ==
  ASSUME PanicFree, ~Known, Send \/ Splice
  PROVE  /\ kernel' \in Seq(Cell)
         /\ Len(kernel') = Len(kernel) + Gain(Top, cut, Has("REVERSE"))
<1>1. program # << >> /\ kernel \in Seq(Cell) /\ InBounds
  BY DEF PanicFree, Send, Splice, Sending
<1>2. Top \in Sound /\ Top.from \in Nat /\ Top.to \in Nat /\ Top.oob \in Seq(Cell) /\ Top.from <= Top.to
  BY <1>1, TopIs DEF InBounds
<1>3. CASE Send
  <2>1. Kind \in {"b", "f", "h", "k", "0", "clear"}
    BY DEF Kind
  <2> DEFINE cells == Cells(Kind, Top.from, Top.to)
  <2>2. cells \in Seq(Cell) /\ Len(cells) = Top.to - Top.from
    BY <1>2, <2>1, CellsAre
  <2>3. kernel' = kernel \o cells \o Top.oob
    BY <1>3 DEF Send
  <2>4. Gain(Top, cut, Has("REVERSE")) = (Top.to - Top.from) + Len(Top.oob)
    BY <1>3 DEF Gain, Send, Sending
  <2> HIDE DEF cells
  <2>5. kernel' \in Seq(Cell) /\ Len(kernel') = Len(kernel) + Len(cells) + Len(Top.oob)
    <3>1. kernel \in Seq(Cell) /\ cells \in Seq(Cell) /\ Top.oob \in Seq(Cell)
      BY <1>1, <1>2, <2>2
    <3>2. /\ kernel \o cells \o Top.oob \in Seq(Cell)
          /\ Len(kernel \o cells \o Top.oob) = Len(kernel) + Len(cells) + Len(Top.oob)
      BY <3>1, Joined3
    <3> QED
      BY <2>3, <3>2
  <2>6. Len(kernel) \in Nat /\ Len(Top.oob) \in Nat
    BY <1>1, <1>2
  <2> QED
    BY <1>2, <2>2, <2>4, <2>5, <2>6
<1>4. CASE Splice
  <2> DEFINE cells == Cells("b", Top.from, Top.to)
  <2>1. cells \in Seq(Cell) /\ Len(cells) = Top.to - Top.from
    BY <1>2, CellsAre
  <2>2. kernel' = kernel \o cells
    BY <1>4 DEF Splice
  <2>3. Gain(Top, cut, Has("REVERSE")) = Top.to - Top.from
    BY <1>4 DEF Gain, Splice, Sending
  <2> HIDE DEF cells
  <2>4. kernel' \in Seq(Cell) /\ Len(kernel') = Len(kernel) + Len(cells)
    BY <1>1, <2>1, <2>2, Joined
  <2> QED
    BY <2>1, <2>3, <2>4
<1> QED
  BY <1>3, <1>4

LEMMA HandshakeGrows ==
  ASSUME DialTypeOK, kernel \in Seq(Cell)
  PROVE  LET sent == kernel \o Cells("h", 0, Handshake.sent)
         IN sent \in Seq(Cell) /\ Len(sent) = Len(kernel) + Handshake.sent
<1> DEFINE cells == Cells("h", 0, Handshake.sent)
<1>1. cells \in Seq(Cell) /\ Len(cells) = Handshake.sent
  <2>1. Handshake.sent \in Nat /\ 0 \in Nat /\ 0 <= Handshake.sent /\ Handshake.sent - 0 = Handshake.sent
    BY HandshakeIs
  <2> QED
    BY <2>1, CellsAre
<1> HIDE DEF cells
<1>2. kernel \o cells \in Seq(Cell) /\ Len(kernel \o cells) = Len(kernel) + Handshake.sent
  BY <1>1
<1> QED
  BY <1>2 DEF cells

LEMMA KeepGrows ==
  ASSUME DialTypeOK, kernel \in Seq(Cell), Keep
  PROVE  kernel' \in Seq(Cell) /\ Len(kernel') = Len(kernel) + 1
<1>1. <<"k", kept>> \in Cell
  BY DEF Cell, DialTypeOK
<1> QED
  BY <1>1 DEF Keep

LEMMA NextPanicFree ==
  ASSUME DialTypeOK, PanicFree, [DialNext]_dialVars
  PROVE  PanicFree'
<1> SUFFICES ASSUME ~Known' PROVE stage' # "panic" /\ program' \in Seq(Sound)' /\ kernel' \in Seq(Cell)
  BY DEF PanicFree
<1>0. UNCHANGED chosen
  BY DEF DialNext, DialConnInfo, CountSyn, OpenConnection, Cut, Branch, Panic, Send, Skip, FirstUrgentLost, Fail, DoHandshake,
         SendDecoy, SendRaw, AddLen, SetTTL, Splice, CopyPages, Retransmit, UrgentRead, Finish, Keep, Drop, dialVars
<1>1. ~Known /\ Seq(Sound)' = Seq(Sound)
  <2>1. Known' = Known
    BY <1>0 DEF Known, chosen, Has, NotTCP
  <2>2. Sound' = Sound
    BY <1>0 DEF chosen, Sound, Final, Sends, Ordered, NotTCP
  <2> QED
    BY <2>1, <2>2
<1>2. stage # "panic" /\ program \in Seq(Sound) /\ kernel \in Seq(Cell)
  BY <1>1 DEF PanicFree
<1>3. CASE DialConnInfo \/ CountSyn \/ Cut \/ Finish
  BY <1>1, <1>2, <1>3 DEF DialConnInfo, CountSyn, Cut, Finish
<1>4. CASE OpenConnection
  BY <1>1, <1>2, <1>4 DEF OpenConnection, Known
<1>5. CASE Branch
  <2>1. build \in {"user", "plain", "passive", "active"}
    BY BuildAssumption DEF DialTypeOK
  <2>2. stage = "cut" /\ stage' = "sending" /\ UNCHANGED kernel
    BY <1>5 DEF Branch
  <2>3. build = "user" => program' \in Seq(Sound)
    <3>1. SUFFICES ASSUME build = "user" PROVE program' \in Seq(Sound)
      OBVIOUS
    <3>2. program' = UserProgram
      BY <1>5, <3>1 DEF Branch
    <3> QED
      BY <1>1, <2>2, <3>1, <3>2, UserProgramSound
  <2>4. build = "plain" => program' \in Seq(Sound)
    <3>1. SUFFICES ASSUME build = "plain" PROVE program' \in Seq(Sound)
      OBVIOUS
    <3>2. program' = PlainProgram
      BY <1>5, <3>1 DEF Branch
    <3> QED
      BY <1>1, <2>2, <3>1, <3>2, PlainProgramSound
  <2>5. build = "passive" => program' \in Seq(Sound)
    <3>1. SUFFICES ASSUME build = "passive" PROVE program' \in Seq(Sound)
      OBVIOUS
    <3>2. program' = PassiveProgram
      BY <1>5, <3>1 DEF Branch
    <3> QED
      BY <1>1, <2>2, <3>1, <3>2, PassiveProgramSound
  <2>6. build = "active" => program' \in Seq(Sound)
    <3>1. SUFFICES ASSUME build = "active" PROVE program' \in Seq(Sound)
      OBVIOUS
    <3>2. program' = ActiveProgram
      BY <1>5, <3>1 DEF Branch
    <3> QED
      BY <1>1, <2>2, <3>1, <3>2, ActiveProgramSound
  <2> QED
    BY <1>1, <1>2, <2>1, <2>2, <2>3, <2>4, <2>5, <2>6
<1>6. CASE Panic
  <2>1. Top \in Sound
    BY <1>1, <1>6, TopIs DEF Panic, Sending
  <2>2. Ordered(Top)
    BY <2>1 DEF Sound, Sends
  <2> QED
    BY <1>6, <2>2 DEF Panic, Sending, Ordered, InBounds
<1>13. CASE Skip
  <2>1. program # << >> /\ program' = Tail(program) /\ UNCHANGED <<stage, kernel>>
    BY <1>13 DEF Skip, Drop, Sending
  <2> QED
    BY <1>1, <1>2, <2>1, TopIs
<1>14. CASE FirstUrgentLost
  <2>1. program # << >> /\ program' = Tail(program) /\ UNCHANGED stage
    BY <1>14 DEF FirstUrgentLost, Drop, Sending
  <2>2. Top.oob \in Seq(Cell) /\ Len(Top.oob) = 2 /\ kernel' = Append(kernel, Top.oob[2])
    BY <1>1, <1>14, <2>1, TopIs DEF FirstUrgentLost
  <2>3. kernel' \in Seq(Cell)
    BY <1>2, <2>2
  <2> QED
    BY <1>1, <1>2, <2>1, <2>3, TopIs
<1>7. CASE SendDecoy \/ SendRaw \/ AddLen \/ SetTTL \/ CopyPages
  <2>1. program # << >> /\ program' = Tail(program) /\ UNCHANGED <<stage, kernel>>
    BY <1>7 DEF SendDecoy, SendRaw, AddLen, SetTTL, CopyPages, Drop, Sending
  <2> QED
    BY <1>1, <1>2, <2>1, TopIs
<1>11. CASE Send \/ Splice
  <2>1. program # << >> /\ program' = Tail(program) /\ UNCHANGED stage
    BY <1>11 DEF Send, Splice, Drop, Sending
  <2>2. kernel' \in Seq(Cell)
    BY <1>1, <1>2, <1>11, <2>1, SendGrows
  <2> QED
    BY <1>1, <1>2, <2>1, <2>2, TopIs
<1>8. CASE Fail
  <2>1. program # << >> /\ stage' # "panic" /\ program' \in {Top.fallback, << >>}
    BY <1>2, <1>8 DEF Fail, Sending
  <2>2. << >> \in Seq(Sound) /\ Top.fallback \in Seq(Sound)
    BY <1>1, <2>1, TopIs
  <2> QED
    BY <1>1, <1>2, <1>8, <2>1, <2>2 DEF Fail
<1>9. CASE DoHandshake
  <2>1. program # << >> /\ program' = Tail(program)
    BY <1>9 DEF DoHandshake, Drop, Sending
  <2>2. stage' # "panic"
    BY <1>1, <1>2, <1>9 DEF DoHandshake, Known
  <2>3. kernel' \in Seq(Cell)
    BY <1>2, <1>9, HandshakeGrows DEF DoHandshake
  <2> QED
    BY <1>1, <2>1, <2>2, <2>3, TopIs
<1>10. CASE Retransmit \/ UrgentRead \/ UNCHANGED dialVars
  BY <1>1, <1>2, <1>10 DEF Retransmit, UrgentRead, dialVars
<1>12. CASE Keep
  <2>1. kernel' \in Seq(Cell)
    BY <1>2, <1>12, KeepGrows
  <2> QED
    BY <1>1, <1>2, <1>12, <2>1 DEF Keep
<1> QED
  BY <1>3, <1>4, <1>5, <1>6, <1>7, <1>8, <1>9, <1>10, <1>11, <1>12, <1>13, <1>14
  DEF DialNext

LEMMA NextDialTypeOK ==
  ASSUME DialTypeOK, [DialNext]_dialVars
  PROVE  DialTypeOK'
<1>1. UNCHANGED chosen
  BY DEF DialNext, DialConnInfo, CountSyn, OpenConnection, Cut, Branch, Panic, Send, Skip, FirstUrgentLost, Fail, DoHandshake,
         SendDecoy, SendRaw, AddLen, SetTTL, Splice, CopyPages, Retransmit, UrgentRead, Finish, Keep, Drop, dialVars
<1>2. /\ build' \in Builds /\ system' \in Systems /\ Possible' /\ Protocol' \in Protocols
      /\ offset' \in 0 .. L /\ length' \in 0 .. L /\ offset' + length' <= L /\ (offset' = 0 <=> length' = 0)
  BY <1>1 DEF DialTypeOK, chosen, Possible
<1>3. cut' \in 0 .. L /\ (stage' = "cut" => cut' \in Cuts')
  <2>1. CASE Cut
    <3>1. offset \in 0 .. L /\ length \in 0 .. L /\ offset + length <= L
      BY DEF DialTypeOK
    <3>2. Cuts \subseteq 0 .. L
      BY <3>1, LengthAssumption DEF Cuts
    <3>3. Cuts' = Cuts
      BY <1>1 DEF Cuts, chosen, Has
    <3> QED
      BY <2>1, <3>2, <3>3 DEF Cut
  <2>2. CASE ~Cut
    <3>1. UNCHANGED cut /\ (stage' = "cut" => stage = "cut")
      BY <2>2 DEF DialNext, DialConnInfo, CountSyn, OpenConnection, Branch, Panic, Send, Skip, FirstUrgentLost, Fail, DoHandshake,
           SendDecoy, SendRaw, AddLen, SetTTL, Splice, CopyPages, Retransmit, UrgentRead, Finish, Keep, Drop,
           Sending, dialVars
    <3>2. Cuts' = Cuts
      BY <1>1 DEF Cuts, chosen, Has
    <3> QED
      BY <3>1, <3>2 DEF DialTypeOK
  <2> QED
    BY <2>1, <2>2
<1>4. seq' \in Int
  <2>1. seq \in Int /\ cut \in Int /\ L \in Int
    BY LengthAssumption DEF DialTypeOK
  <2>2. CASE DialConnInfo \/ CountSyn \/ AddLen \/ SendRaw \/ Keep
    BY <2>1, <2>2 DEF DialConnInfo, CountSyn, AddLen, SendRaw, Keep
  <2>3. CASE DoHandshake
    BY <2>1, <2>3, HandshakeIs DEF DoHandshake
  <2>4. CASE ~(DialConnInfo \/ CountSyn \/ AddLen \/ SendRaw \/ Keep \/ DoHandshake)
    BY <2>1, <2>4 DEF DialNext, OpenConnection, Cut, Branch, Panic, Send, Skip, FirstUrgentLost, Fail,
           SendDecoy, SetTTL, Splice, CopyPages, Retransmit, UrgentRead, Finish, dialVars
  <2> QED
    BY <2>2, <2>3, <2>4
<1>5. kept' \in Nat
  <2>1. CASE Keep
    BY <2>1 DEF Keep, DialTypeOK
  <2>2. CASE ~Keep
    <3>1. UNCHANGED kept
      BY <2>2 DEF DialNext, DialConnInfo, CountSyn, OpenConnection, Cut, Branch, Panic, Send, Skip, FirstUrgentLost, Fail, DoHandshake,
           SendDecoy, SendRaw, AddLen, SetTTL, Splice, CopyPages, Retransmit, UrgentRead, Finish, Drop, dialVars
    <3> QED
      BY <3>1 DEF DialTypeOK
  <2> QED
    BY <2>1, <2>2
<1> QED
  BY <1>2, <1>3, <1>4, <1>5 DEF DialTypeOK

\* A send that takes its place in the number and the kernel.
LEMMA InStepKept ==
  ASSUME DialTypeOK, PanicFree, ~Known, InStep, program # << >>,
         program' = Tail(program), UNCHANGED <<cut, Hint>>,
         NEW n \in Int, seq' = seq + n, kernel' \in Seq(Cell),
         Len(kernel') = Len(kernel) + (n + Gain(Top, cut, Has("REVERSE")))
  PROVE  InStep'
<1> DEFINE gain == Gain(Top, cut, Has("REVERSE"))
<1>1. program \in Seq(Sound) /\ Top \in Sound /\ kernel \in Seq(Cell)
  BY TopIs DEF PanicFree
<1>2. cut \in Int /\ seq \in Int /\ Len(kernel) \in Int /\ Len(kernel') \in Int
  BY <1>1 DEF DialTypeOK
<1>3. gain \in Int
  BY <1>1, <1>2, GainIsInt, HasIsBoolean
<1>4. Gains(Tail(program), (seq - Len(kernel)) - gain, cut, Has("REVERSE"))
  BY <1>1, <1>2, TailGained, HasIsBoolean DEF InStep, Top
<1>5. (seq - Len(kernel)) - gain = seq' - Len(kernel')
  BY <1>2, <1>3
<1>6. \A i \in 1 .. Len(Tail(program)) : Certain(Tail(program)[i])
  BY <1>1 DEF InStep
<1>7. Gains(program', seq' - Len(kernel'), cut', Has("REVERSE")')
  BY <1>4, <1>5 DEF Has
<1> QED
  BY <1>6, <1>7 DEF InStep

LEMMA NextSeqInv ==
  ASSUME DialIInv, [DialNext]_dialVars
  PROVE  SeqInv'
<1> SUFFICES ASSUME build' = "active", SeqKnown'
             PROVE  /\ stage' \in {"start", "connected", "cut"} => seq' = 0 /\ kernel' = << >>
                    /\ stage' = "syn" => seq' = -1 /\ kernel' = << >>
                    /\ stage' = "sending" => InStep'
                    /\ stage' = "done" => Len(kernel') = seq'
  BY DEF SeqInv
<1>0. UNCHANGED chosen
  BY DEF DialNext, DialConnInfo, CountSyn, OpenConnection, Cut, Branch, Panic, Send, Skip, FirstUrgentLost, Fail, DoHandshake,
         SendDecoy, SendRaw, AddLen, SetTTL, Splice, CopyPages, Retransmit, UrgentRead, Finish, Keep, Drop, dialVars
<1>1. build = "active" /\ SeqKnown /\ DialTypeOK /\ PanicFree /\ UNCHANGED Hint
  BY <1>0 DEF chosen, SeqKnown, DialIInv
<1>2. ~Known
  BY <1>1 DEF Known, SeqKnown, DialTypeOK, Possible, Has, NotTCP
<1>3. /\ stage \in {"start", "connected", "cut"} => seq = 0 /\ kernel = << >>
      /\ stage = "syn" => seq = -1 /\ kernel = << >>
      /\ stage = "sending" => InStep
      /\ stage = "done" => Len(kernel) = seq
  BY <1>1 DEF DialIInv, SeqInv
<1>4. kernel \in Seq(Cell) /\ Len(kernel) \in Nat /\ program \in Seq(Sound) /\ seq \in Int /\ cut \in Int /\ L \in Int
  BY <1>1, <1>2, LengthAssumption DEF PanicFree, DialTypeOK
<1>5. CASE DialConnInfo \/ CountSyn \/ OpenConnection \/ Cut \/ Panic
  BY <1>1, <1>3, <1>5 DEF DialConnInfo, CountSyn, OpenConnection, Cut, Panic
<1>6. CASE Branch
  <2>1. Protocol # "HTTPS" /\ program' = ActiveProgram
    BY <1>1, <1>6 DEF Branch, SeqKnown
  <2>2. Adds(ActiveProgram, 0)
    BY <1>1, <2>1, ActiveProgramAdds
  <2>3. seq' = 0 /\ kernel' = << >> /\ UNCHANGED cut /\ stage' = "sending"
    BY <1>3, <1>6 DEF Branch
  <2>4. seq' - Len(kernel') = 0
    <3>1. Len(kernel') = 0
      BY <2>3
    <3>2. seq' = 0
      BY <2>3
    <3> QED
      BY <3>1, <3>2
  <2>5. Gains(program', seq' - Len(kernel'), cut', Has("REVERSE")')
    BY <1>1, <2>1, <2>2, <2>3, <2>4 DEF Adds, Has
  <2> QED
    BY <2>1, <2>2, <2>3, <2>5 DEF InStep, Adds
<1>7. CASE Send \/ Splice
  <2>1. /\ program # << >> /\ program' = Tail(program) /\ stage = "sending"
        /\ UNCHANGED <<cut, Hint, seq, stage>>
    BY <1>1, <1>7 DEF Send, Splice, Drop, Sending
  <2>2. kernel' \in Seq(Cell) /\ Len(kernel') = Len(kernel) + Gain(Top, cut, Has("REVERSE"))
    BY <1>1, <1>2, <1>7, SendGrows
  <2>3. Gain(Top, cut, Has("REVERSE")) \in Int
    BY <1>1, <1>2, <1>4, <2>1, TopIs, GainIsInt, HasIsBoolean
  <2>4. seq' = seq + 0 /\ Len(kernel') = Len(kernel) + (0 + Gain(Top, cut, Has("REVERSE")))
    BY <1>4, <2>1, <2>2, <2>3
  <2>5. InStep'
    BY <1>1, <1>2, <1>3, <2>1, <2>2, <2>4, InStepKept
  <2> QED
    BY <2>1, <2>5
<1>8. CASE SendDecoy \/ SetTTL \/ CopyPages
  <2>1. /\ program # << >> /\ program' = Tail(program) /\ stage = "sending"
        /\ Top.op \in {"decoy", "lowTTL", "setTTL", "copy"}
        /\ UNCHANGED <<cut, Hint, seq, stage, kernel>>
    BY <1>1, <1>8 DEF SendDecoy, SetTTL, CopyPages, Drop, Sending
  <2>2. Gain(Top, cut, Has("REVERSE")) = 0
    BY <2>1 DEF Gain
  <2>3. seq' = seq + 0 /\ Len(kernel') = Len(kernel) + (0 + Gain(Top, cut, Has("REVERSE")))
    BY <1>4, <2>1, <2>2
  <2>4. InStep'
    BY <1>1, <1>2, <1>3, <1>4, <2>1, <2>3, InStepKept
  <2> QED
    BY <2>1, <2>4
<1>9. CASE SendRaw
  <2>1. /\ program # << >> /\ program' = Tail(program) /\ stage = "sending"
        /\ Top.op = "raw" /\ seq' = seq + cut
        /\ UNCHANGED <<cut, Hint, stage, kernel>>
    BY <1>1, <1>9 DEF SendRaw, Drop, Sending
  <2>2. Gain(Top, cut, Has("REVERSE")) = -cut
    BY <2>1 DEF Gain
  <2>3. Len(kernel') = Len(kernel) + (cut + Gain(Top, cut, Has("REVERSE")))
    BY <1>4, <2>1, <2>2
  <2>4. InStep'
    BY <1>1, <1>2, <1>3, <1>4, <2>1, <2>3, InStepKept
  <2> QED
    BY <2>1, <2>4
<1>10. CASE AddLen
  <2> DEFINE n == IF Has("REVERSE") THEN L - cut ELSE L
  <2>1. /\ program # << >> /\ program' = Tail(program) /\ stage = "sending"
        /\ Top.op = "addLen" /\ seq' = seq + n
        /\ UNCHANGED <<cut, Hint, stage, kernel>>
    BY <1>1, <1>10 DEF AddLen, Drop, Sending
  <2>2. Gain(Top, cut, Has("REVERSE")) = -n /\ n \in Int
    BY <1>4, <2>1 DEF Gain
  <2> HIDE DEF n
  <2>3. Len(kernel') = Len(kernel) + (n + Gain(Top, cut, Has("REVERSE")))
    BY <1>4, <2>1, <2>2
  <2>4. InStep'
    BY <1>1, <1>2, <1>3, <1>4, <2>1, <2>2, <2>3, InStepKept
  <2> QED
    BY <2>1, <2>4
<1>11. CASE DoHandshake
  <2>1. CASE stage' # "sending"
    BY <1>11, <2>1 DEF DoHandshake, Sending
  <2>2. CASE stage' = "sending"
    <3> DEFINE n == Handshake.proxy_seq
    <3>1. /\ program # << >> /\ program' = Tail(program) /\ stage = "sending"
          /\ Top.op = "handshake" /\ seq' = seq + n
          /\ kernel' = kernel \o Cells("h", 0, Handshake.sent)
          /\ UNCHANGED <<cut, Hint, stage>>
      BY <1>1, <1>11, <2>2 DEF DoHandshake, Drop, Sending
    <3>2. Handshake.sent = n /\ n \in Nat
      BY <1>1, HandshakeIs
    <3>3. kernel' \in Seq(Cell) /\ Len(kernel') = Len(kernel) + Handshake.sent
      BY <1>1, <1>4, <3>1, HandshakeGrows
    <3>4. Gain(Top, cut, Has("REVERSE")) = 0
      BY <3>1 DEF Gain
    <3>5. Len(kernel') = Len(kernel) + (n + Gain(Top, cut, Has("REVERSE"))) /\ n \in Int
      BY <3>2, <3>3, <3>4
    <3> HIDE DEF n
    <3>6. InStep'
      BY <1>1, <1>2, <1>3, <3>1, <3>3, <3>5, InStepKept
    <3> QED
      BY <3>1, <3>6
  <2> QED
    BY <2>1, <2>2
<1>12. CASE Fail
  <2>1. stage = "sending" /\ program # << >>
    BY <1>12 DEF Fail, Sending
  <2>2. ~Top.lossy
    BY <1>3, <1>4, <2>1 DEF InStep, Top, Certain
  <2> QED
    BY <1>12, <2>2 DEF Fail
<1>16. CASE Skip \/ FirstUrgentLost
  <2>1. stage = "sending" /\ program # << >> /\ Top.op \in SystemOps
    BY <1>16 DEF Skip, FirstUrgentLost, Sending, SystemOps
  <2>2. Top.op \notin SystemOps
    BY <1>3, <1>4, <2>1 DEF InStep, Top, Certain
  <2> QED
    BY <2>1, <2>2
<1>13. CASE Retransmit \/ UrgentRead \/ UNCHANGED dialVars
  <2>1. UNCHANGED <<stage, seq, kernel, program, cut, Hint>>
    BY <1>1, <1>13 DEF Retransmit, UrgentRead, dialVars
  <2>2. InStep => InStep'
    BY <2>1 DEF InStep, Has
  <2> QED
    BY <1>3, <2>1, <2>2
<1>14. CASE Finish
  <2>1. stage = "sending" /\ program = << >> /\ stage' = "done" /\ UNCHANGED <<kernel, seq>>
    BY <1>14 DEF Finish
  <2>2. seq - Len(kernel) = 0
    BY <1>3, <2>1, NoneGained DEF InStep
  <2> QED
    BY <1>4, <2>1, <2>2
<1>15. CASE Keep
  <2>1. Len(kernel') = Len(kernel) + 1 /\ seq' = seq + 1 /\ stage = "done" /\ stage' = "done"
    BY <1>1, <1>4, <1>15, KeepGrows DEF Keep
  <2> QED
    BY <1>3, <1>4, <2>1
<1> QED
  BY <1>5, <1>6, <1>7, <1>8, <1>9, <1>10, <1>11, <1>12, <1>13, <1>14, <1>15, <1>16 DEF DialNext

LEMMA DialNextIInv == DialIInv /\ [DialNext]_dialVars => DialIInv'
BY NextDialTypeOK, NextPanicFree, NextSeqInv DEF DialIInv

\* The number of the decoys is that of the next byte of the stream, for a header
\* of any length, wherever its name is (dial, Keep).
THEOREM SeqIsTrue == DialSpec => []SeqTrue
<1>1. DialIInv => SeqTrue
  BY DEF DialIInv, SeqInv, SeqTrue
<1> QED
  BY DialInitIInv, DialNextIInv, <1>1, PTL DEF DialSpec

\* No mixture of hints ends the program but the four that are known, for a header
\* of any length, wherever its name is (dial).
THEOREM OnlyKnownPanics == DialSpec => []PanicOnlyKnown
<1>1. DialIInv => PanicOnlyKnown
  BY DEF DialIInv, PanicFree, PanicOnlyKnown, Known
<1> QED
  BY DialInitIInv, DialNextIInv, <1>1, PTL DEF DialSpec

-----------------------------------------------------------------------------
(* What the server reads.  Env is what of a dial its sends depend on, Now   *)
(* what they change.  The invariant of a dial that sends is that what is    *)
(* left of its program leads, as long as nothing goes wrong, to a stream    *)
(* that reads as it should (Reaches), and that on the way there the pages   *)
(* of SendWithFakePayload never arrive as the decoy (Safe); or that it ends *)
(* the program (Doomed).  It is true of every program when it is chosen     *)
(* (BranchLeads), and a send leaves it true of the rest.                    *)

Env == [cut |-> cut, reverse |-> Has("REVERSE"), notTCP |-> NotTCP, sent |-> Handshake.sent,
        proxy |-> IF build = "active" THEN Handshake.proxy_seq ELSE 0]

Now == [k |-> kernel, u |-> urgent, raw |-> raw, seq |-> seq, ttl |-> ttl, pages |-> pages,
        spliced |-> spliced]

KernelAfter(o, s, e) ==
  CASE o.op = "handshake" -> s.k \o Cells("h", 0, e.sent)
    [] o.op \in {"write", "option"} -> s.k \o Cells("b", o.from, o.to) \o o.oob
    [] o.op = "fake" -> s.k \o Cells("f", o.from, o.to) \o o.oob
    [] o.op = "splice" -> s.k \o Cells("b", o.from, o.to)
    [] OTHER -> s.k

UrgentAfter(o, s, e) ==
  IF o.op \in {"write", "option", "fake"}
  THEN s.u \cup {Len(KernelAfter(o, s, e)) - i : i \in 0 .. Len(o.oob) - 1}
  ELSE s.u

RawAfter(o, s, e) ==
  IF o.op = "raw" THEN {<<s.seq + i, B(i)>> : i \in {j \in e.cut .. L - 1 : s.seq + j >= Len(s.k)}}
  ELSE s.raw

SeqAfter(o, s, e) ==
  CASE o.op = "handshake" -> s.seq + e.proxy
    [] o.op = "raw" -> s.seq + e.cut
    [] o.op = "addLen" -> s.seq + (IF e.reverse THEN L - e.cut ELSE L)
    [] OTHER -> s.seq

\* A send that does not fail, whose decoy is not taken and whose raw segment arrives.
After(o, s, e) ==
  [k |-> KernelAfter(o, s, e), u |-> UrgentAfter(o, s, e), raw |-> RawAfter(o, s, e),
   seq |-> SeqAfter(o, s, e),
   ttl |-> IF o.op = "lowTTL" THEN "low" ELSE IF o.op = "setTTL" THEN "default" ELSE s.ttl,
   pages |-> IF o.op = "copy" THEN "real" ELSE s.pages,
   spliced |-> IF o.op = "splice" THEN Len(s.k) + 1 .. Len(KernelAfter(o, s, e)) ELSE s.spliced]

\* The pages cannot arrive as a decoy.
Safe(s) == s.spliced # {} /\ s.ttl = "default" => s.pages = "real"

\* The sends of p lead from s to t: w is what there is after each.
Runs(p, s, t, e) ==
  \E S, w : /\ p \in Seq(S)
            /\ w[0] = s /\ w[Len(p)] = t
            /\ \A i \in 0 .. Len(p) : Safe(w[i])
            /\ \A i \in 1 .. Len(p) : w[i] = After(p[i], w[i - 1], e)

\* The handshake of n bytes, and x of the header.
Target(i, n) == IF i <= n THEN <<"h", i - 1>> ELSE <<"b", i - n - 1>>

Whole(k, x, n) ==
  /\ k \in Seq(Cell) /\ Len(k) = n + x
  /\ \A i \in 1 .. n + x : k[i] = Target(i, n)

\* The same, with a byte to be dropped after z of the header.
Padded(k, z, x, n) ==
  /\ k \in Seq(Cell) /\ Len(k) = n + x + 1
  /\ \A i \in 1 .. n + z : k[i] = Target(i, n)
  /\ \A i \in n + z + 1 .. n + x : k[i + 1] = Target(i, n)

\* The same, but only up to c, and more behind it.
Begins(k, c, n) ==
  /\ k \in Seq(Cell) /\ Len(k) = n + L
  /\ \A i \in 1 .. n + c : k[i] = Target(i, n)

\* What there is where no byte is urgent, and r came first; where some bytes are, but
\* none is to be dropped; and where the last one is.
Laid(s, x, r, e) == Whole(s.k, x, e.sent) /\ s.u = {} /\ s.raw = r /\ Safe(s)
Marked(s, x, e) == Whole(s.k, x, e.sent) /\ s.u \subseteq 1 .. e.sent + x /\ s.raw = {} /\ Safe(s)
Dropping(s, z, x, e) ==
  /\ Padded(s.k, z, x, e.sent)
  /\ e.sent + z + 1 \in s.u /\ s.u \subseteq 1 .. e.sent + z + 1
  /\ s.raw = {} /\ Safe(s)

\* The raw segment that came first.
Segment(e) == {<<e.sent + i, B(i)>> : i \in e.cut .. L - 1}

Reads(s, e) ==
  \/ Laid(s, L, {}, e)
  \/ \E z \in 0 .. L : Dropping(s, z, L, e)
  \/ Begins(s.k, e.cut, e.sent) /\ s.u = {} /\ s.raw = Segment(e)

\* A send that ends the program (Panic).
Stops(o, e) ==
  /\ o.op \in {"write", "option", "fake", "splice"}
  /\ ~(o.from <= o.to /\ o.to <= L) \/ (o.op = "option" /\ e.notTCP)

Doomed(p, e) == \E S : p \in Seq(S) /\ \E i \in 1 .. Len(p) : Stops(p[i], e)

Reaches(p, s, e) == \E t : Runs(p, s, t, e) /\ Reads(t, e)

Leads(p, s, e) == Doomed(p, e) \/ Reaches(p, s, e)

Fresh(s) ==
  s = [k |-> << >>, u |-> {}, raw |-> {}, seq |-> 0, ttl |-> "default", pages |-> "fake", spliced |-> {}]

Untouched ==
  /\ kernel = << >> /\ urgent = {} /\ raw = {}
  /\ ttl = "default" /\ pages = "fake" /\ spliced = {} /\ arrived = "none"
  /\ seq = IF stage = "syn" THEN -1 ELSE 0

StreamInv ==
  mishap = {} /\ ~MissesProxy /\ (SeqKnown \/ ~Has("REVERSE")) =>
    /\ stage \in {"start", "syn", "connected", "cut"} => Untouched
    /\ stage = "sending" => Doomed(program, Env) \/ (arrived # "fake" /\ Reaches(program, Now, Env))
    /\ stage = "done" => arrived # "fake" /\ Safe(Now)
    /\ stage = "done" /\ kept = 0 => Reads(Now, Env)

-----------------------------------------------------------------------------
(* Sends one after the other.                                               *)

LEMMA RunsNothing ==
  ASSUME NEW s, NEW e
  PROVE  /\ Safe(s) => Runs(<< >>, s, s, e)
         /\ \A t : Runs(<< >>, s, t, e) => t = s
<1>1. ASSUME Safe(s) PROVE Runs(<< >>, s, s, e)
  <2> DEFINE w == [i \in {0} |-> s]
  <2>1. << >> \in Seq({}) /\ Len(<< >>) = 0 /\ 0 .. 0 = {0} /\ 1 .. 0 = {}
    OBVIOUS
  <2>2. w[0] = s
    OBVIOUS
  <2> HIDE DEF w
  <2>3. /\ << >> \in Seq({}) /\ w[0] = s /\ w[Len(<< >>)] = s
        /\ \A i \in 0 .. Len(<< >>) : Safe(w[i])
        /\ \A i \in 1 .. Len(<< >>) : w[i] = After(<< >>[i], w[i - 1], e)
    BY <1>1, <2>1, <2>2
  <2> QED BY <2>3 DEF Runs
<1>2. \A t : Runs(<< >>, s, t, e) => t = s
  BY DEF Runs
<1> QED BY <1>1, <1>2

LEMMA RunsOne ==
  ASSUME NEW s, NEW e, NEW o, Safe(s), Safe(After(o, s, e))
  PROVE  Runs(<<o>>, s, After(o, s, e), e)
<1> DEFINE t == After(o, s, e)
           w == [i \in 0 .. 1 |-> IF i = 0 THEN s ELSE t]
           p == <<o>>
<1>1. p \in Seq({o}) /\ Len(p) = 1 /\ p[1] = o
  OBVIOUS
<1>2. w[0] = s /\ w[1] = t
  OBVIOUS
<1>3. 0 .. 1 = {0, 1} /\ 1 .. 1 = {1} /\ 1 - 1 = 0
  OBVIOUS
<1> HIDE DEF w, p
<1>4. \A i \in 0 .. Len(p) : Safe(w[i])
  BY <1>1, <1>2, <1>3
<1> HIDE DEF t
<1>5. \A i \in 1 .. Len(p) : w[i] = After(p[i], w[i - 1], e)
  BY <1>1, <1>2, <1>3 DEF t
<1>6. Runs(p, s, t, e)
  BY <1>1, <1>2, <1>4, <1>5 DEF Runs
<1> QED BY <1>6 DEF p, t

LEMMA RunsTail ==
  ASSUME NEW p, NEW s, NEW t, NEW e, p # << >>, Runs(p, s, t, e)
  PROVE  Safe(s) /\ Safe(After(p[1], s, e)) /\ Runs(Tail(p), After(p[1], s, e), t, e)
<1>1. PICK S, w : /\ p \in Seq(S)
                  /\ w[0] = s /\ w[Len(p)] = t
                  /\ \A i \in 0 .. Len(p) : Safe(w[i])
                  /\ \A i \in 1 .. Len(p) : w[i] = After(p[i], w[i - 1], e)
  BY DEF Runs
<1> DEFINE q == Tail(p)
           v == [i \in 0 .. Len(p) - 1 |-> w[i + 1]]
<1>2. /\ q \in Seq(S) /\ Len(p) \in Nat /\ Len(p) >= 1 /\ Len(q) = Len(p) - 1
      /\ \A i \in 1 .. Len(q) : q[i] = p[i + 1]
  BY <1>1
<1>3. \A i \in 0 .. Len(p) - 1 : v[i] = w[i + 1]
  OBVIOUS
<1> HIDE DEF v, q
<1>4. Safe(s) /\ w[1] = After(p[1], s, e) /\ Safe(w[1])
  <2>1. 0 \in 0 .. Len(p) /\ 1 \in 0 .. Len(p) /\ 1 \in 1 .. Len(p) /\ 1 - 1 = 0
    BY <1>2
  <2>2. w[1] = After(p[1], w[1 - 1], e) /\ Safe(w[0]) /\ Safe(w[1])
    BY <1>1, <2>1
  <2> QED BY <1>1, <2>1, <2>2
<1>5. v[0] = After(p[1], s, e) /\ v[Len(q)] = t
  <2>1. 0 \in 0 .. Len(p) - 1 /\ Len(p) - 1 \in 0 .. Len(p) - 1 /\ (Len(p) - 1) + 1 = Len(p) /\ 0 + 1 = 1
    BY <1>2
  <2>2. v[0] = w[0 + 1] /\ v[Len(p) - 1] = w[(Len(p) - 1) + 1]
    BY <1>3, <2>1
  <2> QED BY <1>1, <1>2, <1>4, <2>1, <2>2
<1>6. \A i \in 0 .. Len(q) : Safe(v[i])
  <2> TAKE i \in 0 .. Len(q)
  <2>1. i \in 0 .. Len(p) - 1 /\ i + 1 \in 0 .. Len(p)
    BY <1>2
  <2> QED BY <1>1, <1>3, <2>1
<1>7. \A i \in 1 .. Len(q) : v[i] = After(q[i], v[i - 1], e)
  <2> TAKE i \in 1 .. Len(q)
  <2>1. i \in 0 .. Len(p) - 1 /\ i - 1 \in 0 .. Len(p) - 1 /\ (i - 1) + 1 = i /\ (i + 1) - 1 = i /\ i + 1 \in 1 .. Len(p)
    BY <1>2
  <2>2. v[i] = w[i + 1] /\ v[i - 1] = w[(i - 1) + 1] /\ q[i] = p[i + 1]
    BY <1>2, <1>3, <2>1
  <2>3. w[i + 1] = After(p[i + 1], w[(i + 1) - 1], e)
    BY <1>1, <2>1
  <2> QED BY <2>1, <2>2, <2>3
<1>8. Runs(q, After(p[1], s, e), t, e)
  BY <1>2, <1>5, <1>6, <1>7 DEF Runs
<1> QED BY <1>4, <1>8 DEF q

LEMMA RunsJoined ==
  ASSUME NEW p, NEW q, NEW s, NEW t, NEW r, NEW e, Runs(p, s, t, e), Runs(q, t, r, e)
  PROVE  Runs(p \o q, s, r, e)
<1>1. PICK S, v : /\ p \in Seq(S)
                  /\ v[0] = s /\ v[Len(p)] = t
                  /\ \A i \in 0 .. Len(p) : Safe(v[i])
                  /\ \A i \in 1 .. Len(p) : v[i] = After(p[i], v[i - 1], e)
  BY DEF Runs
<1>2. PICK T, w : /\ q \in Seq(T)
                  /\ w[0] = t /\ w[Len(q)] = r
                  /\ \A i \in 0 .. Len(q) : Safe(w[i])
                  /\ \A i \in 1 .. Len(q) : w[i] = After(q[i], w[i - 1], e)
  BY DEF Runs
<1> DEFINE pq == p \o q
           m == Len(p)
           n == Len(q)
           all == [i \in 0 .. m + n |-> IF i <= m THEN v[i] ELSE w[i - m]]
           U == S \cup T
<1>3. p \in Seq(U) /\ q \in Seq(U)
  BY <1>1, <1>2
<1>4. m \in Nat /\ n \in Nat /\ pq \in Seq(U) /\ Len(pq) = m + n
  BY <1>3
<1>5. /\ \A i \in 1 .. m : pq[i] = p[i]
      /\ \A i \in m + 1 .. m + n : pq[i] = q[i - m]
  BY <1>3
<1>6. \A i \in 0 .. m + n : all[i] = IF i <= m THEN v[i] ELSE w[i - m]
  OBVIOUS
<1> HIDE DEF all, pq, U
<1>7. all[0] = s /\ all[m + n] = r
  <2>1. all[0] = v[0]
    BY <1>4, <1>6
  <2>2. CASE n = 0
    BY <1>1, <1>2, <1>4, <1>6, <2>1, <2>2
  <2>3. CASE n > 0
    <3>1. all[m + n] = w[(m + n) - m] /\ (m + n) - m = n
      BY <1>4, <1>6, <2>3
    <3> QED BY <1>1, <1>2, <2>1, <3>1
  <2> QED BY <1>4, <2>2, <2>3
<1>8. \A i \in 0 .. Len(pq) : Safe(all[i])
  <2> TAKE i \in 0 .. Len(pq)
  <2>1. CASE i <= m
    BY <1>1, <1>4, <1>6, <2>1
  <2>2. CASE i > m
    <3>1. all[i] = w[i - m] /\ i - m \in 0 .. n
      BY <1>4, <1>6, <2>2
    <3> QED BY <1>2, <3>1
  <2> QED BY <1>4, <2>1, <2>2
<1>9. \A i \in 1 .. Len(pq) : all[i] = After(pq[i], all[i - 1], e)
  <2> TAKE i \in 1 .. Len(pq)
  <2>1. i \in 0 .. m + n /\ i - 1 \in 0 .. m + n /\ i \in 1 .. m + n
    BY <1>4
  <2>2. CASE i <= m
    <3>1. all[i] = v[i] /\ all[i - 1] = v[i - 1] /\ pq[i] = p[i] /\ i \in 1 .. m
      BY <1>4, <1>5, <1>6, <2>1, <2>2
    <3> QED BY <1>1, <3>1
  <2>3. CASE i = m + 1
    <3>0. i - m = 1 /\ i - 1 = m /\ 1 \in 1 .. n /\ ~(i <= m) /\ i - 1 <= m /\ i \in m + 1 .. m + n
      BY <1>4, <2>1, <2>3
    <3>1. all[i] = w[i - m] /\ all[i - 1] = v[i - 1] /\ pq[i] = q[i - m]
      BY <1>5, <1>6, <2>1, <3>0
    <3>2. w[1] = After(q[1], w[1 - 1], e) /\ 1 - 1 = 0
      BY <1>2, <3>0
    <3> QED BY <1>1, <1>2, <3>0, <3>1, <3>2
  <2>4. CASE i > m + 1
    <3>1. all[i] = w[i - m] /\ all[i - 1] = w[(i - m) - 1] /\ pq[i] = q[i - m] /\ i - m \in 1 .. n
      <4>1. ~(i <= m) /\ ~(i - 1 <= m) /\ (i - 1) - m = (i - m) - 1 /\ i - m \in 1 .. n /\ i \in m + 1 .. m + n
        BY <1>4, <2>1, <2>4
      <4> QED BY <1>5, <1>6, <2>1, <4>1
    <3> QED BY <1>2, <3>1
  <2> QED BY <1>4, <2>1, <2>2, <2>3, <2>4
<1>10. Runs(pq, s, r, e)
  BY <1>4, <1>7, <1>8, <1>9 DEF Runs
<1> QED BY <1>10 DEF pq

-----------------------------------------------------------------------------
(* The bytes of the kernel: a handshake, the header as far as it has been   *)
(* sent, and the bytes among it that are to be dropped.                     *)

LEMMA Indexed ==
  ASSUME NEW S, NEW p \in Seq(S), NEW q \in Seq(S)
  PROVE  /\ p \o q \in Seq(S) /\ Len(p \o q) = Len(p) + Len(q)
         /\ \A i \in 1 .. Len(p) : (p \o q)[i] = p[i]
         /\ \A i \in Len(p) + 1 .. Len(p) + Len(q) : (p \o q)[i] = q[i - Len(p)]
OBVIOUS

LEMMA CellAt ==
  ASSUME NEW kind, NEW x \in Nat, NEW y \in Nat
  PROVE  \A i \in 1 .. y - x : Cells(kind, x, y)[i] = <<kind, x + i - 1>>
<1> DEFINE n == y - x
<1>1. \A i \in 1 .. n : [j \in 1 .. n |-> <<kind, x + j - 1>>][i] = <<kind, x + i - 1>>
  OBVIOUS
<1>2. Cells(kind, x, y) = [j \in 1 .. n |-> <<kind, x + j - 1>>]
  BY DEF Cells
<1> HIDE DEF n
<1>3. \A i \in 1 .. n : Cells(kind, x, y)[i] = <<kind, x + i - 1>>
  BY <1>1, <1>2, Zenon
<1> QED BY <1>3 DEF n

LEMMA BytesAt ==
  ASSUME NEW x \in Nat, NEW y \in Nat, x <= y
  PROVE  /\ Cells("b", x, y) \in Seq(Cell) /\ Len(Cells("b", x, y)) = y - x
         /\ \A i \in 1 .. y - x : Cells("b", x, y)[i] = <<"b", x + i - 1>>
<1>1. Cells("b", x, y) \in Seq(Cell) /\ Len(Cells("b", x, y)) = y - x
  BY CellsAre
<1>2. \A i \in 1 .. y - x : Cells("b", x, y)[i] = <<"b", x + i - 1>>
  BY CellAt, Zenon
<1> QED BY <1>1, <1>2

LEMMA WholeNothing == Whole(<< >>, 0, 0)
BY DEF Whole

LEMMA WholeHandshake ==
  ASSUME NEW n \in Nat, NEW k, Whole(k, 0, 0)
  PROVE  Whole(k \o Cells("h", 0, n), 0, n)
<1> DEFINE cells == Cells("h", 0, n)
<1>1. cells \in Seq(Cell) /\ Len(cells) = n /\ \A i \in 1 .. n : cells[i] = <<"h", i - 1>>
  <2>1. 0 <= n /\ n - 0 = n /\ 0 \in Nat /\ \A i \in 1 .. n : 0 + i - 1 = i - 1
    OBVIOUS
  <2>2. cells \in Seq(Cell) /\ Len(cells) = n - 0
    BY <2>1, CellsAre
  <2>3. \A i \in 1 .. n - 0 : cells[i] = <<"h", 0 + i - 1>>
    BY <2>1, CellAt, Zenon
  <2> HIDE DEF cells
  <2> QED BY <2>1, <2>2, <2>3
<1>2. k \in Seq(Cell) /\ Len(k) = 0
  BY DEF Whole
<1> HIDE DEF cells
<1>3. k \o cells \in Seq(Cell) /\ Len(k \o cells) = n /\ \A i \in 1 .. n : (k \o cells)[i] = cells[i]
  BY <1>1, <1>2
<1>4. \A i \in 1 .. n : (k \o cells)[i] = Target(i, n)
  BY <1>1, <1>3 DEF Target
<1>5. Whole(k \o cells, 0, n)
  BY <1>3, <1>4 DEF Whole
<1> QED BY <1>5 DEF cells

LEMMA WholeGrows ==
  ASSUME NEW n \in Nat, NEW x \in Nat, NEW y \in Nat, x <= y, NEW k, Whole(k, x, n)
  PROVE  Whole(k \o Cells("b", x, y), y, n)
<1> DEFINE cells == Cells("b", x, y)
           kc == k \o cells
<1>1. cells \in Seq(Cell) /\ Len(cells) = y - x /\ \A i \in 1 .. y - x : cells[i] = <<"b", x + i - 1>>
  BY BytesAt
<1>2. k \in Seq(Cell) /\ Len(k) = n + x /\ \A i \in 1 .. n + x : k[i] = Target(i, n)
  BY DEF Whole
<1> HIDE DEF cells
<1>3. /\ kc \in Seq(Cell) /\ Len(kc) = n + y
      /\ \A i \in 1 .. n + x : kc[i] = k[i]
      /\ \A i \in n + x + 1 .. n + y : kc[i] = cells[i - (n + x)]
  <2>1. Len(k) + Len(cells) = n + y
    BY <1>1, <1>2
  <2>2. /\ kc \in Seq(Cell) /\ Len(kc) = Len(k) + Len(cells)
        /\ \A i \in 1 .. Len(k) : kc[i] = k[i]
        /\ \A i \in Len(k) + 1 .. Len(k) + Len(cells) : kc[i] = cells[i - Len(k)]
    BY <1>1, <1>2, Indexed
  <2> HIDE DEF kc
  <2> QED BY <1>1, <1>2, <2>1, <2>2
<1> HIDE DEF kc
<1>4. \A i \in 1 .. n + y : kc[i] = Target(i, n)
  <2> TAKE i \in 1 .. n + y
  <2>1. CASE i <= n + x
    <3>1. i \in 1 .. n + x
      BY <2>1
    <3> QED BY <1>2, <1>3, <3>1
  <2>2. CASE i > n + x
    <3>1. i \in n + x + 1 .. n + y /\ i - (n + x) \in 1 .. y - x /\ x + (i - (n + x)) - 1 = i - n - 1 /\ ~(i <= n)
      BY <2>2
    <3>2. kc[i] = <<"b", x + (i - (n + x)) - 1>>
      BY <1>1, <1>3, <3>1
    <3>3. Target(i, n) = <<"b", i - n - 1>>
      BY <3>1 DEF Target
    <3> QED BY <3>1, <3>2, <3>3
  <2> QED BY <2>1, <2>2
<1>5. Whole(kc, y, n)
  BY <1>3, <1>4 DEF Whole
<1> QED BY <1>5 DEF kc, cells

LEMMA WholeByte ==
  ASSUME NEW n \in Nat, NEW x \in Nat, NEW k, Whole(k, x, n)
  PROVE  /\ Whole(k \o <<B(x)>>, x + 1, n)
         /\ Whole(k \o <<B(x), B(x + 1)>>, x + 2, n)
<1>1. <<B(x)>> = Cells("b", x, x + 1)
  BY DEF B, Cells
<1>2. <<B(x), B(x + 1)>> = Cells("b", x, x + 2)
  <2> DEFINE two == <<B(x), B(x + 1)>>
  <2>1. two \in Seq({B(x), B(x + 1)}) /\ Len(two) = 2 /\ two[1] = <<"b", x>> /\ two[2] = <<"b", x + 1>>
    BY DEF B
  <2>2. two = [i \in 1 .. 2 |-> two[i]]
    BY <2>1
  <2>3. \A i \in 1 .. 2 : two[i] = <<"b", x + i - 1>>
    BY <2>1
  <2>4. 1 .. (x + 2) - x = 1 .. 2
    OBVIOUS
  <2> HIDE DEF two
  <2>5. two = [i \in 1 .. (x + 2) - x |-> <<"b", x + i - 1>>]
    BY <2>2, <2>3, <2>4, Zenon
  <2> QED BY <2>5 DEF two, Cells
<1>3. x + 1 \in Nat /\ x + 2 \in Nat /\ x <= x + 1 /\ x <= x + 2
  OBVIOUS
<1>4. Whole(k \o Cells("b", x, x + 1), x + 1, n) /\ Whole(k \o Cells("b", x, x + 2), x + 2, n)
  BY <1>3, WholeGrows
<1> QED BY <1>1, <1>2, <1>4

LEMMA PaddedBegins ==
  ASSUME NEW n \in Nat, NEW x \in Nat, NEW k, Whole(k, x, n)
  PROVE  Padded(k \o <<Zero>>, x, x, n)
<1> DEFINE kz == k \o <<Zero>>
<1>1. k \in Seq(Cell) /\ <<Zero>> \in Seq(Cell) /\ Len(k) = n + x /\ Len(<<Zero>>) = 1
  BY CellsOfOob DEF Whole
<1>2. /\ kz \in Seq(Cell) /\ Len(kz) = n + x + 1
      /\ \A i \in 1 .. n + x : kz[i] = k[i]
  BY <1>1, Indexed
<1>3. n + x + 1 .. n + x = {}
  OBVIOUS
<1> HIDE DEF kz
<1>4. Padded(kz, x, x, n)
  BY <1>2, <1>3 DEF Padded, Whole
<1> QED BY <1>4 DEF kz

LEMMA PaddedByte ==
  ASSUME NEW n \in Nat, NEW x \in Nat, NEW k, Whole(k, x, n)
  PROVE  Padded(k \o <<B(x), Zero>>, x + 1, x + 1, n)
<1>1. Whole(k \o <<B(x)>>, x + 1, n)
  BY WholeByte
<1>2. x + 1 \in Nat
  OBVIOUS
<1>3. Padded((k \o <<B(x)>>) \o <<Zero>>, x + 1, x + 1, n)
  BY <1>1, <1>2, PaddedBegins
<1>4. (k \o <<B(x)>>) \o <<Zero>> = k \o <<B(x), Zero>>
  <2>1. k \in Seq(Cell) /\ B(x) \in Cell /\ Zero \in Cell
    BY CellsOfOob DEF Whole
  <2> QED BY <2>1
<1> QED BY <1>3, <1>4

LEMMA PaddedGrows ==
  ASSUME NEW n \in Nat, NEW z \in Nat, NEW x \in Nat, NEW y \in Nat, z <= x, x <= y, NEW k, Padded(k, z, x, n)
  PROVE  Padded(k \o Cells("b", x, y), z, y, n)
<1> DEFINE cells == Cells("b", x, y)
           kc == k \o cells
<1>1. cells \in Seq(Cell) /\ Len(cells) = y - x /\ \A i \in 1 .. y - x : cells[i] = <<"b", x + i - 1>>
  BY BytesAt
<1>2. /\ k \in Seq(Cell) /\ Len(k) = n + x + 1
      /\ \A i \in 1 .. n + z : k[i] = Target(i, n)
      /\ \A i \in n + z + 1 .. n + x : k[i + 1] = Target(i, n)
  BY DEF Padded
<1> HIDE DEF cells
<1>3. /\ kc \in Seq(Cell) /\ Len(kc) = n + y + 1
      /\ \A i \in 1 .. n + x + 1 : kc[i] = k[i]
      /\ \A i \in n + x + 2 .. n + y + 1 : kc[i] = cells[i - (n + x + 1)]
  <2>1. Len(k) + Len(cells) = n + y + 1 /\ (n + x + 1) + 1 = n + x + 2
    BY <1>1, <1>2
  <2>2. /\ kc \in Seq(Cell) /\ Len(kc) = Len(k) + Len(cells)
        /\ \A i \in 1 .. Len(k) : kc[i] = k[i]
        /\ \A i \in Len(k) + 1 .. Len(k) + Len(cells) : kc[i] = cells[i - Len(k)]
    BY <1>1, <1>2, Indexed
  <2> HIDE DEF kc
  <2> QED BY <1>1, <1>2, <2>1, <2>2
<1> HIDE DEF kc
<1>4. \A i \in 1 .. n + z : kc[i] = Target(i, n)
  <2> TAKE i \in 1 .. n + z
  <2>1. i \in 1 .. n + x + 1
    OBVIOUS
  <2> QED BY <1>2, <1>3, <2>1
<1>5. \A i \in n + z + 1 .. n + y : kc[i + 1] = Target(i, n)
  <2> TAKE i \in n + z + 1 .. n + y
  <2>1. CASE i <= n + x
    <3>1. i \in n + z + 1 .. n + x /\ i + 1 \in 1 .. n + x + 1
      BY <2>1
    <3> QED BY <1>2, <1>3, <3>1
  <2>2. CASE i > n + x
    <3>1. /\ i + 1 \in n + x + 2 .. n + y + 1 /\ (i + 1) - (n + x + 1) \in 1 .. y - x
          /\ x + ((i + 1) - (n + x + 1)) - 1 = i - n - 1 /\ ~(i <= n)
      BY <2>2
    <3>2. kc[i + 1] = <<"b", x + ((i + 1) - (n + x + 1)) - 1>>
      BY <1>1, <1>3, <3>1
    <3>3. Target(i, n) = <<"b", i - n - 1>>
      BY <3>1 DEF Target
    <3> QED BY <3>1, <3>2, <3>3
  <2> QED BY <2>1, <2>2
<1>6. Padded(kc, z, y, n)
  BY <1>3, <1>4, <1>5 DEF Padded
<1> QED BY <1>6 DEF kc, cells

LEMMA BeginsIs ==
  ASSUME NEW n \in Nat, NEW c \in Nat, c <= L, NEW k, Whole(k, c, n)
  PROVE  Begins(k \o Cells("f", c, L), c, n)
<1> DEFINE cells == Cells("f", c, L)
           kc == k \o cells
<1>1. cells \in Seq(Cell) /\ Len(cells) = L - c /\ L \in Nat
  BY CellsAre, LengthAssumption
<1>2. k \in Seq(Cell) /\ Len(k) = n + c /\ \A i \in 1 .. n + c : k[i] = Target(i, n)
  BY DEF Whole
<1> HIDE DEF cells
<1>3. /\ kc \in Seq(Cell) /\ Len(kc) = n + L
      /\ \A i \in 1 .. n + c : kc[i] = k[i]
  <2>1. Len(k) + Len(cells) = n + L
    BY <1>1, <1>2
  <2>2. /\ kc \in Seq(Cell) /\ Len(kc) = Len(k) + Len(cells)
        /\ \A i \in 1 .. Len(k) : kc[i] = k[i]
        /\ \A i \in Len(k) + 1 .. Len(k) + Len(cells) : kc[i] = cells[i - Len(k)]
    BY <1>1, <1>2, Indexed
  <2> HIDE DEF kc
  <2> QED BY <1>1, <1>2, <2>1, <2>2
<1> HIDE DEF kc
<1>4. Begins(kc, c, n)
  BY <1>2, <1>3 DEF Begins
<1> QED BY <1>4 DEF kc, cells

-----------------------------------------------------------------------------
(* What each send does to them.                                             *)

LEMMA AfterIs ==
  ASSUME NEW o, NEW s, NEW e
  PROVE  /\ After(o, s, e).k = KernelAfter(o, s, e)
         /\ After(o, s, e).u = UrgentAfter(o, s, e)
         /\ After(o, s, e).raw = RawAfter(o, s, e)
         /\ After(o, s, e).seq = SeqAfter(o, s, e)
         /\ After(o, s, e).ttl = IF o.op = "lowTTL" THEN "low" ELSE IF o.op = "setTTL" THEN "default" ELSE s.ttl
         /\ After(o, s, e).pages = IF o.op = "copy" THEN "real" ELSE s.pages
         /\ After(o, s, e).spliced =
              IF o.op = "splice" THEN Len(s.k) + 1 .. Len(KernelAfter(o, s, e)) ELSE s.spliced
BY DEF After

\* All but the kernel's bytes is as it was.
Beside(s, t) == t.u = s.u /\ t.raw = s.raw /\ t.seq = s.seq /\ Safe(t)

\* A send of the header, with no byte urgent.
LEMMA WriteAfter ==
  ASSUME NEW o, NEW s, NEW e, s.k \in Seq(Cell), Safe(s), o.op \in {"write", "option", "fake"},
         o.from \in Nat, o.to \in Nat, o.from <= o.to, o.oob = << >>
  PROVE  /\ o.op # "fake" => After(o, s, e).k = s.k \o Cells("b", o.from, o.to)
         /\ o.op = "fake" => After(o, s, e).k = s.k \o Cells("f", o.from, o.to)
         /\ Beside(s, After(o, s, e))
<1>1. /\ Cells("b", o.from, o.to) \in Seq(Cell) /\ Cells("f", o.from, o.to) \in Seq(Cell)
      /\ \A c \in Seq(Cell) : s.k \o c \o << >> = s.k \o c
  <2>1. Cells("b", o.from, o.to) \in Seq(Cell)
    BY CellsAre
  <2>2. Cells("f", o.from, o.to) \in Seq(Cell)
    BY CellsAre
  <2>3. ASSUME NEW c \in Seq(Cell) PROVE s.k \o c \o << >> = s.k \o c
    <3>1. s.k \o c \in Seq(Cell)
      OBVIOUS
    <3> QED BY <3>1
  <2> QED BY <2>1, <2>2, <2>3
<1>2. o.op # "fake" => KernelAfter(o, s, e) = s.k \o Cells("b", o.from, o.to)
  <2> SUFFICES ASSUME o.op # "fake" PROVE KernelAfter(o, s, e) = s.k \o Cells("b", o.from, o.to)
    OBVIOUS
  <2>1. KernelAfter(o, s, e) = s.k \o Cells("b", o.from, o.to) \o << >>
    BY DEF KernelAfter
  <2> QED BY <1>1, <2>1, Zenon
<1>3. o.op = "fake" => KernelAfter(o, s, e) = s.k \o Cells("f", o.from, o.to)
  <2> SUFFICES ASSUME o.op = "fake" PROVE KernelAfter(o, s, e) = s.k \o Cells("f", o.from, o.to)
    OBVIOUS
  <2>1. KernelAfter(o, s, e) = s.k \o Cells("f", o.from, o.to) \o << >>
    BY DEF KernelAfter
  <2> QED BY <1>1, <2>1, Zenon
<1>4. UrgentAfter(o, s, e) = s.u
  <2>1. 0 .. Len(o.oob) - 1 = {}
    <3>1. Len(o.oob) = 0
      OBVIOUS
    <3> QED BY <3>1
  <2> QED BY <2>1 DEF UrgentAfter
<1>5. RawAfter(o, s, e) = s.raw /\ SeqAfter(o, s, e) = s.seq
  BY DEF RawAfter, SeqAfter
<1>6. Safe(After(o, s, e))
  <2>1. After(o, s, e).ttl = s.ttl /\ After(o, s, e).pages = s.pages /\ After(o, s, e).spliced = s.spliced
    BY AfterIs
  <2> QED BY <2>1 DEF Safe
<1>7. /\ After(o, s, e).k = KernelAfter(o, s, e) /\ After(o, s, e).u = UrgentAfter(o, s, e)
      /\ After(o, s, e).raw = RawAfter(o, s, e) /\ After(o, s, e).seq = SeqAfter(o, s, e)
  BY AfterIs
<1> QED BY <1>2, <1>3, <1>4, <1>5, <1>6, <1>7 DEF Beside

LEMMA LaidGrows ==
  ASSUME NEW s, NEW e, e.sent \in Nat, NEW x \in Nat, NEW y \in Nat, x <= y, NEW r, Laid(s, x, r, e),
         NEW o, o.op \in {"write", "option"}, o.from = x, o.to = y, o.oob = << >>
  PROVE  \E t : Runs(<<o>>, s, t, e) /\ Laid(t, y, r, e) /\ t.seq = s.seq
<1> DEFINE t == After(o, s, e)
<1>1. s.k \in Seq(Cell) /\ Safe(s) /\ Whole(s.k, x, e.sent) /\ s.u = {} /\ s.raw = r
  BY DEF Laid, Whole
<1>2. t.k = s.k \o Cells("b", x, y) /\ t.u = s.u /\ t.raw = s.raw /\ t.seq = s.seq /\ Safe(t)
  <2>1. o.op \in {"write", "option", "fake"} /\ o.op # "fake"
    OBVIOUS
  <2>2. o.from \in Nat /\ o.to \in Nat /\ o.from <= o.to
    OBVIOUS
  <2>3. /\ After(o, s, e).k = s.k \o Cells("b", o.from, o.to)
        /\ Beside(s, After(o, s, e))
    BY <1>1, <2>1, <2>2, WriteAfter
  <2> QED BY <2>3 DEF Beside
<1>3. Whole(s.k \o Cells("b", x, y), y, e.sent)
  BY <1>1, WholeGrows
<1>4. Runs(<<o>>, s, t, e)
  BY <1>1, <1>2, RunsOne
<1> HIDE DEF t
<1>5. Laid(t, y, r, e)
  BY <1>1, <1>2, <1>3 DEF Laid
<1> QED BY <1>2, <1>4, <1>5

LEMMA DroppingGrows ==
  ASSUME NEW o, NEW s, NEW e, e.sent \in Nat, NEW z \in Nat, NEW x \in Nat, NEW y \in Nat, z <= x, x <= y,
         o.op \in {"write", "option"}, o.from = x, o.to = y, o.oob = << >>, Dropping(s, z, x, e)
  PROVE  \E t : Runs(<<o>>, s, t, e) /\ Dropping(t, z, y, e)
<1> DEFINE t == After(o, s, e)
<1>1. /\ s.k \in Seq(Cell) /\ Safe(s) /\ Padded(s.k, z, x, e.sent) /\ s.raw = {}
      /\ e.sent + z + 1 \in s.u /\ s.u \subseteq 1 .. e.sent + z + 1
  BY DEF Dropping, Padded
<1>2. t.k = s.k \o Cells("b", x, y) /\ t.u = s.u /\ t.raw = s.raw /\ Safe(t)
  <2>1. o.op \in {"write", "option", "fake"} /\ o.op # "fake"
    OBVIOUS
  <2>2. o.from \in Nat /\ o.to \in Nat /\ o.from <= o.to
    OBVIOUS
  <2>3. /\ After(o, s, e).k = s.k \o Cells("b", o.from, o.to)
        /\ Beside(s, After(o, s, e))
    BY <1>1, <2>1, <2>2, WriteAfter
  <2> QED BY <2>3 DEF Beside
<1>3. Padded(s.k \o Cells("b", x, y), z, y, e.sent)
  BY <1>1, PaddedGrows
<1>4. Runs(<<o>>, s, t, e)
  BY <1>1, <1>2, RunsOne
<1> HIDE DEF t
<1>5. Dropping(t, z, y, e)
  BY <1>1, <1>2, <1>3 DEF Dropping
<1> QED BY <1>4, <1>5

\* One whose last bytes are urgent.
LEMMA UrgentGrows ==
  ASSUME NEW o, NEW s, NEW e, e.sent \in Nat, NEW x \in Nat, NEW y \in Nat, x <= y,
         o.op \in {"write", "option"}, o.from = x, o.to = y, Marked(s, x, e)
  PROVE  /\ o.oob = <<Zero>> => \E t : Runs(<<o>>, s, t, e) /\ Dropping(t, y, y, e)
         /\ o.oob = <<B(y), Zero>> => \E t : Runs(<<o>>, s, t, e) /\ Dropping(t, y + 1, y + 1, e)
         /\ o.oob = <<B(y)>> => \E t : Runs(<<o>>, s, t, e) /\ Marked(t, y + 1, e)
         /\ o.oob = <<B(y), B(y + 1)>> => \E t : Runs(<<o>>, s, t, e) /\ Marked(t, y + 2, e)
<1> DEFINE t == After(o, s, e)
           n == e.sent
           k == s.k \o Cells("b", x, y)
<1>1. s.k \in Seq(Cell) /\ Safe(s) /\ Whole(s.k, x, n) /\ s.raw = {} /\ s.u \subseteq 1 .. n + x
  BY DEF Marked, Whole
<1>2. Whole(k, y, n)
  BY <1>1, WholeGrows
<1>3. t.k = k \o o.oob
  <2>1. t.k = KernelAfter(o, s, e)
    BY AfterIs
  <2>2. KernelAfter(o, s, e) = k \o o.oob
    BY DEF KernelAfter
  <2> QED BY <2>1, <2>2, Zenon
<1>4. t.u = s.u \cup {Len(t.k) - i : i \in 0 .. Len(o.oob) - 1}
  <2>1. t.u = UrgentAfter(o, s, e) /\ t.k = KernelAfter(o, s, e)
    BY AfterIs
  <2>2. UrgentAfter(o, s, e) = s.u \cup {Len(KernelAfter(o, s, e)) - i : i \in 0 .. Len(o.oob) - 1}
    BY DEF UrgentAfter
  <2> QED BY <2>1, <2>2, Zenon
<1>5. t.raw = {} /\ Safe(t)
  <2>1. t.ttl = s.ttl /\ t.pages = s.pages /\ t.spliced = s.spliced /\ t.raw = RawAfter(o, s, e)
    BY AfterIs
  <2> QED BY <1>1, <2>1 DEF Safe, RawAfter
<1>6. Runs(<<o>>, s, t, e)
  BY <1>1, <1>5, RunsOne
<1> HIDE DEF t
<1>7. n \in Nat /\ Len(k) = n + y /\ k \in Seq(Cell)
  BY <1>2 DEF Whole
<1> HIDE DEF k, n
<1>8. ASSUME Len(o.oob) = 1, Len(t.k) \in Nat PROVE t.u = s.u \cup {Len(t.k)}
  <2>1. 0 .. Len(o.oob) - 1 = {0} /\ Len(t.k) - 0 = Len(t.k)
    BY <1>8
  <2> QED BY <1>4, <2>1
<1>9. ASSUME Len(o.oob) = 2, Len(t.k) \in Nat PROVE t.u = s.u \cup {Len(t.k), Len(t.k) - 1}
  <2>1. 0 .. Len(o.oob) - 1 = {0, 1} /\ Len(t.k) - 0 = Len(t.k)
    BY <1>9
  <2> QED BY <1>4, <2>1
<1>10. ASSUME o.oob = <<Zero>> PROVE Dropping(t, y, y, e)
  <2>1. Padded(t.k, y, y, n)
    BY <1>2, <1>3, <1>7, <1>10, PaddedBegins
  <2>2. Len(t.k) = n + y + 1 /\ Len(o.oob) = 1
    BY <1>10, <2>1 DEF Padded
  <2>3. t.u = s.u \cup {n + y + 1}
    BY <1>7, <1>8, <2>2
  <2>4. n + y + 1 \in t.u /\ t.u \subseteq 1 .. n + y + 1
    BY <1>1, <1>7, <2>3
  <2> QED BY <1>5, <2>1, <2>4 DEF Dropping, n
<1>11. ASSUME o.oob = <<B(y), Zero>> PROVE Dropping(t, y + 1, y + 1, e)
  <2>1. Padded(t.k, y + 1, y + 1, n)
    BY <1>2, <1>3, <1>7, <1>11, PaddedByte
  <2>2. Len(t.k) = n + (y + 1) + 1 /\ Len(o.oob) = 2
    BY <1>11, <2>1 DEF Padded
  <2>3. t.u = s.u \cup {n + (y + 1) + 1, n + y + 1}
    BY <1>7, <1>9, <2>2
  <2>4. n + (y + 1) + 1 \in t.u /\ t.u \subseteq 1 .. n + (y + 1) + 1
    BY <1>1, <1>7, <2>3
  <2> QED BY <1>5, <2>1, <2>4 DEF Dropping, n
<1>12. ASSUME o.oob = <<B(y)>> PROVE Marked(t, y + 1, e)
  <2>1. Whole(t.k, y + 1, n)
    BY <1>2, <1>3, <1>7, <1>12, WholeByte
  <2>2. Len(t.k) = n + y + 1 /\ Len(o.oob) = 1
    BY <1>7, <1>12, <2>1 DEF Whole
  <2>3. t.u = s.u \cup {n + y + 1}
    BY <1>7, <1>8, <2>2
  <2>4. t.u \subseteq 1 .. n + (y + 1)
    BY <1>1, <1>7, <2>3
  <2> QED BY <1>5, <2>1, <2>4 DEF Marked, n
<1>13. ASSUME o.oob = <<B(y), B(y + 1)>> PROVE Marked(t, y + 2, e)
  <2>1. Whole(t.k, y + 2, n)
    BY <1>2, <1>3, <1>7, <1>13, WholeByte
  <2>2. Len(t.k) = n + y + 2 /\ Len(o.oob) = 2
    BY <1>7, <1>13, <2>1 DEF Whole
  <2>3. t.u = s.u \cup {n + y + 2, n + y + 1}
    BY <1>7, <1>9, <2>2
  <2>4. t.u \subseteq 1 .. n + (y + 2)
    BY <1>1, <1>7, <2>3
  <2> QED BY <1>5, <2>1, <2>4 DEF Marked, n
<1> QED BY <1>6, <1>10, <1>11, <1>12, <1>13

LEMMA OpOne ==
  ASSUME NEW op, NEW from, NEW to, NEW oob, NEW fallback
  PROVE  /\ \E o : Op(op, from, to, oob) = <<o>> /\ o.op = op /\ o.from = from /\ o.to = to /\ o.oob = oob
         /\ \E o : /\ Lossy(Op(op, from, to, oob), fallback) = <<o>>
                   /\ o.op = op /\ o.from = from /\ o.to = to /\ o.oob = oob
<1> DEFINE o == [op |-> op, from |-> from, to |-> to, oob |-> oob, lossy |-> FALSE, fallback |-> << >>]
           l == [o EXCEPT !.lossy = TRUE, !.fallback = fallback]
<1>1. Op(op, from, to, oob) = <<o>> /\ <<o>>[1] = o
  BY DEF Op
<1>2. o.op = op /\ o.from = from /\ o.to = to /\ o.oob = oob
  OBVIOUS
<1>3. l.op = op /\ l.from = from /\ l.to = to /\ l.oob = oob
  OBVIOUS
<1>4. Lossy(Op(op, from, to, oob), fallback) = <<l>>
  BY <1>1 DEF Lossy
<1> HIDE DEF o, l
<1> QED BY <1>1, <1>2, <1>3, <1>4

LEMMA WriteRuns ==
  ASSUME NEW s, NEW e, e.sent \in Nat, NEW x \in Nat, NEW y \in Nat, x <= y, NEW r, Laid(s, x, r, e)
  PROVE  \E t : Runs(Write(x, y), s, t, e) /\ Laid(t, y, r, e) /\ t.seq = s.seq
<1>1. PICK o : Write(x, y) = <<o>> /\ o.op = "write" /\ o.from = x /\ o.to = y /\ o.oob = Nothing
  BY OpOne DEF Write
<1>2. o.op \in {"write", "option"} /\ o.oob = << >>
  BY <1>1 DEF Nothing
<1>3. \E t : Runs(<<o>>, s, t, e) /\ Laid(t, y, r, e) /\ t.seq = s.seq
  BY <1>1, <1>2, LaidGrows
<1> QED BY <1>1, <1>3

LEMMA OptionRuns ==
  ASSUME NEW s, NEW e, e.sent \in Nat, NEW x \in Nat, NEW y \in Nat, x <= y, NEW r, Laid(s, x, r, e)
  PROVE  \E t : Runs(Option(x, y), s, t, e) /\ Laid(t, y, r, e)
<1>1. PICK o : Option(x, y) = <<o>> /\ o.op = "option" /\ o.from = x /\ o.to = y /\ o.oob = Nothing
  BY OpOne DEF Option
<1>2. o.op \in {"write", "option"} /\ o.oob = << >>
  BY <1>1 DEF Nothing
<1>3. \E t : Runs(<<o>>, s, t, e) /\ Laid(t, y, r, e) /\ t.seq = s.seq
  BY <1>1, <1>2, LaidGrows
<1> QED BY <1>1, <1>3

LEMMA LossyRuns ==
  ASSUME NEW s, NEW e, e.sent \in Nat, NEW x \in Nat, NEW y \in Nat, x <= y, NEW r, Laid(s, x, r, e),
         NEW op \in {"write", "option"}, NEW fallback
  PROVE  \E t : Runs(Lossy(Op(op, x, y, Nothing), fallback), s, t, e) /\ Laid(t, y, r, e)
<1>1. PICK o : /\ Lossy(Op(op, x, y, Nothing), fallback) = <<o>>
               /\ o.op = op /\ o.from = x /\ o.to = y /\ o.oob = Nothing
  BY OpOne
<1>2. o.op \in {"write", "option"} /\ o.oob = << >>
  BY <1>1 DEF Nothing
<1>3. \E t : Runs(<<o>>, s, t, e) /\ Laid(t, y, r, e) /\ t.seq = s.seq
  BY <1>1, <1>2, LaidGrows
<1> QED BY <1>1, <1>3

LEMMA DroppingRuns ==
  ASSUME NEW s, NEW e, e.sent \in Nat, NEW z \in Nat, NEW x \in Nat, NEW y \in Nat, z <= x, x <= y,
         Dropping(s, z, x, e)
  PROVE  \E t : Runs(Write(x, y), s, t, e) /\ Dropping(t, z, y, e)
<1>1. PICK o : Write(x, y) = <<o>> /\ o.op = "write" /\ o.from = x /\ o.to = y /\ o.oob = Nothing
  BY OpOne DEF Write
<1>2. o.op \in {"write", "option"} /\ o.oob = << >>
  BY <1>1 DEF Nothing
<1>3. \E t : Runs(<<o>>, s, t, e) /\ Dropping(t, z, y, e)
  BY <1>1, <1>2, DroppingGrows
<1> QED BY <1>1, <1>3

LEMMA LaidMarked ==
  ASSUME NEW s, NEW e, NEW x, Laid(s, x, {}, e)
  PROVE  Marked(s, x, e)
BY DEF Laid, Marked

LEMMA OobRuns ==
  ASSUME NEW s, NEW e, e.sent \in Nat, NEW x \in Nat, NEW y \in Nat, x <= y, Marked(s, x, e), NEW fallback
  PROVE  /\ \E t : Runs(Oob(x, y, <<Zero>>), s, t, e) /\ Dropping(t, y, y, e)
         /\ \E t : Runs(Oob(x, y, <<B(y), Zero>>), s, t, e) /\ Dropping(t, y + 1, y + 1, e)
         /\ \E t : Runs(Lossy(Oob(x, y, <<B(y)>>), fallback), s, t, e) /\ Marked(t, y + 1, e)
         /\ \E t : Runs(Lossy(Oob(x, y, <<B(y), B(y + 1)>>), fallback), s, t, e) /\ Marked(t, y + 2, e)
<1>1. \E t : Runs(Oob(x, y, <<Zero>>), s, t, e) /\ Dropping(t, y, y, e)
  <2>1. PICK o : Oob(x, y, <<Zero>>) = <<o>> /\ o.op \in {"write", "option"} /\ o.from = x /\ o.to = y /\ o.oob = <<Zero>>
    BY OpOne DEF Oob
  <2> QED BY <2>1, UrgentGrows
<1>2. \E t : Runs(Oob(x, y, <<B(y), Zero>>), s, t, e) /\ Dropping(t, y + 1, y + 1, e)
  <2>1. PICK o : Oob(x, y, <<B(y), Zero>>) = <<o>> /\ o.op = "option" /\ o.from = x /\ o.to = y /\ o.oob = <<B(y), Zero>>
    BY OpOne DEF Oob
  <2> QED BY <2>1, UrgentGrows
<1>3. \E t : Runs(Lossy(Oob(x, y, <<B(y)>>), fallback), s, t, e) /\ Marked(t, y + 1, e)
  <2>1. PICK o : /\ Lossy(Oob(x, y, <<B(y)>>), fallback) = <<o>>
                 /\ o.op = "option" /\ o.from = x /\ o.to = y /\ o.oob = <<B(y)>>
    BY OpOne DEF Oob
  <2> QED BY <2>1, UrgentGrows
<1>4. \E t : Runs(Lossy(Oob(x, y, <<B(y), B(y + 1)>>), fallback), s, t, e) /\ Marked(t, y + 2, e)
  <2>1. PICK o : /\ Lossy(Oob(x, y, <<B(y), B(y + 1)>>), fallback) = <<o>>
                 /\ o.op = "option" /\ o.from = x /\ o.to = y /\ o.oob = <<B(y), B(y + 1)>>
    BY OpOne DEF Oob
  <2> QED BY <2>1, UrgentGrows
<1> QED BY <1>1, <1>2, <1>3, <1>4

LEMMA FreshIs ==
  ASSUME NEW s, Fresh(s)
  PROVE  /\ s.k = << >> /\ s.u = {} /\ s.raw = {} /\ s.seq = 0 /\ s.ttl = "default" /\ s.pages = "fake"
         /\ s.spliced = {} /\ Safe(s) /\ Whole(s.k, 0, 0)
         /\ \A e : e.sent = 0 => Laid(s, 0, {}, e)
<1>1. /\ s.k = << >> /\ s.u = {} /\ s.raw = {} /\ s.seq = 0 /\ s.ttl = "default" /\ s.pages = "fake"
      /\ s.spliced = {}
  BY DEF Fresh
<1>2. Safe(s) /\ Whole(s.k, 0, 0)
  BY <1>1, WholeNothing DEF Safe
<1> QED BY <1>1, <1>2 DEF Laid

\* The other sends, but for those of the pages.
LEMMA HandshakeRuns ==
  ASSUME NEW s, NEW e, e.sent \in Nat, e.proxy \in Nat, Fresh(s)
  PROVE  \E t : Runs(Step("handshake"), s, t, e) /\ Laid(t, 0, {}, e) /\ t.seq = e.proxy
<1>1. PICK o : Step("handshake") = <<o>> /\ o.op = "handshake"
  BY OpOne DEF Step
<1> DEFINE t == After(o, s, e)
<1>2. t.k = KernelAfter(o, s, e) /\ t.u = UrgentAfter(o, s, e) /\ t.raw = RawAfter(o, s, e) /\ t.seq = SeqAfter(o, s, e)
  BY AfterIs
<1>3. /\ KernelAfter(o, s, e) = s.k \o Cells("h", 0, e.sent) /\ UrgentAfter(o, s, e) = s.u
      /\ RawAfter(o, s, e) = s.raw /\ SeqAfter(o, s, e) = s.seq + e.proxy
  BY <1>1 DEF KernelAfter, UrgentAfter, RawAfter, SeqAfter
<1>4. t.spliced = {}
  BY <1>1, AfterIs, FreshIs
<1>5. Safe(t) /\ Safe(s)
  BY <1>4, FreshIs DEF Safe
<1>6. Runs(<<o>>, s, t, e)
  BY <1>5, RunsOne
<1>7. Whole(s.k \o Cells("h", 0, e.sent), 0, e.sent)
  BY FreshIs, WholeHandshake
<1> HIDE DEF t
<1>8. s.u = {} /\ s.raw = {} /\ s.seq = 0
  BY FreshIs
<1>9. t.k = s.k \o Cells("h", 0, e.sent) /\ t.u = {} /\ t.raw = {} /\ t.seq = e.proxy
  BY <1>2, <1>3, <1>8
<1>10. Laid(t, 0, {}, e)
  BY <1>5, <1>7, <1>9 DEF Laid
<1> QED BY <1>1, <1>6, <1>9, <1>10

LEMMA IdleRuns ==
  ASSUME NEW s, NEW e, Safe(s), NEW op \in {"decoy", "addLen"}
  PROVE  \E t : /\ Runs(Step(op), s, t, e) /\ t.k = s.k /\ t.u = s.u /\ t.raw = s.raw /\ Safe(t)
                /\ op = "decoy" => t.seq = s.seq
<1>1. PICK o : Step(op) = <<o>> /\ o.op = op
  BY OpOne DEF Step
<1> DEFINE t == After(o, s, e)
<1>2. t.k = KernelAfter(o, s, e) /\ t.u = UrgentAfter(o, s, e) /\ t.raw = RawAfter(o, s, e) /\ t.seq = SeqAfter(o, s, e)
  BY AfterIs
<1>3. /\ KernelAfter(o, s, e) = s.k /\ UrgentAfter(o, s, e) = s.u /\ RawAfter(o, s, e) = s.raw
      /\ op = "decoy" => SeqAfter(o, s, e) = s.seq
  BY <1>1 DEF KernelAfter, UrgentAfter, RawAfter, SeqAfter
<1>4. t.ttl = s.ttl /\ t.pages = s.pages /\ t.spliced = s.spliced
  BY <1>1, AfterIs
<1> HIDE DEF t
<1>5. Safe(t)
  BY <1>4 DEF Safe
<1>6. Runs(<<o>>, s, t, e)
  BY <1>5, RunsOne DEF t
<1> QED BY <1>1, <1>2, <1>3, <1>5, <1>6

LEMMA DecoyRuns ==
  ASSUME NEW s, NEW e, NEW x, NEW r, Laid(s, x, r, e)
  PROVE  \E t : Runs(Decoy, s, t, e) /\ Laid(t, x, r, e) /\ t.seq = s.seq
<1>1. Safe(s)
  BY DEF Laid
<1>2. PICK t : Runs(Step("decoy"), s, t, e) /\ t.k = s.k /\ t.u = s.u /\ t.raw = s.raw /\ Safe(t) /\ t.seq = s.seq
  BY <1>1, IdleRuns
<1>3. Laid(t, x, r, e)
  BY <1>2 DEF Laid
<1> QED BY <1>2, <1>3 DEF Decoy

LEMMA ReadsOn ==
  ASSUME NEW s, NEW e, Safe(s), Reads(s, e), NEW op \in {"decoy", "addLen"}
  PROVE  \E t : Runs(Step(op), s, t, e) /\ Reads(t, e) /\ Safe(t)
<1>1. PICK t : Runs(Step(op), s, t, e) /\ t.k = s.k /\ t.u = s.u /\ t.raw = s.raw /\ Safe(t)
  BY IdleRuns
<1>2. Laid(s, L, {}, e) => Laid(t, L, {}, e)
  BY <1>1 DEF Laid
<1>3. \A z \in 0 .. L : Dropping(s, z, L, e) => Dropping(t, z, L, e)
  BY <1>1 DEF Dropping
<1>4. Reads(t, e)
  BY <1>1, <1>2, <1>3 DEF Reads
<1> QED BY <1>1, <1>4

LEMMA RawRuns ==
  ASSUME NEW s, NEW e, e.sent \in Nat, e.cut \in Nat, NEW x \in Nat, x <= e.cut, s.seq = e.sent,
         Laid(s, x, {}, e)
  PROVE  \E t : Runs(Step("raw"), s, t, e) /\ Laid(t, x, Segment(e), e)
<1>1. PICK o : Step("raw") = <<o>> /\ o.op = "raw"
  BY OpOne DEF Step
<1> DEFINE t == After(o, s, e)
<1>2. t.k = KernelAfter(o, s, e) /\ t.u = UrgentAfter(o, s, e) /\ t.raw = RawAfter(o, s, e)
  BY AfterIs
<1>3. /\ KernelAfter(o, s, e) = s.k /\ UrgentAfter(o, s, e) = s.u
      /\ RawAfter(o, s, e) = {<<s.seq + i, B(i)>> : i \in {j \in e.cut .. L - 1 : s.seq + j >= Len(s.k)}}
  BY <1>1 DEF KernelAfter, UrgentAfter, RawAfter
<1>4. t.ttl = s.ttl /\ t.pages = s.pages /\ t.spliced = s.spliced
  BY <1>1, AfterIs
<1> HIDE DEF t
<1>5. Safe(t) /\ Safe(s)
  BY <1>4 DEF Safe, Laid
<1>6. Runs(<<o>>, s, t, e)
  BY <1>5, RunsOne DEF t
<1>7. {j \in e.cut .. L - 1 : s.seq + j >= Len(s.k)} = e.cut .. L - 1
  <2>1. Len(s.k) = e.sent + x
    BY DEF Laid, Whole
  <2>2. \A j \in e.cut .. L - 1 : s.seq + j >= Len(s.k)
    BY <2>1, LengthAssumption
  <2> QED BY <2>2
<1>8. RawAfter(o, s, e) = Segment(e)
  BY <1>3, <1>7 DEF Segment
<1>9. Laid(t, x, Segment(e), e)
  BY <1>2, <1>3, <1>5, <1>8 DEF Laid
<1> QED BY <1>1, <1>6, <1>9

LEMMA FakeRuns ==
  ASSUME NEW s, NEW e, e.sent \in Nat, e.cut \in Nat, e.cut <= L, Laid(s, e.cut, Segment(e), e)
  PROVE  \E t : Runs(WriteFake(e.cut, L), s, t, e) /\ Reads(t, e) /\ Safe(t)
<1>1. PICK o : WriteFake(e.cut, L) = <<o>> /\ o.op = "fake" /\ o.from = e.cut /\ o.to = L /\ o.oob = Nothing
  BY OpOne DEF WriteFake
<1>2. /\ s.k \in Seq(Cell) /\ Safe(s) /\ Whole(s.k, e.cut, e.sent) /\ s.u = {} /\ s.raw = Segment(e)
  BY DEF Laid, Whole
<1>3. o.op \in {"write", "option", "fake"} /\ o.from \in Nat /\ o.to \in Nat /\ o.from <= o.to /\ o.oob = << >>
  BY <1>1, LengthAssumption DEF Nothing
<1> DEFINE t == After(o, s, e)
<1>4. t.k = s.k \o Cells("f", o.from, o.to) /\ Beside(s, t)
  BY <1>1, <1>2, <1>3, WriteAfter
<1>5. Runs(<<o>>, s, t, e)
  BY <1>2, <1>4, RunsOne DEF Beside
<1> HIDE DEF t
<1>6. Begins(s.k \o Cells("f", e.cut, L), e.cut, e.sent)
  BY <1>2, BeginsIs
<1>7. Reads(t, e) /\ Safe(t)
  BY <1>1, <1>2, <1>4, <1>6 DEF Reads, Beside
<1> QED BY <1>1, <1>5, <1>7

\* Those of the pages: they are safe from the low TTL until they hold the header.
LEMMA PagesRun ==
  ASSUME NEW s, NEW e, NEW x \in Nat, e.sent = 0, Fresh(s)
  PROVE  \E t : /\ Runs(Step("lowTTL") \o Op("splice", 0, x, Nothing) \o (Step("copy") \o Step("setTTL")), s, t, e)
                /\ Laid(t, x, {}, e)
<1>1. PICK a : Step("lowTTL") = <<a>> /\ a.op = "lowTTL"
  BY OpOne DEF Step
<1>2. PICK b : Op("splice", 0, x, Nothing) = <<b>> /\ b.op = "splice" /\ b.from = 0 /\ b.to = x
  BY OpOne
<1>3. PICK c : Step("copy") = <<c>> /\ c.op = "copy"
  BY OpOne DEF Step
<1>4. PICK d : Step("setTTL") = <<d>> /\ d.op = "setTTL"
  BY OpOne DEF Step
<1>5. s.k = << >> /\ s.u = {} /\ s.raw = {} /\ s.spliced = {} /\ Safe(s) /\ Whole(s.k, 0, 0)
  BY FreshIs
<1>6. PICK t : t = After(a, s, e)
  OBVIOUS
<1>7. t.k = s.k /\ t.u = {} /\ t.raw = {} /\ t.ttl = "low"
  <2>1. /\ t.k = KernelAfter(a, s, e) /\ t.u = UrgentAfter(a, s, e)
        /\ t.raw = RawAfter(a, s, e) /\ t.ttl = "low"
    BY <1>1, <1>6, AfterIs
  <2>2. KernelAfter(a, s, e) = s.k /\ UrgentAfter(a, s, e) = s.u /\ RawAfter(a, s, e) = s.raw
    BY <1>1, <1>6 DEF KernelAfter, UrgentAfter, RawAfter
  <2> QED BY <1>5, <2>1, <2>2
<1>8. Safe(t) /\ Runs(<<a>>, s, t, e)
  <2>1. Safe(t)
    BY <1>7 DEF Safe
  <2> QED BY <1>5, <1>6, <2>1, RunsOne
<1>9. PICK v : v = After(b, t, e)
  OBVIOUS
<1>10. v.k = s.k \o Cells("b", 0, x) /\ v.u = {} /\ v.raw = {} /\ v.ttl = "low"
  <2>1. v.k = KernelAfter(b, t, e) /\ v.u = UrgentAfter(b, t, e) /\ v.raw = RawAfter(b, t, e) /\ v.ttl = t.ttl
    BY <1>2, <1>9, AfterIs
  <2>2. KernelAfter(b, t, e) = t.k \o Cells("b", 0, x) /\ UrgentAfter(b, t, e) = t.u /\ RawAfter(b, t, e) = t.raw
    BY <1>2 DEF KernelAfter, UrgentAfter, RawAfter
  <2> QED BY <1>7, <2>1, <2>2
<1>11. Safe(v) /\ Runs(<<b>>, t, v, e)
  <2>1. Safe(v)
    BY <1>10 DEF Safe
  <2> QED BY <1>8, <1>9, <2>1, RunsOne
<1>12. PICK w : w = After(c, v, e)
  OBVIOUS
<1>13. w.k = v.k /\ w.u = {} /\ w.raw = {} /\ w.pages = "real"
  <2>1. /\ w.k = KernelAfter(c, v, e) /\ w.u = UrgentAfter(c, v, e)
        /\ w.raw = RawAfter(c, v, e) /\ w.pages = "real"
    BY <1>3, <1>12, AfterIs
  <2>2. KernelAfter(c, v, e) = v.k /\ UrgentAfter(c, v, e) = v.u /\ RawAfter(c, v, e) = v.raw
    BY <1>3, <1>12 DEF KernelAfter, UrgentAfter, RawAfter
  <2> QED BY <1>10, <2>1, <2>2
<1>14. Safe(w) /\ Runs(<<c>>, v, w, e)
  <2>1. Safe(w)
    BY <1>13 DEF Safe
  <2> QED BY <1>11, <1>12, <2>1, RunsOne
<1>15. PICK r : r = After(d, w, e)
  OBVIOUS
<1>16. r.k = w.k /\ r.u = {} /\ r.raw = {} /\ r.pages = "real"
  <2>1. /\ r.k = KernelAfter(d, w, e) /\ r.u = UrgentAfter(d, w, e)
        /\ r.raw = RawAfter(d, w, e) /\ r.pages = w.pages
    BY <1>4, <1>15, AfterIs
  <2>2. KernelAfter(d, w, e) = w.k /\ UrgentAfter(d, w, e) = w.u /\ RawAfter(d, w, e) = w.raw
    BY <1>4, <1>15 DEF KernelAfter, UrgentAfter, RawAfter
  <2> QED BY <1>13, <2>1, <2>2
<1>17. Safe(r) /\ Runs(<<d>>, w, r, e)
  <2>1. Safe(r)
    BY <1>16 DEF Safe
  <2> QED BY <1>14, <1>15, <2>1, RunsOne
<1>18. Runs(<<a>> \o <<b>> \o (<<c>> \o <<d>>), s, r, e)
  <2>1. Runs(<<a>> \o <<b>>, s, v, e)
    BY <1>8, <1>11, RunsJoined
  <2>2. Runs(<<c>> \o <<d>>, v, r, e)
    BY <1>14, <1>17, RunsJoined
  <2> QED BY <2>1, <2>2, RunsJoined
<1>19. Laid(r, x, {}, e)
  <2>1. Whole(s.k \o Cells("b", 0, x), x, 0)
    <3>1. 0 \in Nat /\ 0 <= x
      OBVIOUS
    <3> QED BY <1>5, <3>1, WholeGrows
  <2> QED BY <1>10, <1>13, <1>16, <1>17, <2>1 DEF Laid
<1> QED BY <1>1, <1>2, <1>3, <1>4, <1>18, <1>19

-----------------------------------------------------------------------------
(* Every program leads to a stream that reads as it should, or is doomed.   *)

LEMMA RunsThen ==
  ASSUME NEW p, NEW q, NEW s, NEW t, NEW e, Runs(p, s, t, e), Reaches(q, t, e)
  PROVE  Reaches(p \o q, s, e)
<1>1. PICK r : Runs(q, t, r, e) /\ Reads(r, e)
  BY DEF Reaches
<1>2. Runs(p \o q, s, r, e)
  BY <1>1, RunsJoined
<1> QED BY <1>1, <1>2 DEF Reaches

\* What is left of the header.
LEMMA RestRuns ==
  ASSUME NEW s, NEW e, e.sent \in Nat, NEW x \in Nat, x <= L
  PROVE  /\ Laid(s, x, {}, e) => Reaches(Write(x, L), s, e) /\ (x = L => Reaches(Nothing, s, e))
         /\ \A z \in Nat : z <= x /\ Dropping(s, z, x, e) => Reaches(Write(x, L), s, e)
<1>1. L \in Nat
  BY LengthAssumption
<1>2. ASSUME Laid(s, x, {}, e) PROVE Reaches(Write(x, L), s, e) /\ (x = L => Reaches(Nothing, s, e))
  <2>1. PICK t : Runs(Write(x, L), s, t, e) /\ Laid(t, L, {}, e)
    BY <1>1, <1>2, WriteRuns
  <2>2. Runs(Nothing, s, s, e)
    BY <1>2, RunsNothing DEF Laid, Nothing
  <2> QED BY <1>2, <2>1, <2>2 DEF Reads, Reaches
<1>3. ASSUME NEW z \in Nat, z <= x, Dropping(s, z, x, e) PROVE Reaches(Write(x, L), s, e)
  <2>1. PICK t : Runs(Write(x, L), s, t, e) /\ Dropping(t, z, L, e)
    BY <1>1, <1>3, DroppingRuns
  <2>2. z \in 0 .. L
    BY <1>1, <1>3
  <2> QED BY <2>1, <2>2 DEF Reads, Reaches
<1> QED BY <1>2, <1>3

\* The urgent byte that is dropped, and what is left.
LEMMA TagRuns ==
  ASSUME NEW s, NEW e, e.sent \in Nat, NEW x \in Nat, NEW y \in Nat, x <= y, y <= L, Marked(s, x, e)
  PROVE  Reaches(Oob(x, y, <<Zero>>) \o Write(y, L), s, e)
<1>1. PICK t : Runs(Oob(x, y, <<Zero>>), s, t, e) /\ Dropping(t, y, y, e)
  BY OobRuns
<1>2. y <= y
  OBVIOUS
<1>3. Reaches(Write(y, L), t, e)
  BY <1>1, <1>2, RestRuns
<1> QED BY <1>1, <1>3, RunsThen

LEMMA SecondStops ==
  ASSUME NEW l, NEW o, NEW w, NEW e, Stops(o, e)
  PROVE  Doomed(<<l>> \o (<<o>> \o <<w>>), e)
<1>1. /\ <<l>> \in Seq({l, o, w}) /\ <<o>> \in Seq({l, o, w}) /\ <<w>> \in Seq({l, o, w})
      /\ Len(<<l>>) = 1 /\ Len(<<o>>) = 1 /\ Len(<<w>>) = 1 /\ <<o>>[1] = o
  OBVIOUS
<1> DEFINE q == <<o>> \o <<w>>
<1>2. q \in Seq({l, o, w}) /\ Len(q) = 2 /\ q[1] = o
  BY <1>1, Indexed
<1> HIDE DEF q
<1> DEFINE p == <<l>> \o q
<1>3. p \in Seq({l, o, w}) /\ Len(p) = 3 /\ p[2] = o
  <2>1. /\ p \in Seq({l, o, w}) /\ Len(p) = Len(<<l>>) + Len(q)
        /\ \A i \in Len(<<l>>) + 1 .. Len(<<l>>) + Len(q) : p[i] = q[i - Len(<<l>>)]
    <3> HIDE DEF p
    <3>1. <<l>> \in Seq({l, o, w}) /\ q \in Seq({l, o, w})
      BY <1>1, <1>2
    <3> QED BY <3>1, Indexed DEF p
  <2> HIDE DEF p
  <2>2. 2 \in Len(<<l>>) + 1 .. Len(<<l>>) + Len(q) /\ 2 - Len(<<l>>) = 1
    BY <1>1, <1>2
  <2> QED BY <1>1, <1>2, <2>1, <2>2
<1> HIDE DEF p
<1>4. 2 \in 1 .. Len(p) /\ Stops(p[2], e)
  BY <1>3
<1>5. Doomed(p, e)
  BY <1>3, <1>4 DEF Doomed
<1> QED BY <1>5 DEF p, q

LEMMA OOBLeads ==
  ASSUME DialTypeOK, stage = "cut", build = "user", Has("OOB"), length # 0,
         NEW s, Fresh(s), NEW e, e.sent = 0
  PROVE  Leads(OOBProgram, s, e)
<1>1. /\ offset \in Nat /\ length \in Nat /\ offset >= 1 /\ length >= 1 /\ offset + length <= L
      /\ L \in Nat /\ L > 4 /\ cut \in Nat /\ cut <= L
  BY LengthAssumption DEF DialTypeOK
<1>2. Laid(s, 0, {}, e) /\ Marked(s, 0, e) /\ e.sent \in Nat
  BY FreshIs, LaidMarked
<1>3. CASE Has("TTL") /\ offset + 2 <= cut
  <2> DEFINE rest == Oob(offset + 2, cut, <<Zero>>) \o Write(cut, L)
             first == Lossy(Oob(0, offset, <<B(offset), B(offset + 1)>>), rest)
  <2> HIDE DEF rest
  <2>1. PICK t : Runs(first, s, t, e) /\ Marked(t, offset + 2, e)
    <3>1. 0 \in Nat /\ 0 <= offset
      BY <1>1
    <3> QED BY <1>1, <1>2, <3>1, OobRuns
  <2>2. Reaches(rest, t, e)
    <3>1. offset + 2 \in Nat
      BY <1>1
    <3> QED BY <1>1, <1>2, <1>3, <2>1, <3>1, TagRuns DEF rest
  <2> HIDE DEF first
  <2>3. Reaches(first \o rest, s, e)
    BY <2>1, <2>2, RunsThen
  <2> QED BY <1>3, <2>3 DEF OOBProgram, Leads, first, rest
<1>4. CASE Has("TTL") /\ ~(offset + 2 <= cut)
  <2> DEFINE rest == Oob(offset + 2, cut, <<Zero>>) \o Write(cut, L)
             first == Lossy(Oob(0, offset, <<B(offset), B(offset + 1)>>), rest)
  <2>1. PICK l : first = <<l>>
    BY OpOne DEF Oob
  <2>2. PICK o : Oob(offset + 2, cut, <<Zero>>) = <<o>> /\ o.op = "option" /\ o.from = offset + 2 /\ o.to = cut
    BY OpOne DEF Oob
  <2>3. PICK w : Write(cut, L) = <<w>>
    BY OpOne DEF Write
  <2>4. first \o rest = <<l>> \o (<<o>> \o <<w>>)
    BY <2>1, <2>2, <2>3
  <2> HIDE DEF first, rest
  <2>5. Stops(o, e)
    BY <1>4, <2>2 DEF Stops
  <2>6. Doomed(first \o rest, e)
    BY <2>4, <2>5, SecondStops
  <2> QED BY <1>4, <2>6 DEF OOBProgram, Leads, first, rest
<1>5. CASE ~Has("TTL") /\ Has("TCPFRAG")
  <2> DEFINE rest == Oob(1, offset, <<B(offset), Zero>>) \o Write(offset + 1, L)
             first == Lossy(Write(0, 1), rest)
  <2> HIDE DEF rest
  <2>1. PICK t : Runs(first, s, t, e) /\ Laid(t, 1, {}, e)
    <3>1. 0 \in Nat /\ 1 \in Nat /\ 0 <= 1
      OBVIOUS
    <3> QED BY <1>2, <3>1, LossyRuns DEF Write
  <2>2. Reaches(rest, t, e)
    <3>1. PICK v : Runs(Oob(1, offset, <<B(offset), Zero>>), t, v, e) /\ Dropping(v, offset + 1, offset + 1, e)
      <4>1. 1 \in Nat /\ 1 <= offset /\ Marked(t, 1, e)
        BY <1>1, <2>1, LaidMarked
      <4> QED BY <1>1, <1>2, <4>1, OobRuns
    <3>2. offset + 1 \in Nat /\ offset + 1 <= L /\ offset + 1 <= offset + 1
      BY <1>1
    <3>3. Reaches(Write(offset + 1, L), v, e)
      BY <1>2, <3>1, <3>2, RestRuns
    <3> QED BY <3>1, <3>3, RunsThen DEF rest
  <2> HIDE DEF first
  <2>3. Reaches(first \o rest, s, e)
    BY <2>1, <2>2, RunsThen
  <2> QED BY <1>5, <2>3 DEF OOBProgram, Leads, first, rest
<1>6. CASE ~Has("TTL") /\ ~Has("TCPFRAG")
  <2>1. PICK t : Runs(Oob(0, 1, <<B(1), Zero>>), s, t, e) /\ Dropping(t, 1 + 1, 1 + 1, e)
    <3>1. 0 \in Nat /\ 1 \in Nat /\ 0 <= 1
      OBVIOUS
    <3> QED BY <1>2, <3>1, OobRuns
  <2>2. Reaches(Write(2, L), t, e)
    <3>1. 2 \in Nat /\ 2 <= L /\ 2 <= 2 /\ 1 + 1 = 2
      BY <1>1
    <3>2. Dropping(t, 2, 2, e)
      BY <2>1, <3>1
    <3> QED BY <1>2, <3>1, <3>2, RestRuns
  <2>3. Reaches(Oob(0, 1, <<B(1), Zero>>) \o Write(2, L), s, e)
    BY <2>1, <2>2, RunsThen
  <2> QED BY <1>6, <2>3 DEF OOBProgram, Leads
<1> QED BY <1>3, <1>4, <1>5, <1>6

LEMMA TwoWrites ==
  ASSUME NEW s, NEW e, e.sent \in Nat, Laid(s, 0, {}, e), NEW y \in Nat, y <= L
  PROVE  Reaches(Write(0, y) \o Write(y, L), s, e)
<1>1. PICK t : Runs(Write(0, y), s, t, e) /\ Laid(t, y, {}, e)
  <2>1. 0 \in Nat /\ 0 <= y
    OBVIOUS
  <2> QED BY <2>1, WriteRuns
<1>2. Reaches(Write(y, L), t, e)
  BY <1>1, RestRuns
<1> QED BY <1>1, <1>2, RunsThen

\* Four bytes, split after the first.
LEMMA FourRuns ==
  ASSUME NEW s, NEW e, e.sent \in Nat, Laid(s, 0, {}, e)
  PROVE  \E t : Runs(Write(0, 1) \o Write(1, 4), s, t, e) /\ Laid(t, 4, {}, e) /\ t.seq = s.seq
<1>1. PICK t : Runs(Write(0, 1), s, t, e) /\ Laid(t, 1, {}, e) /\ t.seq = s.seq
  <2>1. 0 \in Nat /\ 1 \in Nat /\ 0 <= 1
    OBVIOUS
  <2> QED BY <2>1, WriteRuns
<1>2. PICK v : Runs(Write(1, 4), t, v, e) /\ Laid(v, 4, {}, e) /\ v.seq = t.seq
  <2>1. 1 \in Nat /\ 4 \in Nat /\ 1 <= 4
    OBVIOUS
  <2>2. Laid(t, 1, {}, e)
    BY <1>1
  <2> QED BY <2>1, <2>2, WriteRuns
<1>3. Runs(Write(0, 1) \o Write(1, 4), s, v, e)
  BY <1>1, <1>2, RunsJoined
<1> QED BY <1>1, <1>2, <1>3

\* HINT_TCPFRAG in tcp_user.go.
LEMMA FragRuns ==
  ASSUME NEW s, NEW e, e.sent \in Nat, Laid(s, 0, {}, e), L \in Nat, cut \in Nat, cut <= L
  PROVE  Reaches(FragProgram, s, e)
<1>1. 0 \in Nat /\ 1 \in Nat /\ 4 \in Nat /\ 0 <= 1 /\ 1 <= 4 /\ 0 <= cut
  OBVIOUS
<1>2. ASSUME NEW t, Laid(t, cut, {}, e) PROVE Reaches(Option(cut, L), t, e)
  <2>1. PICK v : Runs(Option(cut, L), t, v, e) /\ Laid(v, L, {}, e)
    BY <1>2, OptionRuns
  <2> QED BY <2>1 DEF Reads, Reaches
<1>3. ASSUME cut > 4 PROVE Reaches(Option(0, 1) \o Option(1, 4) \o Option(4, cut) \o Option(cut, L), s, e)
  <2>1. PICK t : Runs(Option(0, 1), s, t, e) /\ Laid(t, 1, {}, e)
    BY <1>1, OptionRuns
  <2>2. PICK u : Runs(Option(1, 4), t, u, e) /\ Laid(u, 4, {}, e)
    BY <1>1, <2>1, OptionRuns
  <2>3. PICK v : Runs(Option(4, cut), u, v, e) /\ Laid(v, cut, {}, e)
    <3>1. 4 <= cut
      BY <1>3
    <3> QED BY <1>1, <2>2, <3>1, OptionRuns
  <2>4. Runs(Option(0, 1) \o Option(1, 4), s, u, e)
    BY <2>1, <2>2, RunsJoined
  <2>5. Runs(Option(0, 1) \o Option(1, 4) \o Option(4, cut), s, v, e)
    BY <2>3, <2>4, RunsJoined
  <2> QED BY <1>2, <2>3, <2>5, RunsThen
<1>4. Reaches(Option(0, cut) \o Option(cut, L), s, e)
  <2>1. PICK t : Runs(Option(0, cut), s, t, e) /\ Laid(t, cut, {}, e)
    BY <1>1, OptionRuns
  <2> QED BY <1>2, <2>1, RunsThen
<1> QED BY <1>3, <1>4 DEF FragProgram

LEMMA UserLeads ==
  ASSUME DialTypeOK, stage = "cut", build = "user", ~MissesProxy,
         NEW s, Fresh(s), NEW e, e.sent = Handshake.sent, e.proxy \in Nat
  PROVE  Leads(UserProgram, s, e)
<1>1. L \in Nat /\ L > 4 /\ cut \in Nat /\ cut <= L /\ 0 \in Nat /\ 0 <= L /\ e.sent \in Nat
  BY LengthAssumption, HandshakeIs DEF DialTypeOK
<1>2. ASSUME Has("TFO") \/ (length # 0 /\ Hint \cap {"OOB", "TTL", "TCPFRAG"} # {})
      PROVE  e.sent = 0 /\ Laid(s, 0, {}, e)
  <2>1. Protocol = "DIRECT"
    BY <1>2 DEF MissesProxy
  <2>2. e.sent = 0
    BY <2>1 DEF Handshake
  <2> QED BY <2>2, FreshIs
<1>3. ASSUME Laid(s, 0, {}, e)
      PROVE  Reaches(Write(0, L), s, e) /\ Reaches(Write(0, cut) \o Write(cut, L), s, e)
  BY <1>1, <1>3, RestRuns, TwoWrites
<1>4. CASE Has("TFO")
  BY <1>2, <1>3, <1>4 DEF UserProgram, Leads
<1>5. CASE ~Has("TFO") /\ length # 0 /\ Has("OOB")
  <2>1. e.sent = 0
    BY <1>2, <1>5 DEF Has
  <2> QED BY <1>5, <2>1, OOBLeads DEF UserProgram
<1>6. CASE ~Has("TFO") /\ length # 0 /\ ~Has("OOB") /\ Has("TTL")
  <2>1. e.sent = 0
    BY <1>2, <1>6 DEF Has
  <2>2. SplicePart \in Nat /\ SplicePart <= L
    BY <1>1 DEF SplicePart
  <2>3. PICK t : Runs(SpliceFake \o SwapPages, s, t, e) /\ Laid(t, SplicePart, {}, e)
    BY <2>1, <2>2, PagesRun DEF SpliceFake, SwapPages
  <2> DEFINE rest == IF SplicePart < L THEN Write(SplicePart, L) ELSE Nothing
  <2>4. Reaches(rest, t, e)
    <3>1. Reaches(Write(SplicePart, L), t, e) /\ (SplicePart = L => Reaches(Nothing, t, e))
      BY <1>1, <2>2, <2>3, RestRuns
    <3>2. SplicePart < L \/ SplicePart = L
      BY <1>1, <2>2
    <3> QED BY <3>1, <3>2
  <2> HIDE DEF rest
  <2>5. Reaches(SpliceFake \o SwapPages \o rest, s, e)
    BY <2>3, <2>4, RunsThen
  <2>6. UserProgram = SpliceFake \o SwapPages \o rest
    BY <1>6 DEF UserProgram, rest
  <2> QED BY <2>5, <2>6 DEF Leads
<1>7. CASE ~Has("TFO") /\ length # 0 /\ ~Has("OOB") /\ ~Has("TTL") /\ Has("TCPFRAG")
  <2>1. Laid(s, 0, {}, e)
    BY <1>2, <1>7 DEF Has
  <2>3. Reaches(FragProgram, s, e)
    BY <1>1, <2>1, FragRuns
  <2> QED BY <1>7, <2>3 DEF UserProgram, Leads
<1>8. CASE ~Has("TFO") /\ (length = 0 \/ (~Has("OOB") /\ ~Has("TTL") /\ ~Has("TCPFRAG")))
  <2>1. PICK t : Runs(Step("handshake"), s, t, e) /\ Laid(t, 0, {}, e)
    BY <1>1, HandshakeRuns
  <2>2. Reaches(Write(0, L), t, e)
    BY <1>1, <2>1, RestRuns
  <2>3. Reaches(Step("handshake") \o Write(0, L), s, e)
    BY <2>1, <2>2, RunsThen
  <2> QED BY <1>8, <2>3 DEF UserProgram, Leads
<1> QED BY <1>4, <1>5, <1>6, <1>7, <1>8

LEMMA PlainLeads ==
  ASSUME DialTypeOK, NEW s, Fresh(s), NEW e, e.sent = Handshake.sent, e.proxy \in Nat
  PROVE  Leads(PlainProgram, s, e)
<1>1. L \in Nat /\ L > 4 /\ cut \in Nat /\ cut <= L /\ 0 \in Nat /\ 0 <= L /\ 0 <= cut /\ e.sent \in Nat
  BY LengthAssumption, HandshakeIs DEF DialTypeOK
<1>2. PICK t : Runs(Step("handshake"), s, t, e) /\ Laid(t, 0, {}, e)
  BY <1>1, HandshakeRuns
<1> DEFINE Last(i) == Oob(i, cut, <<Zero>>) \o Write(cut, L)
           rest == IF cut <= 4 \/ Hint \cap {"TCPFRAG", "OOB"} = {} THEN Write(0, L)
                   ELSE IF ~Has("OOB") THEN Write(0, 1) \o Write(1, 4) \o Write(4, L)
                   ELSE IF ~Has("TCPFRAG") THEN Last(0)
                   ELSE Lossy(Write(0, 1), Last(0)) \o Lossy(Oob(1, 3, <<B(3)>>), Last(4)) \o Last(4)
<1>3. PlainProgram = Step("handshake") \o rest
  BY DEF PlainProgram
<1>4. \A i \in Nat : \A v : i <= cut /\ Marked(v, i, e) => Reaches(Last(i), v, e)
  BY <1>1, TagRuns
<1> HIDE DEF Last
<1>5. Reaches(Write(0, L), t, e)
  BY <1>1, <1>2, RestRuns
<1>6. Reaches(Write(0, 1) \o Write(1, 4) \o Write(4, L), t, e)
  <2>1. PICK v : Runs(Write(0, 1) \o Write(1, 4), t, v, e) /\ Laid(v, 4, {}, e)
    BY <1>1, <1>2, FourRuns
  <2>2. Reaches(Write(4, L), v, e)
    <3>1. 4 \in Nat /\ 4 <= L
      BY <1>1
    <3> QED BY <1>1, <2>1, <3>1, RestRuns
  <2> QED BY <2>1, <2>2, RunsThen
<1>7. Reaches(Last(0), t, e)
  BY <1>1, <1>2, <1>4, LaidMarked
<1>8. cut > 4 => Reaches(Lossy(Write(0, 1), Last(0)) \o Lossy(Oob(1, 3, <<B(3)>>), Last(4)) \o Last(4), t, e)
  <2> SUFFICES ASSUME cut > 4
               PROVE  Reaches(Lossy(Write(0, 1), Last(0)) \o Lossy(Oob(1, 3, <<B(3)>>), Last(4)) \o Last(4), t, e)
    OBVIOUS
  <2>1. PICK v : Runs(Lossy(Write(0, 1), Last(0)), t, v, e) /\ Laid(v, 1, {}, e)
    <3>1. 0 \in Nat /\ 1 \in Nat /\ 0 <= 1
      OBVIOUS
    <3> QED BY <1>1, <1>2, <3>1, LossyRuns DEF Write
  <2>2. PICK w : Runs(Lossy(Oob(1, 3, <<B(3)>>), Last(4)), v, w, e) /\ Marked(w, 3 + 1, e)
    <3>1. 1 \in Nat /\ 3 \in Nat /\ 1 <= 3 /\ Marked(v, 1, e)
      BY <2>1, LaidMarked
    <3> QED BY <1>1, <3>1, OobRuns
  <2>3. Reaches(Last(4), w, e)
    <3>1. 4 \in Nat /\ 4 <= cut /\ 3 + 1 = 4
      BY <1>1
    <3>2. Marked(w, 4, e)
      BY <2>2, <3>1
    <3> QED BY <1>4, <3>1, <3>2
  <2>4. Runs(Lossy(Write(0, 1), Last(0)) \o Lossy(Oob(1, 3, <<B(3)>>), Last(4)), t, w, e)
    BY <2>1, <2>2, RunsJoined
  <2> QED BY <2>3, <2>4, RunsThen
<1>9. Reaches(rest, t, e)
  BY <1>1, <1>5, <1>6, <1>7, <1>8
<1> HIDE DEF rest
<1>10. Reaches(PlainProgram, s, e)
  BY <1>2, <1>3, <1>9, RunsThen
<1> QED BY <1>10 DEF Leads

LEMMA PassiveLeads ==
  ASSUME DialTypeOK,
         NEW s, Fresh(s), NEW e, e.sent = Handshake.sent, e.proxy \in Nat, e.notTCP = NotTCP
  PROVE  Leads(PassiveProgram, s, e)
<1>1. L \in Nat /\ cut \in Nat /\ cut <= L /\ 0 \in Nat /\ 0 <= L /\ 0 <= cut /\ e.sent \in Nat
  BY LengthAssumption, HandshakeIs DEF DialTypeOK
<1>2. PICK t : Runs(Step("handshake"), s, t, e) /\ Laid(t, 0, {}, e)
  BY <1>1, HandshakeRuns
<1> DEFINE first == Lossy(Option(0, cut), Nothing)
<1>3. CASE length > 0 /\ NotTCP
  <2>1. PICK h : Step("handshake") = <<h>>
    BY OpOne DEF Step
  <2>2. PICK o : first = <<o>> /\ o.op = "option"
    BY OpOne DEF Option
  <2>3. PICK w : Write(cut, L) = <<w>>
    BY OpOne DEF Write
  <2>4. Stops(o, e)
    BY <1>3, <2>2 DEF Stops
  <2>5. Doomed(<<h>> \o (<<o>> \o <<w>>), e)
    BY <2>4, SecondStops
  <2>6. PassiveProgram = <<h>> \o (<<o>> \o <<w>>)
    BY <1>3, <2>1, <2>2, <2>3 DEF PassiveProgram
  <2> QED BY <2>5, <2>6 DEF Leads
<1>4. CASE length > 0 /\ ~NotTCP
  <2>1. PICK v : Runs(first, t, v, e) /\ Laid(v, cut, {}, e)
    BY <1>1, <1>2, LossyRuns DEF Option
  <2>2. Reaches(Write(cut, L), v, e)
    BY <1>1, <2>1, RestRuns
  <2>3. PassiveProgram = Step("handshake") \o (first \o Write(cut, L))
    BY <1>4 DEF PassiveProgram
  <2> HIDE DEF first
  <2>4. Reaches(first \o Write(cut, L), t, e)
    BY <2>1, <2>2, RunsThen
  <2>5. Reaches(PassiveProgram, s, e)
    BY <1>2, <2>3, <2>4, RunsThen
  <2> QED BY <2>5 DEF Leads
<1>5. CASE ~(length > 0)
  <2>1. Reaches(Write(0, L), t, e)
    BY <1>1, <1>2, RestRuns
  <2>2. Reaches(Step("handshake") \o Write(0, L), s, e)
    BY <1>2, <2>1, RunsThen
  <2> QED BY <1>5, <2>2 DEF PassiveProgram, Leads
<1> QED BY <1>3, <1>4, <1>5

LEMMA ActiveLeads ==
  ASSUME DialTypeOK, SeqKnown \/ ~Has("REVERSE"),
         NEW s, Fresh(s), NEW e, e.sent = Handshake.sent, e.proxy = Handshake.proxy_seq, e.cut = cut
  PROVE  Leads(ActiveProgram, s, e)
<1>1. /\ L \in Nat /\ cut \in Nat /\ cut <= L /\ 0 \in Nat /\ 0 <= L
      /\ e.sent \in Nat /\ e.proxy \in Nat /\ e.cut \in Nat
  BY LengthAssumption, HandshakeIs DEF DialTypeOK
<1> DEFINE frag == Has("TCPFRAG") /\ cut > 4
           SegOffset == IF frag THEN 4 ELSE 0
           first == IF frag THEN Write(0, 1) \o Write(1, 4) ELSE Nothing
           parts == IF Has("REVERSE") THEN ReverseProgram(SegOffset)
                    ELSE Write(SegOffset, cut) \o Decoy \o Write(cut, L)
           last == IF Has("SAT") THEN Decoy ELSE Nothing
<1>2. PICK t : Runs(Step("handshake"), s, t, e) /\ Laid(t, 0, {}, e) /\ t.seq = e.proxy
  BY <1>1, HandshakeRuns
<1>3. CASE Protocol = "HTTPS"
  <2>1. PICK v : Runs(Lossy(Write(0, L), Nothing), t, v, e) /\ Laid(v, L, {}, e)
    BY <1>1, <1>2, LossyRuns DEF Write
  <2>2. Reaches(Lossy(Write(0, L), Nothing), t, e)
    BY <2>1 DEF Reads, Reaches
  <2>3. Reaches(Step("handshake") \o Lossy(Write(0, L), Nothing), s, e)
    BY <1>2, <2>2, RunsThen
  <2> QED BY <1>3, <2>3 DEF ActiveProgram, Leads
<1>4. CASE Protocol # "HTTPS"
  <2>1. ActiveProgram = Step("handshake") \o (Decoy \o first \o parts \o Step("addLen") \o last)
    BY <1>4 DEF ActiveProgram
  <2>2. PICK u : Runs(Decoy, t, u, e) /\ Laid(u, 0, {}, e) /\ u.seq = e.proxy
    BY <1>2, DecoyRuns
  <2>3. SegOffset \in Nat /\ SegOffset <= cut
    BY <1>1
  <2>4. \E v : Runs(first, u, v, e) /\ Laid(v, SegOffset, {}, e) /\ v.seq = e.proxy
    <3>1. PICK w : Runs(Write(0, 1) \o Write(1, 4), u, w, e) /\ Laid(w, 4, {}, e) /\ w.seq = e.proxy
      BY <1>1, <2>2, FourRuns
    <3>2. Runs(Nothing, u, u, e)
      BY <2>2, RunsNothing DEF Laid, Nothing
    <3> QED BY <2>2, <3>1, <3>2
  <2>5. PICK v : Runs(first, u, v, e) /\ Laid(v, SegOffset, {}, e) /\ v.seq = e.proxy
    BY <2>4
  <2> HIDE DEF first, SegOffset
  <2>6. \E w : Runs(parts, v, w, e) /\ Reads(w, e) /\ Safe(w)
    <3>1. CASE Has("REVERSE")
      <4>1. v.seq = e.sent
        BY <2>5, <3>1, HandshakeIs
      <4>2. PICK w : Runs(Step("raw"), v, w, e) /\ Laid(w, SegOffset, Segment(e), e)
        BY <1>1, <2>3, <2>5, <4>1, RawRuns
      <4>3. PICK x : Runs(Write(SegOffset, cut), w, x, e) /\ Laid(x, cut, Segment(e), e)
        BY <1>1, <2>3, <4>2, WriteRuns
      <4>4. PICK y : Runs(WriteFake(cut, L), x, y, e) /\ Reads(y, e) /\ Safe(y)
        BY <1>1, <4>3, FakeRuns
      <4>5. Runs(Step("raw") \o Write(SegOffset, cut) \o WriteFake(cut, L), v, y, e)
        <5>1. Runs(Step("raw") \o Write(SegOffset, cut), v, x, e)
          BY <4>2, <4>3, RunsJoined
        <5> QED BY <4>4, <5>1, RunsJoined
      <4> QED BY <3>1, <4>4, <4>5 DEF ReverseProgram
    <3>2. CASE ~Has("REVERSE")
      <4>1. PICK w : Runs(Write(SegOffset, cut), v, w, e) /\ Laid(w, cut, {}, e)
        BY <1>1, <2>3, <2>5, WriteRuns
      <4>2. PICK x : Runs(Decoy, w, x, e) /\ Laid(x, cut, {}, e)
        BY <4>1, DecoyRuns
      <4>3. PICK y : Runs(Write(cut, L), x, y, e) /\ Laid(y, L, {}, e)
        BY <1>1, <4>2, WriteRuns
      <4>4. Runs(Write(SegOffset, cut) \o Decoy \o Write(cut, L), v, y, e)
        <5>1. Runs(Write(SegOffset, cut) \o Decoy, v, x, e)
          BY <4>1, <4>2, RunsJoined
        <5> QED BY <4>3, <5>1, RunsJoined
      <4>5. Reads(y, e) /\ Safe(y)
        BY <4>3 DEF Reads, Laid
      <4> QED BY <3>2, <4>4, <4>5
    <3> QED BY <3>1, <3>2
  <2> HIDE DEF parts
  <2>7. PICK w : Runs(parts, v, w, e) /\ Reads(w, e) /\ Safe(w)
    BY <2>6
  <2>8. PICK x : Runs(Step("addLen"), w, x, e) /\ Reads(x, e) /\ Safe(x)
    BY <2>7, ReadsOn
  <2>9. Reaches(last, x, e)
    <3>1. \E y : Runs(Step("decoy"), x, y, e) /\ Reads(y, e)
      BY <2>8, ReadsOn
    <3>2. Runs(Nothing, x, x, e)
      BY <2>8, RunsNothing DEF Nothing
    <3> QED BY <2>8, <3>1, <3>2 DEF Reaches, Decoy
  <2> HIDE DEF last
  <2>10. Runs(Decoy \o first, t, v, e)
    BY <2>2, <2>5, RunsJoined
  <2>11. Runs(Decoy \o first \o parts, t, w, e)
    BY <2>7, <2>10, RunsJoined
  <2>12. Runs(Decoy \o first \o parts \o Step("addLen"), t, x, e)
    BY <2>8, <2>11, RunsJoined
  <2>13. Reaches(Decoy \o first \o parts \o Step("addLen") \o last, t, e)
    BY <2>9, <2>12, RunsThen
  <2>14. Reaches(ActiveProgram, s, e)
    BY <1>2, <2>1, <2>13, RunsThen
  <2> QED BY <2>14 DEF Leads
<1> QED BY <1>3, <1>4

\* Whatever the build, the name and the hints.
LEMMA BranchLeads ==
  ASSUME DialTypeOK, stage = "cut", ~MissesProxy, SeqKnown \/ ~Has("REVERSE"), Fresh(Now)
  PROVE  /\ build = "user" => Leads(UserProgram, Now, Env)
         /\ build = "plain" => Leads(PlainProgram, Now, Env)
         /\ build = "passive" => Leads(PassiveProgram, Now, Env)
         /\ build = "active" => Leads(ActiveProgram, Now, Env)
<1>1. /\ Env.sent = Handshake.sent /\ Env.cut = cut /\ Env.notTCP = NotTCP /\ Env.proxy \in Nat
      /\ build = "active" => Env.proxy = Handshake.proxy_seq
  BY HandshakeIs DEF Env
<1> QED BY <1>1, UserLeads, PlainLeads, PassiveLeads, ActiveLeads

-----------------------------------------------------------------------------
(* The steps: a send takes the program on, and all else leaves it as it is. *)

LEMMA NowIs ==
  /\ Now.k = kernel /\ Now.u = urgent /\ Now.raw = raw /\ Now.seq = seq /\ Now.ttl = ttl /\ Now.pages = pages
  /\ Now.spliced = spliced
  /\ Env.cut = cut /\ Env.reverse = Has("REVERSE") /\ Env.notTCP = NotTCP /\ Env.sent = Handshake.sent
  /\ Env.proxy = IF build = "active" THEN Handshake.proxy_seq ELSE 0
BY DEF Now, Env

\* A send that goes as it should.
LEMMA SendIsAfter ==
  ASSUME DialTypeOK, ~MissesProxy, mishap' = {},
         Send \/ Splice \/ SendDecoy \/ SendRaw \/ AddLen \/ SetTTL \/ CopyPages
           \/ (DoHandshake /\ stage' = "sending")
  PROVE  Now' = After(Top, Now, Env)
<1>0. stage = "sending" /\ Top.op \in SendOps
  BY DEF Send, Splice, SendDecoy, SendRaw, AddLen, SetTTL, CopyPages, DoHandshake, Sending, SendOps
<1>1. kernel' = KernelAfter(Top, Now, Env)
  <2>1. CASE Send
    <3>1. Kind = IF Top.op = "fake" THEN "f" ELSE "b"
      BY DEF Kind, MissesProxy
    <3> QED BY <2>1, <3>1, NowIs DEF Send, Sending, KernelAfter
  <2>2. CASE Splice
    BY <2>2, NowIs DEF Splice, Sending, KernelAfter
  <2>3. CASE DoHandshake /\ stage' = "sending"
    BY <2>3, NowIs DEF DoHandshake, Sending, KernelAfter
  <2>4. CASE SendDecoy \/ SendRaw \/ AddLen \/ SetTTL \/ CopyPages
    BY <2>4, NowIs DEF SendDecoy, SendRaw, AddLen, SetTTL, CopyPages, Sending, KernelAfter
  <2> QED BY <2>1, <2>2, <2>3, <2>4
<1>2. urgent' = UrgentAfter(Top, Now, Env)
  <2>1. CASE Send
    BY <1>1, <2>1, NowIs DEF Send, Sending, UrgentAfter
  <2>2. CASE ~Send
    BY <2>2, NowIs DEF Splice, SendDecoy, SendRaw, AddLen, SetTTL, CopyPages, DoHandshake, Sending, UrgentAfter
  <2> QED BY <2>1, <2>2
<1>3. raw' = RawAfter(Top, Now, Env)
  <2>1. CASE SendRaw
    <3>1. raw' = {<<seq + i, B(i)>> : i \in {j \in cut .. L - 1 : seq + j >= Len(kernel)}}
      BY <2>1 DEF SendRaw
    <3>2. RawAfter(Top, Now, Env) =
            {<<Now.seq + i, B(i)>> : i \in {j \in Env.cut .. L - 1 : Now.seq + j >= Len(Now.k)}}
      BY <2>1 DEF RawAfter, SendRaw, Sending
    <3> QED BY <3>1, <3>2, NowIs
  <2>2. CASE ~SendRaw
    BY <2>2, NowIs DEF Send, Splice, SendDecoy, AddLen, SetTTL, CopyPages, DoHandshake, Sending, RawAfter
  <2> QED BY <2>1, <2>2
<1>4. seq' = SeqAfter(Top, Now, Env)
  <2>1. CASE DoHandshake /\ stage' = "sending"
    <3>1. SeqAfter(Top, Now, Env) = seq + Env.proxy /\ seq \in Int
      BY <2>1, NowIs DEF DoHandshake, Sending, SeqAfter, DialTypeOK
    <3>2. Env.proxy = IF build = "active" THEN Handshake.proxy_seq ELSE 0
      BY NowIs
    <3>3. seq' = IF build = "active" THEN seq + Handshake.proxy_seq ELSE seq
      BY <2>1, <1>0 DEF DoHandshake, SendOps
    <3> QED BY <3>1, <3>2, <3>3
  <2>2. CASE AddLen
    BY <2>2, NowIs DEF AddLen, Sending, SeqAfter
  <2>3. CASE SendRaw
    BY <2>3, NowIs DEF SendRaw, Sending, SeqAfter
  <2>4. CASE Send \/ Splice \/ SendDecoy \/ SetTTL \/ CopyPages
    BY <2>4, NowIs DEF Send, Splice, SendDecoy, SetTTL, CopyPages, Sending, SeqAfter
  <2> QED BY <2>1, <2>2, <2>3, <2>4
<1>5. /\ ttl' = IF Top.op = "lowTTL" THEN "low" ELSE IF Top.op = "setTTL" THEN "default" ELSE Now.ttl
      /\ pages' = IF Top.op = "copy" THEN "real" ELSE Now.pages
  BY NowIs DEF Send, Splice, SendDecoy, SendRaw, AddLen, SetTTL, CopyPages, DoHandshake, Sending, pagevars
<1>6. spliced' = IF Top.op = "splice" THEN Len(Now.k) + 1 .. Len(KernelAfter(Top, Now, Env)) ELSE Now.spliced
  <2>1. CASE Splice
    BY <1>1, <2>1, NowIs DEF Splice, Sending
  <2>2. CASE ~Splice
    BY <2>2, NowIs DEF Send, SendDecoy, SendRaw, AddLen, SetTTL, CopyPages, DoHandshake, Sending, pagevars
  <2> QED BY <2>1, <2>2
<1>7. Now' = [k |-> kernel', u |-> urgent', raw |-> raw', seq |-> seq', ttl |-> ttl', pages |-> pages',
              spliced |-> spliced']
  BY DEF Now
<1> QED BY <1>1, <1>2, <1>3, <1>4, <1>5, <1>6, <1>7 DEF After

LEMMA DoomedOn ==
  ASSUME NEW p, NEW e, p # << >>, Doomed(p, e), ~Stops(p[1], e)
  PROVE  Doomed(Tail(p), e)
<1>1. PICK S : p \in Seq(S) /\ \E i \in 1 .. Len(p) : Stops(p[i], e)
  BY DEF Doomed
<1>2. PICK i \in 1 .. Len(p) : Stops(p[i], e)
  BY <1>1
<1>3. i # 1
  BY <1>2
<1>4. i - 1 \in 1 .. Len(Tail(p)) /\ Tail(p)[i - 1] = p[i] /\ Tail(p) \in Seq(S)
  BY <1>1, <1>3
<1>5. \E j \in 1 .. Len(Tail(p)) : Stops(Tail(p)[j], e)
  BY <1>2, <1>4
<1> QED BY <1>4, <1>5 DEF Doomed

LEMMA ReachesOn ==
  ASSUME NEW p, NEW s, NEW e, p # << >>, Reaches(p, s, e)
  PROVE  Reaches(Tail(p), After(p[1], s, e), e)
BY RunsTail DEF Reaches

LEMMA ReachedSafely ==
  ASSUME NEW p, NEW s, NEW e, Reaches(p, s, e)
  PROVE  Safe(s)
<1>1. PICK S, w : p \in Seq(S) /\ w[0] = s /\ \A i \in 0 .. Len(p) : Safe(w[i])
  BY DEF Reaches, Runs
<1>2. 0 \in 0 .. Len(p)
  BY <1>1
<1> QED BY <1>1, <1>2

LEMMA NothingReached ==
  ASSUME NEW p, NEW s, NEW e, p = << >>
  PROVE  ~Doomed(p, e) /\ (Reaches(p, s, e) => Safe(s) /\ Reads(s, e))
<1>1. ~Doomed(p, e)
  BY DEF Doomed
<1>2. ASSUME Reaches(p, s, e) PROVE Safe(s) /\ Reads(s, e)
  <2>1. PICK t : Runs(<< >>, s, t, e) /\ Reads(t, e)
    BY <1>2 DEF Reaches
  <2>2. t = s
    BY <2>1, RunsNothing
  <2>3. Safe(s)
    BY <1>2, ReachedSafely
  <2> QED BY <2>1, <2>2, <2>3
<1> QED BY <1>1, <1>2

LEMMA InitStreamInv == DialInit => StreamInv
BY DEF DialInit, StreamInv, Untouched

LEMMA NextStreamInv ==
  ASSUME DialTypeOK, StreamInv, [DialNext]_dialVars
  PROVE  StreamInv'
<1> SUFFICES ASSUME mishap' = {}, ~MissesProxy', (SeqKnown \/ ~Has("REVERSE"))'
             PROVE  /\ stage' \in {"start", "syn", "connected", "cut"} => Untouched'
                    /\ stage' = "sending" =>
                         Doomed(program', Env') \/ (arrived' # "fake" /\ Reaches(program', Now', Env'))
                    /\ stage' = "done" => arrived' # "fake" /\ Safe(Now')
                    /\ stage' = "done" /\ kept' = 0 => Reads(Now', Env')
  BY DEF StreamInv
<1>1. UNCHANGED chosen
  BY DEF DialNext, DialConnInfo, CountSyn, OpenConnection, Cut, Branch, Panic, Send, Skip, FirstUrgentLost, Fail, DoHandshake,
         SendDecoy, SendRaw, AddLen, SetTTL, Splice, CopyPages, Retransmit, UrgentRead, Finish, Keep, Drop, dialVars
<1>2. mishap = {}
  BY DEF DialNext, DialConnInfo, CountSyn, OpenConnection, Cut, Branch, Panic, Send, Skip, FirstUrgentLost, Fail, DoHandshake,
         SendDecoy, SendRaw, AddLen, SetTTL, Splice, CopyPages, Retransmit, UrgentRead, Finish, Keep, dialVars
<1>3. ~MissesProxy /\ (SeqKnown \/ ~Has("REVERSE"))
  BY <1>1 DEF chosen, MissesProxy, SeqKnown, Has
<1>4. /\ stage \in {"start", "syn", "connected", "cut"} => Untouched
      /\ stage = "sending" => Doomed(program, Env) \/ (arrived # "fake" /\ Reaches(program, Now, Env))
      /\ stage = "done" => arrived # "fake" /\ Safe(Now)
      /\ stage = "done" /\ kept = 0 => Reads(Now, Env)
  BY <1>2, <1>3 DEF StreamInv
<1>5. UNCHANGED cut => UNCHANGED Env
  BY <1>1 DEF Env, chosen, Has, Handshake, NotTCP
<1>6. CASE DialConnInfo \/ CountSyn \/ OpenConnection \/ Cut
  BY <1>4, <1>6 DEF DialConnInfo, CountSyn, OpenConnection, Cut, Untouched, pagevars
<1>7. CASE Branch
  <2>1. stage = "cut" /\ stage' = "sending" /\ Untouched /\ UNCHANGED <<cut, arrived>>
    BY <1>4, <1>7 DEF Branch, pagevars
  <2>2. UNCHANGED Now
    BY <1>7 DEF Branch, Now, pagevars
  <2>3. Fresh(Now) /\ arrived' # "fake"
    BY <2>1 DEF Untouched, Now, Fresh
  <2>4. Leads(program', Now, Env)
    <3>1. /\ build = "user" => Leads(UserProgram, Now, Env)
          /\ build = "plain" => Leads(PlainProgram, Now, Env)
          /\ build = "passive" => Leads(PassiveProgram, Now, Env)
          /\ build = "active" => Leads(ActiveProgram, Now, Env)
      BY <1>3, <2>1, <2>3, BranchLeads
    <3>2. build \in {"user", "plain", "passive", "active"}
      BY BuildAssumption DEF DialTypeOK
    <3>3. /\ build = "user" => program' = UserProgram
          /\ build = "plain" => program' = PlainProgram
          /\ build = "passive" => program' = PassiveProgram
          /\ build = "active" => program' = ActiveProgram
      BY <1>7 DEF Branch
    <3> QED BY <3>1, <3>2, <3>3
  <2> QED BY <1>5, <2>1, <2>2, <2>3, <2>4 DEF Leads
<1>8. CASE Panic
  BY <1>8 DEF Panic
<1>9. CASE Send \/ Splice \/ SendDecoy \/ SendRaw \/ AddLen \/ SetTTL \/ CopyPages
             \/ (DoHandshake /\ stage' = "sending")
  <2>1. /\ program # << >> /\ stage = "sending" /\ stage' = "sending" /\ program' = Tail(program)
        /\ UNCHANGED cut
    BY <1>9 DEF Send, Splice, SendDecoy, SendRaw, AddLen, SetTTL, CopyPages, DoHandshake, Sending, Drop
  <2>2. UNCHANGED arrived
    BY <1>2, <1>9 DEF Send, Splice, SendDecoy, SendRaw, AddLen, SetTTL, CopyPages, DoHandshake, pagevars
  <2>3. Now' = After(program[1], Now, Env)
    BY <1>3, <1>9, SendIsAfter DEF Top
  <2>4. ~Stops(program[1], Env)
    BY <1>9, NowIs DEF Send, Splice, SendDecoy, SendRaw, AddLen, SetTTL, CopyPages, DoHandshake, Sending,
       Stops, InBounds, Top
  <2>5. Doomed(program, Env) => Doomed(program', Env')
    BY <1>5, <2>1, <2>4, DoomedOn
  <2>6. Reaches(program, Now, Env) => Reaches(program', Now', Env')
    BY <1>5, <2>1, <2>3, ReachesOn
  <2> QED BY <1>4, <2>1, <2>2, <2>5, <2>6
<1>10. CASE Skip \/ FirstUrgentLost \/ Fail
  BY <1>2, <1>10 DEF Skip, FirstUrgentLost, Fail
<1>11. CASE DoHandshake /\ stage' # "sending"
  BY <1>11 DEF DoHandshake, Sending
<1>12. CASE Retransmit
  <2>1. UNCHANGED <<stage, program, kept, cut, kernel, urgent, raw, seq, pages, ttl, spliced>> /\ arrived' = pages
    BY <1>12 DEF Retransmit
  <2>2. UNCHANGED Now
    BY <2>1 DEF Now
  <2>3. Safe(Now) => arrived' # "fake"
    BY <1>12, <2>1, NowIs DEF Retransmit, Safe
  <2>4. Reaches(program, Now, Env) => Safe(Now)
    BY ReachedSafely
  <2>5. stage \notin {"start", "syn", "connected", "cut"}
    BY <1>4, <1>12 DEF Retransmit, Untouched
  <2> QED BY <1>4, <1>5, <2>1, <2>2, <2>3, <2>4, <2>5
<1>13. CASE UrgentRead
  BY <1>13 DEF UrgentRead
<1>14. CASE Finish
  <2>1. stage = "sending" /\ program = << >> /\ stage' = "done" /\ UNCHANGED <<cut, arrived>>
    BY <1>14 DEF Finish, pagevars
  <2>2. UNCHANGED Now
    BY <1>14 DEF Finish, Now, pagevars
  <2>3. arrived # "fake" /\ Safe(Now) /\ Reads(Now, Env)
    BY <1>4, <2>1, NothingReached
  <2> QED BY <1>5, <2>1, <2>2, <2>3
<1>15. CASE Keep
  <2>1. /\ stage = "done" /\ stage' = "done" /\ kept' = kept + 1
        /\ UNCHANGED <<arrived, ttl, pages, spliced>>
    BY <1>15 DEF Keep, pagevars
  <2>2. kept' # 0
    BY <2>1 DEF DialTypeOK
  <2>3. Safe(Now')
    <3>1. Now'.ttl = Now.ttl /\ Now'.pages = Now.pages /\ Now'.spliced = Now.spliced
      BY <2>1 DEF Now
    <3> QED BY <1>4, <2>1, <3>1 DEF Safe
  <2> QED BY <1>4, <2>1, <2>2, <2>3
<1>16. CASE UNCHANGED dialVars
  <2>1. UNCHANGED <<Now, cut, stage, program, kept, arrived, Untouched>>
    BY <1>16 DEF dialVars, pagevars, Now, Untouched
  <2> QED BY <1>4, <1>5, <2>1
<1> QED
  BY <1>6, <1>7, <1>8, <1>9, <1>10, <1>11, <1>12, <1>13, <1>14, <1>15, <1>16 DEF DialNext

-----------------------------------------------------------------------------
(* What is read.                                                            *)

\* What the server should read.
LEMMA WantIs ==
  ASSUME NEW n \in Nat
  PROVE  Whole(Cells("h", 0, n) \o Cells("b", 0, L), L, n)
<1>1. Whole(<< >> \o Cells("h", 0, n), 0, n)
  BY WholeNothing, WholeHandshake
<1>2. << >> \o Cells("h", 0, n) = Cells("h", 0, n)
  <2>1. 0 \in Nat /\ 0 <= n
    OBVIOUS
  <2>2. Cells("h", 0, n) \in Seq(Cell)
    BY <2>1, CellsAre
  <2> QED BY <2>2
<1>3. 0 \in Nat /\ L \in Nat /\ 0 <= L
  BY LengthAssumption
<1> QED BY <1>1, <1>2, <1>3, WholeGrows

LEMMA SameWhole ==
  ASSUME NEW n \in Nat, NEW x \in Nat, NEW j, Whole(j, x, n), NEW k, Whole(k, x, n)
  PROVE  j = k
<1>1. j \in Seq(Cell) /\ k \in Seq(Cell) /\ Len(j) = n + x /\ Len(k) = n + x
  BY DEF Whole
<1>2. \A i \in 1 .. n + x : j[i] = k[i]
  BY DEF Whole
<1>3. j = [i \in 1 .. Len(j) |-> j[i]] /\ k = [i \in 1 .. Len(k) |-> k[i]]
  BY <1>1
<1> QED BY <1>1, <1>2, <1>3, Zenon

LEMMA TargetIsCell ==
  ASSUME NEW i \in Int, NEW n \in Int
  PROVE  Target(i, n) \in Cell
BY DEF Target, Cell

\* No byte is urgent.
LEMMA ReadAll ==
  ASSUME kernel \in Seq(Cell), urgent = {}, NEW n \in Nat, NEW x \in Nat, Len(kernel) = n + x,
         \A i \in 1 .. n + x : Byte(i) = Target(i, n)
  PROVE  Whole(Read, x, n)
<1> DEFINE all == [i \in DOMAIN kernel |-> Byte(i)]
<1>1. Read = all
  BY DEF Read, LastUrgent
<1>2. DOMAIN kernel = 1 .. n + x /\ n + x \in Nat
  OBVIOUS
<1> DEFINE m == n + x
           made == [i \in 1 .. m |-> Byte(i)]
<1>3. all = made
  BY <1>2
<1>4. \A i \in 1 .. m : Byte(i) \in Cell
  BY TargetIsCell
<1>5. \A i \in 1 .. m : made[i] = Byte(i)
  OBVIOUS
<1>6. made \in [1 .. m -> Cell]
  BY <1>4
<1> HIDE DEF made, m
<1>7. made \in Seq(Cell) /\ Len(made) = m
  BY <1>2, <1>6 DEF m
<1>8. \A i \in 1 .. n + x : made[i] = Target(i, n)
  BY <1>5 DEF m
<1>9. Whole(made, x, n)
  BY <1>7, <1>8 DEF Whole, m
<1> QED BY <1>1, <1>3, <1>9

\* The byte after z of the header is dropped.
LEMMA ReadDropped ==
  ASSUME raw = {}, arrived # "fake", NEW n \in Nat, NEW z \in Nat, NEW x \in Nat, z <= x, Padded(kernel, z, x, n),
         n + z + 1 \in urgent, urgent \subseteq 1 .. n + z + 1
  PROVE  Whole(Read, x, n)
<1> DEFINE all == [i \in DOMAIN kernel |-> Byte(i)]
           m == n + z + 1
           a == SubSeq(kernel, 1, m - 1)
           b == SubSeq(kernel, m + 1, Len(kernel))
<1>1. LastUrgent = m
  <2> DEFINE top(i) == i \in urgent /\ \A j \in urgent : j <= i
  <2>1. top(m)
    OBVIOUS
  <2>2. \A i : top(i) => i = m
    <3> TAKE i
    <3> HAVE top(i)
    <3>1. i \in 1 .. m /\ m <= i
      OBVIOUS
    <3> QED BY <3>1
  <2>3. LastUrgent = CHOOSE i \in urgent : \A j \in urgent : j <= i
    BY DEF LastUrgent
  <2> QED BY <2>1, <2>2, <2>3
<1>2. kernel \in Seq(Cell) /\ Len(kernel) = n + x + 1
  BY DEF Padded
<1>3. all = kernel
  <2>1. \A i \in DOMAIN kernel : Byte(i) = kernel[i]
    BY DEF Byte
  <2> QED BY <1>2, <2>1
<1>4. Read = a \o b
  <2>1. m # 0
    OBVIOUS
  <2> HIDE DEF m
  <2> QED BY <1>1, <1>3, <2>1 DEF Read
<1>5. a \in Seq(Cell) /\ Len(a) = n + z /\ \A i \in 1 .. n + z : a[i] = kernel[i]
  BY <1>2
<1>6. b \in Seq(Cell) /\ Len(b) = x - z /\ \A i \in 1 .. x - z : b[i] = kernel[m + i]
  BY <1>2
<1> HIDE DEF all, a, b, m
<1>7. /\ a \o b \in Seq(Cell) /\ Len(a \o b) = n + x
      /\ \A i \in 1 .. n + z : (a \o b)[i] = a[i]
      /\ \A i \in n + z + 1 .. n + x : (a \o b)[i] = b[i - (n + z)]
  <2>1. (n + z) + (x - z) = n + x
    OBVIOUS
  <2>2. /\ a \o b \in Seq(Cell) /\ Len(a \o b) = Len(a) + Len(b)
        /\ \A i \in 1 .. Len(a) : (a \o b)[i] = a[i]
        /\ \A i \in Len(a) + 1 .. Len(a) + Len(b) : (a \o b)[i] = b[i - Len(a)]
    BY <1>5, <1>6, Indexed
  <2> QED BY <1>5, <1>6, <2>1, <2>2
<1>8. \A i \in 1 .. n + x : (a \o b)[i] = Target(i, n)
  <2> TAKE i \in 1 .. n + x
  <2>1. CASE i <= n + z
    <3>1. i \in 1 .. n + z
      BY <2>1
    <3> QED BY <1>5, <1>7, <3>1 DEF Padded
  <2>2. CASE i > n + z
    <3>1. i \in n + z + 1 .. n + x /\ i - (n + z) \in 1 .. x - z /\ m + (i - (n + z)) = i + 1
      BY <2>2 DEF m
    <3>2. (a \o b)[i] = kernel[i + 1]
      BY <1>6, <1>7, <3>1
    <3> QED BY <3>1, <3>2 DEF Padded
  <2>3. i <= n + z \/ i > n + z
    OBVIOUS
  <2> QED BY <2>1, <2>2, <2>3, Zenon
<1> QED BY <1>4, <1>7, <1>8 DEF Whole

LEMMA StreamRead ==
  ASSUME DialTypeOK, Reads(Now, Env), arrived # "fake"
  PROVE  Read = Cells("h", 0, Handshake.sent) \o Cells("b", 0, L)
<1> DEFINE n == Handshake.sent
<1>1. n \in Nat /\ L \in Nat /\ cut \in Nat /\ cut <= L
  BY HandshakeIs, LengthAssumption DEF DialTypeOK
<1>2. Whole(Cells("h", 0, n) \o Cells("b", 0, L), L, n)
  BY <1>1, WantIs
<1>3. Now.k = kernel /\ Now.u = urgent /\ Now.raw = raw /\ Env.sent = n /\ Env.cut = cut
  BY NowIs
<1> HIDE DEF n
<1>4. ASSUME Laid(Now, L, {}, Env) PROVE Whole(Read, L, n)
  <2>1. Whole(kernel, L, n) /\ urgent = {} /\ raw = {}
    BY <1>3, <1>4 DEF Laid
  <2>2. kernel \in Seq(Cell) /\ Len(kernel) = n + L /\ \A i \in 1 .. n + L : kernel[i] = Target(i, n)
    BY <2>1 DEF Whole
  <2>3. \A i \in 1 .. n + L : Byte(i) = Target(i, n)
    BY <2>1, <2>2 DEF Byte
  <2> QED BY <1>1, <2>1, <2>2, <2>3, ReadAll
<1>5. ASSUME \E z \in 0 .. L : Dropping(Now, z, L, Env) PROVE Whole(Read, L, n)
  <2>1. PICK z \in 0 .. L : Dropping(Now, z, L, Env)
    BY <1>5
  <2>2. Padded(kernel, z, L, n) /\ n + z + 1 \in urgent /\ urgent \subseteq 1 .. n + z + 1 /\ raw = {}
    BY <1>3, <2>1 DEF Dropping
  <2>3. z \in Nat /\ z <= L
    BY <1>1
  <2> QED BY <1>1, <2>2, <2>3, ReadDropped
<1>6. ASSUME Begins(Now.k, Env.cut, Env.sent), Now.u = {}, Now.raw = Segment(Env) PROVE Whole(Read, L, n)
  <2>1. /\ kernel \in Seq(Cell) /\ Len(kernel) = n + L /\ urgent = {}
        /\ \A i \in 1 .. n + cut : kernel[i] = Target(i, n)
    BY <1>3, <1>6 DEF Begins
  <2>2. raw = {<<n + j, B(j)>> : j \in cut .. L - 1}
    BY <1>3, <1>6 DEF Segment
  <2>3. \A i \in 1 .. n + L : Byte(i) = Target(i, n)
    <3> TAKE i \in 1 .. n + L
    <3>1. CASE i <= n + cut
      <4>1. ~ \E r \in raw : r[1] = i - 1
        BY <1>1, <2>2, <3>1
      <4> QED BY <1>1, <2>1, <3>1, <4>1 DEF Byte
    <3>2. CASE i > n + cut
      <4>1. i - 1 - n \in cut .. L - 1 /\ n + (i - 1 - n) = i - 1 /\ ~(i <= n) /\ i - n - 1 = i - 1 - n
        BY <1>1, <3>2
      <4>2. <<i - 1, B(i - 1 - n)>> \in raw
        BY <2>2, <4>1
      <4>3. \A r \in raw : r[1] = i - 1 => r[2] = B(i - 1 - n)
        <5> TAKE r \in raw
        <5> HAVE r[1] = i - 1
        <5>1. PICK j \in cut .. L - 1 : r = <<n + j, B(j)>>
          BY <2>2
        <5>2. j = i - 1 - n
          BY <1>1, <5>1
        <5> QED BY <5>1, <5>2
      <4>4. Byte(i) = B(i - 1 - n)
        BY <4>2, <4>3 DEF Byte
      <4>5. Target(i, n) = <<"b", i - n - 1>>
        BY <4>1 DEF Target
      <4> QED BY <4>1, <4>4, <4>5 DEF B
    <3>3. i <= n + cut \/ i > n + cut
      BY <1>1
    <3> QED BY <3>1, <3>2, <3>3, Zenon
  <2> QED BY <1>1, <2>1, <2>3, ReadAll
<1>7. Whole(Read, L, n)
  BY <1>4, <1>5, <1>6 DEF Reads
<1>8. Read = Cells("h", 0, n) \o Cells("b", 0, L)
  BY <1>1, <1>2, <1>7, SameWhole
<1> QED BY <1>8 DEF n

\* Whatever the length of the header, the place of its name and the hints, the
\* server reads the handshake and the header, every byte once and in order, when
\* dial returns without an error, unless something went wrong unnoticed, a send on a
\* system where SendWithOption and SendWithFakePayload send nothing among it (dial).
THEOREM StreamIsTrue == DialSpec => []StreamTrue
<1> DEFINE Inv == DialIInv /\ StreamInv
<1>1. DialInit => Inv
  BY DialInitIInv, InitStreamInv
<1>2. Inv /\ [DialNext]_dialVars => Inv'
  BY DialNextIInv, NextStreamInv DEF DialIInv
<1>3. Inv => StreamTrue
  BY StreamRead DEF DialIInv, StreamInv, StreamTrue
<1> QED
  BY <1>1, <1>2, <1>3, PTL DEF DialSpec
=============================================================================
