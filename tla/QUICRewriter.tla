---------------------------- MODULE QUICRewriter ----------------------------
(***************************************************************************)
(* quicInitialRewriter of src/phantomtcp/quic.go, on the path of one QUIC  *)
(* handshake: the Initial that carries the SNI leaves as two packets, so   *)
(* the packet numbers of the later ones are shifted by one on the wire,    *)
(* and the acknowledgements of the server are mapped back.                 *)
(*                                                                         *)
(* A client and a server that behave as QUIC endpoints do are part of the  *)
(* model, and the network on either side loses, repeats and reorders.      *)
(* A destination connection ID (DCID) that Initial keys derive from is     *)
(* known by its epoch: 0, and 1 after a Retry.  Packet numbers are whole:  *)
(* their truncated encodings (clientExpected, serverExpected) are not here. *)
(***************************************************************************)
EXTENDS Naturals, Sequences, FiniteSets

CONSTANT MaxInitials    \* bound: Initials the client sends

ASSUME BoundAssumption == MaxInitials \in Nat \ {0}

VARIABLES
  next,       \* the client's next packet number
  sent,       \* Initials the client has sent
  epoch,      \* 1 once the server has sent a Retry
  replied,    \* the client has had an Initial of the server
  rw,         \* the rewriter: initialized, firstClientPN, and clientDCID by its epoch
  wire,       \* packets written to the server
  received,   \* packets the server has accepted
  acked,      \* packet numbers the client has been told are acknowledged
  overtaken   \* history: a packet had left unsplit ahead of the one that was split

rewriterVars == <<next, sent, epoch, replied, rw, wire, received, acked, overtaken>>

\* own: the DCID of its header is the one its keys derive from, so the rewriter
\* can decrypt it; splits: splitInitialCryptoFrames finds the SNI in it.
Packet == [pn : 0..MaxInitials - 1, epoch : {0, 1}, own : BOOLEAN, splits : BOOLEAN]

Wire == [pn : 0..MaxInitials, epoch : {0, 1}, src : 0..MaxInitials - 1,
         part : {"whole", "first", "second"}]

Reset == [initialized |-> FALSE, first |-> 0, epoch |-> 0]

RewriterInit ==
  /\ next = 0
  /\ sent = {}
  /\ epoch = 0
  /\ replied = FALSE
  /\ rw = Reset
  /\ wire = {}
  /\ received = {}
  /\ acked = {}
  /\ overtaken = FALSE

-----------------------------------------------------------------------------
(* The client.  Once it has had an Initial of the server it addresses the  *)
(* server by the connection ID that the server chose.                      *)

SendInitial ==
  /\ next < MaxInitials
  /\ next' = next + 1
  /\ \E splits \in BOOLEAN :
       sent' = sent \cup {[pn |-> next, epoch |-> epoch, own |-> ~replied, splits |-> splits]}
  /\ UNCHANGED <<epoch, replied, rw, wire, received, acked, overtaken>>

-----------------------------------------------------------------------------
(* rewriteClient, on any Initial sent, early or late or again.             *)

Packed(p, pn, part) == [pn |-> pn, epoch |-> p.epoch, src |-> p.pn, part |-> part]

Original(p) == {Packed(p, p.pn, "whole")}

\* fragmentClientInitial
Fragments(p) == {Packed(p, p.pn, "first"), Packed(p, p.pn + 1, "second")}

\* Mutant: the later packets keep their number.
ShiftedNot(p) == {Packed(p, p.pn, "whole")}

Shifted(p) == {Packed(p, p.pn + 1, "whole")}

Send(packets) == wire' = wire \cup packets

\* The rewriter passes on what it cannot read, what is addressed to another
\* connection ID and what comes before the packet it has split.
PassOriginal(p) ==
  /\ \/ ~p.own
     \/ ~rw.initialized /\ ~p.splits
     \/ rw.initialized /\ (p.epoch # rw.epoch \/ p.pn < rw.first)
     \/ rw.initialized /\ p.pn = rw.first /\ ~p.splits
  /\ Send(Original(p))
  /\ UNCHANGED <<rw, overtaken>>

SplitFirst(p) ==
  /\ p.own /\ p.splits
  /\ ~rw.initialized
  /\ rw' = [initialized |-> TRUE, first |-> p.pn, epoch |-> p.epoch]
  /\ Send(Fragments(p))
  /\ overtaken' = (overtaken \/ \E w \in wire : w.epoch = p.epoch /\ w.pn > p.pn)

SplitAgain(p) ==
  /\ p.own /\ p.splits
  /\ rw.initialized /\ p.epoch = rw.epoch /\ p.pn = rw.first
  /\ Send(Fragments(p))
  /\ UNCHANGED <<rw, overtaken>>

Shift(p) ==
  /\ p.own
  /\ rw.initialized /\ p.epoch = rw.epoch /\ p.pn > rw.first
  /\ Send(Shifted(p))
  /\ UNCHANGED <<rw, overtaken>>

RewriteClient(p) ==
  /\ PassOriginal(p) \/ SplitFirst(p) \/ SplitAgain(p) \/ Shift(p)
  /\ UNCHANGED <<next, sent, epoch, replied, received, acked>>

-----------------------------------------------------------------------------
(* Acknowledgements.  A frame is a sequence of ranges, the largest first,  *)
(* between two of which at least one number is missing.                    *)

Numbers(ranges) == UNION {ranges[i].smallest .. ranges[i].largest : i \in DOMAIN ranges}

\* parseAckFrame, on a frame that acknowledges exactly S.
Ranges(S) ==
  LET tops == {n \in S : n + 1 \notin S}
      Bottom(n) == CHOOSE b \in 0..n : (b..n \subseteq S) /\ (b = 0 \/ b - 1 \notin S)
  IN [i \in 1..Cardinality(tops) |->
        LET top == CHOOSE n \in tops : Cardinality({m \in tops : m > n}) = i - 1
        IN [smallest |-> Bottom(top), largest |-> top]]

\* appendAckFrame refuses ranges that touch or overlap, or are empty.
Encodable(ranges) ==
  /\ ranges # << >>
  /\ \A i \in DOMAIN ranges : ranges[i].smallest <= ranges[i].largest
  /\ \A i \in 2..Len(ranges) : ranges[i].largest + 2 <= ranges[i - 1].smallest

\* Mutant: the first of the shifted numbers is left out.
mapAckPNLate(pn, first) ==
  CASE pn = first + 1 -> first
    [] pn > first + 2 -> pn - 1
    [] OTHER -> pn

mapAckPN(pn, first) ==
  CASE pn = first \/ pn = first + 1 -> first
    [] pn > first + 1 -> pn - 1
    [] OTHER -> pn

\* Mutant: ranges that have come to touch are not merged.
remapAckTouching(ranges, first) ==
  [i \in DOMAIN ranges |-> [smallest |-> mapAckPN(ranges[i].smallest, first),
                            largest |-> mapAckPN(ranges[i].largest, first)]]

\* The loop of remapAck: a range that touches the one before it after mapping is
\* merged into it.
remapRange(mapped, r, first) ==
  LET current == [smallest |-> mapAckPN(r.smallest, first),
                  largest |-> mapAckPN(r.largest, first)]
      n == Len(mapped)
  IN IF n > 0 /\ current.largest + 1 >= mapped[n].smallest
     THEN IF current.smallest < mapped[n].smallest
          THEN [mapped EXCEPT ![n].smallest = current.smallest]
          ELSE mapped
     ELSE Append(mapped, current)

remapAck(ranges, first) ==
  LET mapped[i \in 0..Len(ranges)] ==
        IF i = 0 THEN << >> ELSE remapRange(mapped[i - 1], ranges[i], first)
  IN mapped[Len(ranges)]

\* rewriteServer on an Initial that acknowledges S: it goes through unchanged
\* when the rewriter has split nothing, holds the keys of another epoch or
\* cannot encode the result.
rewriteServer(S) ==
  LET mapped == remapAck(Ranges(S), rw.first)
  IN IF rw.initialized /\ rw.epoch = epoch /\ Encodable(mapped) THEN Numbers(mapped) ELSE S

-----------------------------------------------------------------------------
(* The server.                                                             *)

\* A packet number that has been seen is not accepted again.
Receive(w) ==
  /\ w.epoch = epoch
  /\ \A r \in received : r.pn # w.pn
  /\ received' = received \cup {w}
  /\ UNCHANGED <<next, sent, epoch, replied, rw, wire, acked, overtaken>>

\* Its Initial, with an acknowledgement of some of what it has received, early
\* or late or again, reaches the client through the rewriter.
Reply ==
  /\ \E S \in SUBSET {r.pn : r \in received} :
       S # {} /\ acked' = acked \cup rewriteServer(S)
  /\ replied' = TRUE
  /\ UNCHANGED <<next, sent, epoch, rw, wire, received, overtaken>>

\* Instead of accepting the first packets the server answers with a Retry; the
\* packet numbers of the client go on, its keys are new.
Retry ==
  /\ epoch = 0 /\ received = {} /\ wire # {}
  /\ epoch' = 1
  /\ rw' = Reset
  /\ UNCHANGED <<next, sent, replied, wire, received, acked, overtaken>>

-----------------------------------------------------------------------------

RewriterNext ==
  \/ SendInitial
  \/ \E p \in sent : RewriteClient(p)
  \/ \E w \in wire : Receive(w)
  \/ Reply \/ Retry

RewriterSpec == RewriterInit /\ [][RewriterNext]_rewriterVars

-----------------------------------------------------------------------------
(* Properties.                                                             *)

\* The type of every variable: no wire packet number is more than one above
\* the largest the client can use.
RewriterTypeOK ==
  /\ next \in 0..MaxInitials
  /\ sent \subseteq Packet
  /\ epoch \in {0, 1}
  /\ replied \in BOOLEAN
  /\ rw \in [initialized : BOOLEAN, first : 0..MaxInitials - 1, epoch : {0, 1}]
  /\ wire \subseteq Wire
  /\ received \subseteq Wire
  /\ acked \subseteq 0..MaxInitials
  /\ overtaken \in BOOLEAN

\* Some Initial is addressed to the connection ID the server chose: the keys the
\* rewriter derives from its header are wrong, and it leaves with its own number.
Switched == \E p \in sent : ~p.own

\* As long as every Initial is addressed to the DCID of the first one, and none
\* left unsplit ahead of the one that was split, no packet number is used on the
\* wire for two different packets (the server would drop one as a duplicate).
WireUnique ==
  ~Switched /\ ~overtaken =>
    \A v, w \in wire : v.epoch = epoch /\ w.epoch = epoch /\ v.pn = w.pn => v = w

\* Every variable has its type.  Whatever the network and the connection IDs do,
\* the client is never told of a packet that it has not sent (it would have to
\* close the connection); and on the conditions of WireUnique, what it is told is
\* acknowledged has reached the server: a part of it, when it is the packet that was
\* split (mapAckPN maps either fragment to it), and else the whole.
AckSound ==
  /\ RewriterTypeOK
  /\ \A pn \in acked : pn < next
  /\ ~Switched /\ ~overtaken => \A pn \in acked : \E r \in received : r.src = pn

\* Whatever the server acknowledges, the remapped frame can be encoded again and
\* acknowledges exactly the images of its numbers.
RemapExact ==
  \A first \in 0..MaxInitials, S \in SUBSET {r.pn : r \in received} :
    S # {} =>
      LET mapped == remapAck(Ranges(S), first)
      IN Encodable(mapped) /\ Numbers(mapped) = {mapAckPN(n, first) : n \in S}
=============================================================================
