------------------------------- MODULE UDPFlow -------------------------------
(***************************************************************************)
(* What one UDP flow through the proxy promises to its client, whoever     *)
(* carries it: a pipe that may lose datagrams and never repeats or         *)
(* overtakes one.  The Initials that were held back until their            *)
(* ClientHello was complete enter the pipe together, in packet number      *)
(* order.  TProxyUDP implements it.                                        *)
(***************************************************************************)
EXTENDS Naturals, Sequences, SequencesExt

CONSTANT Key          \* the flows

VARIABLES pipe,       \* per flow, the datagrams accepted and not yet written
          out         \* per flow, the datagrams written to the outbound

vars == <<pipe, out>>

Init ==
  /\ pipe = [k \in Key |-> << >>]
  /\ out = [k \in Key |-> << >>]

\* A datagram is [n |-> arrival number, size |-> ..., pn |-> packet number].
Before(d, e) == d.pn < e.pn \/ (d.pn = e.pn /\ d.n < e.n)

InPacketNumberOrder(batch) ==
  \A i, j \in DOMAIN batch : i < j => Before(batch[i], batch[j])

Newer(batch, old) ==
  \A i \in DOMAIN batch, j \in DOMAIN old : old[j].n < batch[i].n

Accept(k) ==
  LET batch == SubSeq(pipe'[k], Len(pipe[k]) + 1, Len(pipe'[k]))
  IN /\ batch # << >>
     /\ pipe' = [pipe EXCEPT ![k] = @ \o batch]
     /\ InPacketNumberOrder(batch)
     /\ Newer(batch, out[k] \o pipe[k])
     /\ UNCHANGED out

Deliver(k) ==
  /\ pipe[k] # << >>
  /\ out' = [out EXCEPT ![k] = Append(@, Head(pipe[k]))]
  /\ pipe' \in {[pipe EXCEPT ![k] = Tail(@)], [pipe EXCEPT ![k] = << >>]}

\* The session that carried the flow ends: whatever it had accepted is lost.
Lose(k) ==
  /\ pipe[k] # << >>
  /\ pipe' = [pipe EXCEPT ![k] = << >>]
  /\ UNCHANGED out

Next == \E k \in Key : Accept(k) \/ Deliver(k) \/ Lose(k)

Spec == Init /\ [][Next]_vars
=============================================================================
