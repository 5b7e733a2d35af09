------------------------------ MODULE FlowTable ------------------------------
(***************************************************************************)
(* What a proxy promises of the table in which it looks up the connection  *)
(* for a client's datagram, whichever of its goroutines change the table   *)
(* and in whatever order: an entry is made for an open connection of the   *)
(* flow, where there is none; and a connection is closed only when it is   *)
(* in the table no more.  So what is found there is open at that moment    *)
(* and the flow's own, and no entry is lost under a later one.  QUICProxy, *)
(* SocksUDP, UoT and PortMapping implement it.                             *)
(***************************************************************************)
CONSTANTS Flow,     \* what the table is looked up by
          Session,  \* the connections
          None      \* no connection

VARIABLES live,     \* the open connections, as <<session, flow>>
          table     \* per flow, its connection

vars == <<live, table>>

Init ==
  /\ live = {}
  /\ table = [f \in Flow |-> None]

Dial(s, f) ==
  /\ \A g \in Flow : <<s, g>> \notin live
  /\ live' = live \cup {<<s, f>>}
  /\ UNCHANGED table

Insert(s, f) ==
  /\ <<s, f>> \in live
  /\ table[f] = None
  /\ table' = [table EXCEPT ![f] = s]
  /\ UNCHANGED live

Remove(f) ==
  /\ table[f] # None
  /\ table' = [table EXCEPT ![f] = None]
  /\ UNCHANGED live

Close(s, f) ==
  /\ <<s, f>> \in live
  /\ table[f] # s
  /\ live' = live \ {<<s, f>>}
  /\ UNCHANGED table

Next ==
  \E f \in Flow :
    \/ Remove(f)
    \/ \E s \in Session : Dial(s, f) \/ Insert(s, f) \/ Close(s, f)

Spec == Init /\ [][Next]_vars
=============================================================================
