------------------------------ MODULE MCRawDial ------------------------------
(***************************************************************************)
(* A dial and the monitor it waits for (ConnMonitor), and the sends that   *)
(* follow (Dial), side by side: they share no state, so that in a          *)
(* behaviour one of them takes its steps and the other stands still.       *)
(***************************************************************************)
EXTENDS ConnMonitor, Dial, TLC

VARIABLE component

MCSystems == {"linux", "other"}
MCBuilds == {"user", "plain", "passive", "active"}
MCProtocols == {"DIRECT", "HTTP", "HTTPS", "SOCKS5"}
MCHintSets == SUBSET {"OOB", "TTL", "TCPFRAG", "REVERSE", "RAND", "SAT"}
  \cup {{"TFO"}, {"TFO", "TCPFRAG"}}

MonitorStill == platform = "pcap"
DialStill == build = "plain" /\ system = "linux" /\ Hint = {} /\ Protocol = "DIRECT" /\ length = 0

MCInit ==
  /\ Init /\ DialInit
  /\ \/ component = "monitor" /\ DialStill
     \/ component = "dial" /\ MonitorStill

MCNext ==
  /\ UNCHANGED component
  /\ \/ component = "monitor" /\ Next /\ UNCHANGED dialVars
     \/ component = "dial" /\ DialNext /\ UNCHANGED vars

MCSpec == MCInit /\ [][MCNext]_<<component, vars, dialVars>>

Symmetry == Permutations(Dial) \cup Permutations(Port)
=============================================================================
