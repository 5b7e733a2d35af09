\* Two clients, three UDP connections, two relays.
SPECIFICATION Spec
CONSTANTS
  Client = {c1, c2}
  Conn = {k1, k2, k3}
  Relay = {i1, i2}
  MaxSeq = 3
  None = None
INVARIANTS MapExact MisledOnlyByLater
PROPERTY RelayEnds
CHECK_DEADLOCK FALSE
