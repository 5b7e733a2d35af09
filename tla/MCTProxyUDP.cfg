\* A plain flow and an HTTP/3 one, over a table with room for one entry and a
\* queue with room for one packet.
SPECIFICATION Spec
CONSTANTS
  Key = {plain, quic}
  Session = {s1, s2, s3}
  None = None
  UdpKey = {plain, quic}
  Http3Key = {quic}
  ZeroKey = {quic}
  Size = {1, 2}
  MaxSessions = 1
  MaxPending = 1
  MaxPendingSize = 3
  HeldLimit = 3
  DialWorkers = 1
  MaxArrivals = 3
SYMMETRY Symmetry
INVARIANTS CountsExact OneHome
PROPERTY InOrder
