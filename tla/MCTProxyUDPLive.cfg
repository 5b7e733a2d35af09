\* Two flows that compete for one dial worker, the HTTP/3 one without HINT_UDP.
SPECIFICATION FairSpec
CONSTANTS
  Key = {plain, quic}
  Session = {s1, s2}
  None = None
  UdpKey = {plain}
  Http3Key = {quic}
  ZeroKey = {}
  Size = {1}
  MaxSessions = 2
  MaxPending = 2
  MaxPendingSize = 2
  HeldLimit = 1
  DialWorkers = 1
  MaxArrivals = 3
PROPERTY SessionEnds
