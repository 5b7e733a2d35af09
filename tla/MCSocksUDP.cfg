\* A plain flow and an HTTP/3 one; three sessions, so that one started after a
\* failed write runs beside the old one; room for one pending entry.
SPECIFICATION FairSpec
CONSTANTS
  Key = {plain, quic}
  Session = {s1, s2, s3}
  None = None
  UdpKey = {plain}
  Http3Key = {quic}
  ZeroKey = {quic}
  PendingLimit = 1
  DNSConcurrency = 1
INVARIANT MapExact
PROPERTY EveryConnCloses
