\* Three flows, of each kind, over a table with room for two entries; three
\* sessions, so that one can still be closing while two are mapped.
SPECIFICATION FairSpec
CONSTANTS
  Key = {plain, quic, both}
  Session = {s1, s2, s3}
  None = None
  UdpKey = {plain, both}
  Http3Key = {quic, both}
  ZeroKey = {quic}
  PendingLimit = 2
INVARIANT MapExact
PROPERTY TunnelDrains
