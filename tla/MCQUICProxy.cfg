\* Three clients and room for two held Initials, so that the third is turned away or
\* sweeps them; three sessions, so that one may be closing while two are mapped.
SPECIFICATION FairSpec
CONSTANTS
  Client = {c1, c2, c3}
  Session = {s1, s2, s3}
  None = None
  PendingLimit = 2
INVARIANT MapExact
PROPERTY EveryConnCloses
