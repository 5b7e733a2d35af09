\* Two outbounds, two names, two retries, 102 configurations.  Every profile of up
\* to three prefixes over eight addresses, and every lookup.
SPECIFICATION MCSpec
CONSTANTS
  Outbound = {"o1", "o2"}
  Domain = {"d1", "d2"}
  Profiles <- MCProfiles
  Retries = 2
  MaxDial = 4
  Nil = Nil
  Interface = {"o1", "o2"}
  DefaultOutbound = "o1"
  Space = 8
  Lengths <- MCLengths
  MaxLines = 3
INVARIANTS OutboundOfDomain  LookupExact
PROPERTY RedirectEnds
CHECK_DEADLOCK FALSE
