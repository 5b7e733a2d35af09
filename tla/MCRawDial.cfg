\* Two dials to one address over two ports; one SYN is sent again, and the second
\* SYN with Fast Open has a number too high to name a slot.  A header of eight
\* bytes, with names of every place and length, on Linux and on other systems.
SPECIFICATION MCSpec
CONSTANTS
  Dial = {d1, d2}
  Address = {a1}
  Port = {p1, p2}
  Slots = 2
  SynIDs = {3}
  MaxResent = 1
  MaxUnread = 2
  None = None
  L = 8
  Builds <- MCBuilds
  Systems <- MCSystems
  Protocols <- MCProtocols
  HintSets <- MCHintSets
  MaxKeep = 2
INVARIANTS CountExact OwnInfo OwnData StreamTrue SeqTrue 
CHECK_DEADLOCK FALSE
SYMMETRY Symmetry
