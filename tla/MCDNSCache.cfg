\* Three queries for two names, with lines of their own or under one rule, and three fake
\* addresses.
SPECIFICATION Spec
CONSTANTS
  Request = {r1, r2, r3}
  Name = {n1, n2}
  Suffix = suffix
  Profiles <- MCProfiles
  None = None
  LieSpace = 3
SYMMETRY Symmetry
INVARIANTS LieTrue OneLie AnswerExact PanicOnlyOverlapped StuckOnlyNested
CHECK_DEADLOCK FALSE
