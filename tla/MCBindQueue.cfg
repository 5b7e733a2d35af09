\* Three sessions for one given port, the operating system failing now and then.
SPECIFICATION Spec
CONSTANTS
  Client = {c1, c2, c3}
  Queue = {q1, q2, q3, q4}
  None = None
  FixedPort = TRUE
  OsMayFail = TRUE
SYMMETRY Symmetry
INVARIANTS
  OneHandoff
  ListeningIsHeld
  BatonInFlight
  NoLeak
  RefusedOnlyAfterStray
