\* Two sessions for port 0, under the fairness of the Go scheduler.
SPECIFICATION FairSpec
CONSTANTS
  Client = {c1, c2}
  Queue = {q1, q2, q3}
  None = None
  FixedPort = FALSE
  OsMayFail = TRUE
PROPERTIES
  WaiterServed
  ClosedClientLeaves
