\* Four Initials; every packet may be lost, repeated, or arrive in any order.  Two
\* connections whose numbers are encoded modulo four, and holds of four datagrams.
SPECIFICATION MCSpec
CONSTANTS
  MaxInitials = 4
  Connection = {c1, c2}
  Nobody = Nobody
  Length = 2
  Hellos <- MCHellos
  Window = 4
  MaxNumber = 5
  MaxSize = 4
INVARIANTS WireUnique AckSound RemapExact ReleasedWhole GivenUpOnlyFar
CHECK_DEADLOCK FALSE
