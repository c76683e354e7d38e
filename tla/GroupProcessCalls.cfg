SPECIFICATION FairSpec
CONSTANTS
  Llming = {a}
  Call = {k1, k2}
  Conn = {c1, c2}
  None = None
  MaxCrashes = 1
INVARIANTS
  TypeOK
PROPERTIES
  CallersReleasedOnce
  AtMostOnce
  ServiceResumes
\* the calls, and with a stop everything, come to an end
CHECK_DEADLOCK FALSE
