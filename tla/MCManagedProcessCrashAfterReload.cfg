SPECIFICATION FairSpec
CONSTANTS
  Pid = {p1, p2, p3}
  Conn = {c1, c2}
  Monitor = {m1, m2, m3}
  Lifespan = lifespan
  Version = {v1}
  None = None
  Field = Field
  Leaked = Leaked
  MaxExits = 1
  MaxCrashes = 1
  StartsAwaited = TRUE
  Prompt = TRUE
PROPERTIES
  AlwaysServed
\* the bounds on workers, exits and crashes let the system stop
CHECK_DEADLOCK FALSE
