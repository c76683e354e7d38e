SPECIFICATION Spec
CONSTANTS
  Pid = {p1, p2}
  Conn = {c1, c2}
  Monitor = {m1, m2}
  Lifespan = lifespan
  Version = {v1, v2}
  None = None
  Field = Field
  Leaked = Leaked
  MaxExits = 1
  MaxCrashes = 0
  StartsAwaited = TRUE
  Prompt = FALSE
SYMMETRY Symmetry
INVARIANTS
  TypeOK
  VersionsAgree
\* the bounds on workers, exits and crashes let the system stop
CHECK_DEADLOCK FALSE
