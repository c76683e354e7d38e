SPECIFICATION Spec
CONSTANTS
  Process = {a, b}
  Doc = {x}
  MaxCount = 1
  MaxCrashes = 1
  None = None
INVARIANTS
  WritesGoThrough
\* every collector may have gone with its process
CHECK_DEADLOCK FALSE
