SPECIFICATION Spec
CONSTANTS
  m1 = m1
  m2 = m2
  m3 = m3
  m4 = m4
  None = None
INVARIANTS TypesOK
PROPERTIES StreamGoesOn WantedComesBack DashboardCatchesUp
\* messages, crashes and commands are bounded: a component may come to its end
CHECK_DEADLOCK FALSE
