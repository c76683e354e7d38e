SPECIFICATION FairSpec
CONSTANTS
  Conn = {t1, t2}
  Req = {r1}
  None = None
  MaxTotal = 2
  MaxCuts = 1
PROPERTIES
  Relayed
\* the requests and the connections come to an end
CHECK_DEADLOCK FALSE
