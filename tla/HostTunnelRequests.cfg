SPECIFICATION FairSpec
CONSTANTS
  Conn = {t1, t2}
  Req = {r1, r2}
  None = None
  MaxTotal = 2
  MaxCuts = 1
INVARIANTS
  TypeOK
  OnlineIsLive
  StrandedWasNeverSent
  WholeAnswers
PROPERTIES
  AtMostOnce
  ToldOnceDone
\* the requests and the connections come to an end
CHECK_DEADLOCK FALSE
