SPECIFICATION Spec
CONSTANTS
  Peer = {a, b}
  Sender = {s1}
  MAX_RETRANSMITS = 2
  RECV_QUEUE_MAX = 1
  MaxChunks = 2
  MaxPings = 1
INVARIANTS
  TypeOK
  ConfirmedIsDelivered
  InOrder
\* both ends may close, or have sent all they will
CHECK_DEADLOCK FALSE
