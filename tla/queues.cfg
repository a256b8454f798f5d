SPECIFICATION FairQueueSpec
CONSTANTS
  Queue = {send_q, internal_q}
  Producer = {p1, p2}
  Entry = {e1, e2}
  NoEntry = NoEntry
  NoMsg = NoMsg
  MaxPush = 2
  MaxFlush = 1
CHECK_DEADLOCK FALSE
INVARIANT QueueTypeOK
INVARIANT EntryHeldOnce
PROPERTY ImplementsFifo
INVARIANT TokenPerMessage
PROPERTY MessagesDelivered
