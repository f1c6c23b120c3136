CONSTANTS
  queue = queue
  key = key
  Senders = {queue, key}
  Prio <- MCPrio
  MaxSends = 6
SPECIFICATION Spec
INVARIANTS TypeOK RxListens Guarded
PROPERTIES ReceivesAgain
CHECK_DEADLOCK FALSE
