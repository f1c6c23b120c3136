CONSTANTS
  radio = radio
  wifi = wifi
  heart = heart
  Producers = {radio, wifi, heart}
  Prio <- MCPrio
  QueuePrio = 9
  Limit = 2
  Size = 5
  MaxMsgs = 5
SPECIFICATION Spec
INVARIANTS TypeOK NoStall SentInOrder
PROPERTIES Drains
