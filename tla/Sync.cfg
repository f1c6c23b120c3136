CONSTANTS
  Num = 3
  Retries = 2
  Pause = 2
  Timeout = 1
  MaxTalk = 2
  MaxRequests = 2
  MaxDisturb = 1
SPECIFICATION Spec
INVARIANTS TypeOK AllAsked
PROPERTIES ChargesAsked SyncEnds
CHECK_DEADLOCK FALSE
