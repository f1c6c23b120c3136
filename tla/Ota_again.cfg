CONSTANTS
  v1 = v1
  v2 = v2
  v3 = v3
  Images = {v1, v2}
  Blocks <- MCBlocks
  Cap = 3
  MaxAttempts = 2
  MaxResets = 0
  MayGiveUp = TRUE
  FlashMayFail = FALSE
SPECIFICATION Spec
INVARIANTS AnsweredIsWritten
