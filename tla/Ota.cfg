CONSTANTS
  v1 = v1
  v2 = v2
  v3 = v3
  Images = {v1, v2, v3}
  Blocks <- MCBlocks
  Cap = 3
  MaxAttempts = 3
  MaxResets = 2
  MayGiveUp = TRUE
  FlashMayFail = TRUE
SPECIFICATION Spec
INVARIANTS TypeOK RebootComplete NeverAhead InPlace
PROPERTIES TransferEnds UpdateEnds
