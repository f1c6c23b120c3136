CONSTANTS
  Size = 4
  Orders = {"byte"}
  Rewinds = {FALSE}
  MaxBacklog = 6
  MaxBytes = 12
SPECIFICATION Spec
INVARIANTS NoneLost
