CONSTANTS
  Size = 5
  Orders = {"byte", "pointer"}
  Rewinds = {TRUE, FALSE}
  MaxBacklog = 4
  MaxBytes = 12
SPECIFICATION Spec
INVARIANTS TypeOK NoneLost
PROPERTY IsQueue
