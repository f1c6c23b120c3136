CONSTANTS
  Mains = {m1, m2}
  Terminals = {s1}
  None = None
  Radio = radio
  Threads = {radio}
  MaxSupport = 4
  MainSupport = 2
SYMMETRY DeviceSymmetry
SPECIFICATION Spec
INVARIANTS TypeOK NoPhantomMain ResetKeepsOthers WithinNum
PROPERTIES IsRegistry
CHECK_DEADLOCK TRUE
