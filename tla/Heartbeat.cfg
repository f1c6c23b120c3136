CONSTANTS
  Num = 2
  RetryLimit = 1
  CountLimit = 1
SPECIFICATION Spec
INVARIANTS TypeOK ShownWithController
PROPERTIES OfflineOnlyWhenSilent DeadIsNoticed
