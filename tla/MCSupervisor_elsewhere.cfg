SPECIFICATION Spec
SYMMETRY Symmetry
CHECK_DEADLOCK FALSE
CONSTANTS
  None = None
  Quarantiner = Quarantiner
  j1 = j1
  j2 = j2
  o1 = o1
  o2 = o2
  v1 = v1
  v2 = v2
  Job <- Jobs2
  OperationId <- Operations
  Version <- OneVersion
  RecoveryAttempts = 1
PROPERTIES
  OwnedElsewhereIsHeld
