SPECIFICATION RunnerSpec
CONSTANTS
  v1 = v1
  v2 = v2
  v3 = v3
  s1 = s1
  s2 = s2
  s3 = s3
  o1 = o1
  o2 = o2
  Version <- Versions2
  StartId <- StartIds
  OperationId <- OneOperation
  LibraryCalls = {"anonymous"}
  ExclusiveHandoff = TRUE
  ProbeFromLiveProcess = TRUE
  MaxFaults = 1
  MaxJournal = 13
SYMMETRY Symmetry
INVARIANTS
  SettledBeforeNewWork
