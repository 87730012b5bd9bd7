SPECIFICATION Spec
CONSTANTS
  v1 = v1
  v2 = v2
  v3 = v3
  s1 = s1
  s2 = s2
  s3 = s3
  s4 = s4
  Version <- Versions2
  StartId <- StartIds
  ExclusiveHandoff = FALSE
  ProbeFromLiveProcess = FALSE
  MaxFaults = 2
  MaxJournal = 12
SYMMETRY Symmetry
INVARIANTS
  NeverBricked
  PromotedIsNewIncarnation
PROPERTIES
  ImplementsTxn
