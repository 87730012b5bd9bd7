SPECIFICATION FairSpec
CONSTANTS
  None = None
  c1 = c1
  c2 = c2
  c3 = c3
  Controller <- Controllers
  MaxFaults = 3
  UnreceiptedCalls = FALSE
INVARIANTS
  TypeOK
  FencedIsAlone
PROPERTIES
  ImplementsHostCalls
  FenceIsPassed
