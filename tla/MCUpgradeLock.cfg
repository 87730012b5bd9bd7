SPECIFICATION FairSpec
CONSTANTS
  p1 = p1
  p2 = p2
  p3 = p3
  h1 = h1
  h2 = h2
  h3 = h3
  h4 = h4
  Pid <- Pids
  Handle <- Handles4
  PidOf <- TwoCallsOfOne
  Faulty <- FaultyCalls
INVARIANTS
  TypeOK
  MutualExclusion
  OwnerUndisturbed
PROPERTIES
  StaleOwnersNeverBlock
