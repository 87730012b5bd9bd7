SPECIFICATION FairSpec
CONSTANTS
  v1 = v1
  v2 = v2
  v3 = v3
  v4 = v4
  Version <- Releasable
  Size <- Sizes
  Wanted = v1
  MaxFaults = 5
INVARIANTS
  TypeOK
  FileMirrorsMemory
  StaleCostsOneAttempt
PROPERTIES
  DownloadSucceeds
