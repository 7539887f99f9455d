SPECIFICATION FairSpec
CONSTANTS
  t1 = t1
  t2 = t2
  Threads <- MCThreads
  P = 4
  Pages = 3
  Width = 40
  PageWidth = 4
  Requests <- MCRequests
  Modules = {"paged", "flat"}
  Disturbances = {"error", "swap", "master"}
INVARIANTS
  TypeOK
  RightBytes
  FullLength
  PageRestored
PROPERTIES
  AccessReturns
