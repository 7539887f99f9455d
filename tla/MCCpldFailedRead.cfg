SPECIFICATION Spec
CONSTANTS
  t1 = t1
  t2 = t2
  Threads <- MCThreads
  Initial <- MCInitial
  ErrorBytes <- MCErrorBytes
  Requests <- CpldSet
  Removable = {}
  Disturbances = {"error"}
INVARIANTS
  FailedReadWritesNothing
