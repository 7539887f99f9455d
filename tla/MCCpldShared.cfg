SPECIFICATION FairSpec
CONSTANTS
  t1 = t1
  t2 = t2
  Threads <- MCThreads
  Initial <- MCInitial
  ErrorBytes <- MCErrorBytes
  Requests <- MCRequests
  Removable = {0}
  Disturbances = {"error", "nomem"}
INVARIANTS
  TypeOK
  LockDiscipline
  NoTransferToGone
  OwnLockSerialises
  SetTakesEffect
PROPERTIES
  AccessReturns
  RemoveEnds
