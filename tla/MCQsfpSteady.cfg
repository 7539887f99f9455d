SPECIFICATION Spec
CONSTANTS
  t1 = t1
  t2 = t2
  own = own
  far = far
  Own = own
  Threads <- MCThreads
  CpldRegs <- MCCpldRegs
  Lanes <- MCLanes
  Modules <- NewModule
  InitPlugged = {own}
  Requests <- SteadyRequests
  Disturbances = {"flicker"}
INVARIANTS
  TypeOK
  CacheAgrees
PROPERTIES
  OtherLanesKept
  SetTakesEffect
