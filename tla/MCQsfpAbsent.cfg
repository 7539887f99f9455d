SPECIFICATION Spec
CONSTANTS
  t1 = t1
  t2 = t2
  own = own
  far = far
  Own = own
  Threads <- MCThreads
  CpldRegs <- MCCpldRegs
  Lanes <- MCLanes
  Modules <- NewModule
  InitPlugged = {}
  Requests <- PresenceRequests
  Disturbances = {}
INVARIANTS
  AbsentIsNotPresent
