SPECIFICATION Spec
CONSTANTS
  t1 = t1
  t2 = t2
  own = own
  far = far
  Own = own
  Threads <- OneThread
  CpldRegs <- OwnCpldReg
  Lanes <- MCLanes
  Modules <- FaultyModule
  InitPlugged = {own}
  Requests <- FaultRequests
  Disturbances = {}
INVARIANTS
  FaultShownIsFault
