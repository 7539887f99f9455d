SPECIFICATION FairSpec
CONSTANTS
  t1 = t1
  t2 = t2
  own = own
  far = far
  Own = own
  Threads <- MCThreads
  CpldRegs <- MCCpldRegs
  Lanes <- MCLanes
  Modules <- NewModule
  InitPlugged = {own}
  Requests <- FaultyRequests
  Disturbances = {"swap", "cpld_error", "eeprom_error"}
INVARIANTS
  LockDiscipline
  NoHalfCache
  PresenceHonest
PROPERTIES
  SetTakesEffect
  AccessReturns
  
