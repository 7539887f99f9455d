SPECIFICATION Spec
CONSTANTS
  m1 = m1
  m2 = m2
  Macs <- OneMac
  MaxQueue = 1
  MultiAuths = {FALSE}
  MacAuths = {"kernel"}
INVARIANTS
  UnlockedHasStation
