SPECIFICATION FairSpec
CONSTANTS
  m1 = m1
  m2 = m2
  Macs <- MCMacs
  MaxQueue = 3
  MultiAuths = {TRUE, FALSE}
  MacAuths = {"off", "kernel", "software"}
INVARIANTS
  TypeOK
  NoTrafficWithoutGrant
  NoForgottenDevice
  AuthorizedIsServed
PROPERTIES
  AcceptKeepsStation
  LossLocks
