SPECIFICATION MCSpec
CONSTANTS
  c1 = c1
  c2 = c2
  Callers <- MCCallers
  MaxChannel = 1
  Slaves <- MCSlaves
  ByteSize = 2
  BuffSize = 2
  BlockSize = 2
  Accesses <- MCAccesses
INVARIANTS
  TypeOK
  OneOwner
  NoOrphanCommand
  CleanHandover
  SuccessMeansTransferred
PROPERTIES
  OnlyOwnerWrites
  ImplementsSlaveAccess
  CallReturns
