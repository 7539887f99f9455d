SPECIFICATION Spec
CONSTANTS
  t1 = t1
  t2 = t2
  Threads <- OneThread
  P = 4
  Pages = 3
  Width = 40
  PageWidth = 4
  Requests <- LongRead
  Modules = {"paged"}
  Disturbances = {"error"}
INVARIANTS
  LegalLength
