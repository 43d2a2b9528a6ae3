CONSTANTS
  Msg = {m1, m2}
  Box = {b1, b2}
  PrimaryMsg = {}
  EnableQueue = TRUE
  Prepaid = FALSE
  InitialCredit = 0
  RoutingThreads = 2
  MaxGid = 4
  MaxFaults = 1
  NoMsg = NoMsg
  m1 = m1
  m2 = m2
  m3 = m3
  Cost <- CostOne
SPECIFICATION Spec
SYMMETRY Sym
INVARIANTS
  TypeOK
  
  JobHeldOnce
  RowInFlightIsClaimed
  FailedIsNotStored
PROPERTIES
  
  KeptForever
CHECK_DEADLOCK FALSE
