CONSTANTS
  Msg = {m1, m2, m3}
  Box = {b1}
  PrimaryMsg = {m3}
  EnableQueue = FALSE
  Prepaid = TRUE
  InitialCredit = 1
  RoutingThreads = 2
  MaxGid = 3
  MaxFaults = 1
  NoMsg = NoMsg
  m1 = m1
  m2 = m2
  m3 = m3
  Cost <- CostOne
SPECIFICATION Spec
INVARIANTS
  PaidFor
  OverdraftBounded
CHECK_DEADLOCK FALSE
