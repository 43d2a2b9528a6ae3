CONSTANTS
  Msg = {m1, m2}
  Box = {b1}
  PrimaryMsg = {m2}
  EnableQueue = TRUE
  Prepaid = FALSE
  InitialCredit = 0
  RoutingThreads = 2
  MaxGid = 4
  MaxFaults = 2
  NoMsg = NoMsg
  m1 = m1
  m2 = m2
  m3 = m3
  Cost <- CostOne
SPECIFICATION FairSpec
INVARIANTS
  PrimaryStaysStored
  CopiesBounded
PROPERTIES
  Answered
  StoredIsSent
CHECK_DEADLOCK FALSE
