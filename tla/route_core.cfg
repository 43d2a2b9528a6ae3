CONSTANTS
  o1 = o1 o2 = o2 o3 = o3 i1 = i1 x1 = x1
  Req = {o1, o2, o3, i1, x1}
  Account = {"acct", "other"}
  Smsc = {"s1", "s2"}
  Address = {"near", "far"}
  Dir <- MCDir
  Service <- MCService
  SmscId <- MCSmscId
  Receiver <- MCReceiver
  Sender <- MCSender
  NoId = NoId
  NoRoutes = NoRoutes
  Caller = {"c1", "c2"}
  Tables <- MCTables
  MaxVersion = 1
  Scenarios <- MCScenarios
SPECIFICATION FairSpec
INVARIANTS RebuildTakesEffect RoutedAsConfigured OriginKept OutstandingBounded
PROPERTIES Routed
CHECK_DEADLOCK FALSE
