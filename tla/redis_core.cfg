CONSTANTS
  o1 = o1 t1 = t1 r1 = r1 r2 = r2 d1 = d1 acctA = acctA acctB = acctB
  Mo = {o1}
  Mt = {t1}
  Report = {r1, r2}
  TableDlr = {d1}
  Account = {acctA, acctB}
  AccountOf <- MCAccountOf
  NoMsg = NoMsg
  NoAccount = NoAccount
  Scenarios <- MCScenarios
  Batch = 2
  MaxEmpty = 2
SPECIFICATION FairSpec
INVARIANTS  WaitingIsPolled
PROPERTIES PassEnds
