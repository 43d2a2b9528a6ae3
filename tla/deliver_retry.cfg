CONSTANTS
  d1 = d1 d2 = d2 d3 = d3 d4 = d4 d5 = d5 d6 = d6 m1 = m1 m2 = m2 m3 = m3 r1 = r1
  Dlr = {d1}
  Mo = {m3}
  TableDlr = {r1}
  NoAccount = {}
  Unconvertible = {}
  Parts <- MCParts
  Esme = {"e1"}
  NoMsg = NoMsg
  NoEsme = NoEsme
  Scenarios <- MCLiveScenarios
  MaxGid = 2
  MaxPid = 2
  MaxCopies = 2
SPECIFICATION Spec
PROPERTIES RequeuedAsSpace
