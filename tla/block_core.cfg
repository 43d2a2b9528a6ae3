CONSTANTS
  c1 = c1 c2 = c2 c3 = c3
  Conn = {c1, c2, c3}
  Ip <- MCIp
  Peers <- MCPeers
  Literals = {}
  Patterns <- MCPatterns
  Answers <- MCAnswers
  AllowIp <- MCAllowIp
  BlockTime = 1
  Attempts = 2
  MaxErrors = 2
  MaxTime = 3
  MaxBindPdu = 1
SPECIFICATION Spec
SYMMETRY Sym
INVARIANTS CountedOnce
PROPERTIES AdmittedIsBelowLimit RejectedHasFailed
CHECK_DEADLOCK FALSE
