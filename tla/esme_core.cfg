CONSTANTS
  Esme = {e1, e2, e3}
  NoEsme = NoEsme
  InThread = {t1, t2}
  OutThread = {o1}
  MaxBinds = 1
  MaxPdu = 1
  MaxBindPdu = 1
  MaxOut = 0
SPECIFICATION Spec
SYMMETRY Sym
INVARIANTS
  ListedIsAlive
  BindsBounded
PROPERTIES
  CleanupLosesOnlyLate
CHECK_DEADLOCK FALSE
