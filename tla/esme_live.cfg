CONSTANTS
  Esme = {e1}
  NoEsme = NoEsme
  InThread = {t1, t2}
  OutThread = {o1}
  MaxBinds = 0
  MaxPdu = 3
  MaxBindPdu = 2
  MaxOut = 1
SPECIFICATION FairSpec
INVARIANTS
  QueuedIsAlive

  
CHECK_DEADLOCK FALSE
