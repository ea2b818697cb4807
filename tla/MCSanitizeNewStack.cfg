SPECIFICATION Spec
CONSTANTS
  NPages = 2
  NElems = 2
  Proc = {P1}
  G = {g1, g2}
  Nil = Nil
  NeedZeroAfterSysUnused = FALSE
  MaxGC = 1
  MaxObj = 1
  MaxFin = 1
INVARIANT NewStackIsClean
CHECK_DEADLOCK FALSE
