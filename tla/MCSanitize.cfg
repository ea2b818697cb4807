SPECIFICATION Spec
CONSTANTS
  NPages = 2
  NElems = 2
  Proc = {P1}
  G = {g1}
  Nil = Nil
  NeedZeroAfterSysUnused = FALSE
  MaxGC = 2
  MaxObj = 2
  MaxFin = 1
INVARIANTS TypeOK FreedIsClean NeedzeroIsHonest
PROPERTY ReachableKeepsBytes
CHECK_DEADLOCK FALSE
