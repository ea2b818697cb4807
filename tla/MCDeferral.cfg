CONSTANTS
  s1 = s1
  x1 = x1
  x2 = x2
  Proc = Proc
  None = None
  MaxCleanups = 3
  Spark <- MCSpark
  Exiter <- MCExiter
SPECIFICATION FairSpec
INVARIANTS
  TypeOK
  CleanedUpAtExit
  CleanedUpAtSparkExit
PROPERTIES
  LastRegisteredFirst
  ExitHappens
CHECK_DEADLOCK FALSE
