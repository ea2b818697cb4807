CONSTANTS
  main = main
  s1 = s1
  s2 = s2
  A = A
  B = B
  m1 = m1
  m2 = m2
  pkg = pkg
  Id = {main, s1, s2}
  Main = main
  Type = {A, B}
  Origin <- MCOrigin
  MaxAsync = 2
SPECIFICATION FairSpec
INVARIANTS
  TypeOK
  LookupsAgree
  AsyncInitsDone
PROPERTIES
  PhaseCloses
  SelfIsWrittenOnce
CHECK_DEADLOCK FALSE
