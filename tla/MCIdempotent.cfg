CONSTANTS
  p1 = p1
  p2 = p2
  p3 = p3
  p4 = p4
  main = main
  first = first
  second = second
  x = x
  y = y
  i1 = i1
  MainP = p1
  None = None
  Fin = Fin
  Id <- MCId
  Addr <- MCAddr
  AddrOf <- MCAddrOf
  P <- MCP
  IdentOf <- MCIdentOf
  Idem = {i1}
  MaxOnce = 3
SPECIFICATION FairSpec
INVARIANTS
  TypeOK
  SlotHasOwner
  NoLockCycle
PROPERTIES
  DoReturns
  DoIsOncePerIdentity
CHECK_DEADLOCK FALSE
