CONSTANTS
  p1 = p1
  p2 = p2
  Proc <- MCProc
  Slots = 3
  MaxKeys = 2
  MaxFaults = 2
  Empty = Empty
  SRK = SRK
  None = None
  Err = Err
  Done = Done
SPECIFICATION FairSpec
INVARIANTS
  TypeOK
  SlotsAccounted
  CachedSRKIsValid
PROPERTIES
  ImplementsHardwareKey
  CallsReturn
