SPECIFICATION Spec
CONSTANTS
  k1 = k1
  k2 = k2
  k3 = k3
  Plain = Plain
  IdCopy = IdCopy
  Zero = Zero
  Sentinel = Sentinel
  None = None
  Key = {k1, k2, k3}
  Text = {t1, t2}
  Extra = {Plain, IdCopy, k1}
  Place = {p1}
  Epoch = {1, 2}
  EpochBits = 3
  WireBits = 2
  Flags <- SomeFlags
  Revoked <- SomeRevoked
  RevokedUsers <- SomeRevokedUsers
  MaxSignets = 1
INVARIANTS
  TypeOK
  BootsIffZeroedAlike
  ReleasedIsSigned
  FamilyLine
