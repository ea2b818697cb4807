SPECIFICATION Spec
CONSTANTS
  k1 = k1
  k2 = k2
  k3 = k3
  Plain = Plain
  IdCopy = IdCopy
  Zero = Zero
  Sentinel = Sentinel
  None = None
  Key = {k1, k2, k3}
  Text = {t1}
  Extra = {Plain}
  Place = {p1}
  Epoch = {1, 2}
  EpochBits = 3
  WireBits = 2
  Flags <- NoBuildID
  Revoked <- NoneRevoked
  RevokedUsers <- NoneRevoked
  MaxSignets = 1
INVARIANT DivinedBoots
