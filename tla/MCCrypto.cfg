CONSTANTS
  Base = 4
  Limbs = 3
  P = 41
  B = 20
  N = 37
  Gx = 0
  Gy = 15
  ByteBase = 4
  ElemLen = 3
  Chunk = 4
  LenField = 1
  Byte = {0, 128}
  MaxLen = 9
  MaxWrite = 6
  Digests = {0, 1, 36, 37, 63}
  Secrets = {1, 2, 36}
SPECIFICATION Spec
INVARIANTS
  StreamIsWhole
  MontMulIsProduct
  VerifiesECDSA
  PartiesAgree
CHECK_DEADLOCK FALSE
