CONSTANTS
  g1 = g1
  g2 = g2
  g3 = g3
  m0g0 = m0g0
  m1g0 = m1g0
  a1 = a1
  a2 = a2
  sync = sync
  G = {g1, g2, g3}
  MainG = g1
  G0 = m0g0
  OtherG0 = {m1g0}
  Addr = {a1, a2}
  Hook = {sync}
  Nil = Nil
  MaxMint = 3
SPECIFICATION FairSpec
INVARIANTS
  TypeOK
  KeysAreCurrent
  FinalizerNotLost
  MainBlockPinned
  WholeProvenance
  InstanceMatchesBlock
PROPERTIES
  ProvenanceFixed
  EntriesEvicted
CHECK_DEADLOCK FALSE
