SPECIFICATION Spec
CONSTANTS
  Keys = {k1, k2, k3}
  NoKey = NoKey
  Ttls = {0, 3}
  NoTtl = NoTtl
  MinTtl = 1
  MaxTtl = 2
  MaxEntries = 2
  Clients = {c1, c2}
  TicksPerSecond = 2
  MaxTime = 3
SYMMETRY MCSymmetry
INVARIANTS
  SizeBounded
  HitIsFresh
  TtlNotExtended
PROPERTIES
  EvictsSoonestToExpire
