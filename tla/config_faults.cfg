SPECIFICATION Spec
CONSTANTS
  ads = ads
  resolver = resolver
  quad9 = quad9
  lan = lan
  index = index
  a = a
  b = b
  bad = bad
  refused = refused
  i1 = i1
  i2 = i2
  i3 = i3
  NoRow = NoRow
  Absent = Absent
  Lists <- JustList
  Settings <- JustSetting
  Sources <- JustSource
  Upstreams <- JustUpstream
  Zones <- JustZone
  Ids = {i1, i2, i3, i4}
  Vals = {a, b, bad, refused}
  Good = {a}
  Rejected = {refused}
  Disabled = {b}
  Json = {a}
  Named = {a}
  PartLists <- MixedServers
  Seeds <- AllSeeds
  Targets <- JustZone
  Calls = {c1}
  Capacity = 1
  Faults = {"disconnect", "database", "source"}
SYMMETRY MCSymmetry
INVARIANTS
  AppliedWhenQuiet
  
