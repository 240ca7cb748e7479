SPECIFICATION FairSpec
CONSTANTS
  ads = ads
  resolver = resolver
  quad9 = quad9
  lan = lan
  index = index
  a = a
  b = b
  bad = bad
  refused = refused
  i1 = i1
  i2 = i2
  i3 = i3
  NoRow = NoRow
  Absent = Absent
  Lists = {}
  Settings <- JustSetting
  Sources = {}
  Upstreams <- JustUpstream
  Zones = {}
  Ids = {i1, i2}
  Vals = {a}
  Good = {a}
  Rejected = {}
  Disabled = {}
  Json = {}
  Named = {}
  PartLists <- OneGood
  Seeds <- SettingSeeds
  Targets <- SettingAndUpstream
  Calls = {c1, c2}
  Capacity = 1
  Faults = {}
PROPERTIES
  SendCompletes
  SettledIsServed
