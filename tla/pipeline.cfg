SPECIFICATION FairSpec
CONSTANTS
  NoName = NoName
  Names <- MCNames
  Zones <- MCZones
  Width <- MCWidth
  Pipelines <- MCPipelines
  Clients = {c1}
  MaxReloads = 1
INVARIANTS
  BlockedIsNeverForwarded
  InternalNamesStayInside
  LongestZoneWins
  CountedUnlessBypassed
PROPERTY
  QueriesAreAnswered
