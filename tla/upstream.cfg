SPECIFICATION FairSpec
CONSTANTS
  c1 = c1
  c2 = c2
  Queries = {c1, c2}
  Groups <- MCGroups
  Servers = {1, 2}
  Wrap = 2
  Conns = {1, 2, 3, 4}
INVARIANTS
  FailsOnlyInTrouble
  TurnsAreEven
PROPERTIES
  QueriesEnd
  ImplementsService
