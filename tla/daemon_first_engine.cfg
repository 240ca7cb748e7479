SPECIFICATION MCSpec
CHECK_DEADLOCK FALSE
CONSTANTS
  p1 = p1
  p2 = p2
  Nobody = Nobody
  Procs = {p1, p2}
  Yaml <- MCYaml
  Capacity = 2
  MaxStarts = 3
  MaxEdits = 1
INVARIANTS
  OpsReachQueries
