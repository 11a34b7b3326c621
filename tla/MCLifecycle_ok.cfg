SPECIFICATION Spec
CONSTANTS
  Admin = {a1, a2}
  Content = {x, y}
  NoDef = NoDef
  MaxRev = 3
  MaxLife = 1
  MaxCrash = 1
  MaxFault = 1
SYMMETRY Symmetry
INVARIANTS RunNeverDrifts NamedIsThere RunnerFollowsState
PROPERTIES RevisionsStand
CHECK_DEADLOCK FALSE
