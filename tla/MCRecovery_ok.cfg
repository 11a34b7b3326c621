SPECIFICATION FairSpec
CONSTANTS
  Steps = 2
  ChildId = {1, 2, 3, 4, 5}
  NoChild = 0
  MaxItems = 2
  MaxCrash = 2
INVARIANTS NotStranded RerunsAreBounded
PROPERTIES  RunRowIsLease
CHECK_DEADLOCK FALSE
