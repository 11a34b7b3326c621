CONSTANTS
  User = {alice, bob}
  Approver = alice
  Web = {w1, w2}
  Im = {}
  HandOff = {}
  Dispatcher = dispatcher
  MaxPark = 2
  MaxCrash = 0
SPECIFICATION Spec
INVARIANTS WebResumesWhatWasRead
CHECK_DEADLOCK FALSE
