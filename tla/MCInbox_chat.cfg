CONSTANTS
  User = {alice, bob}
  Approver = alice
  Web = {w1}
  Im = {m1, m2}
  HandOff = {h1}
  Dispatcher = dispatcher
  MaxPark = 3
  MaxCrash = 1
SPECIFICATION Spec
INVARIANTS TaskDrivenOnce ParkingResumedOnce ImResumesWhatWasShown PendingIsParked
PROPERTIES ActsOnOwnItem
CHECK_DEADLOCK FALSE
