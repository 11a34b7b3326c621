CONSTANTS
  Task = {t1, t2}
  Pass = {p1, p2}
  Worker = {w1}
  NoTask = NoTask
  ClaimTtl = 1
  ResumeMax = 1
  MaxPark = 2
  MaxCrash = 1
SPECIFICATION MCSpec
INVARIANTS ClaimIsExclusive NotForgotten
PROPERTIES EntersStoredPark WakesWhenDue LeaseSpec DueParkIsServed
CHECK_DEADLOCK FALSE
