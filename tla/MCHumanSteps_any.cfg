CONSTANTS
  Human = {a, b, c}
  Agent = {g}
  Trigger = trigger
SPECIFICATION FairSpec
INVARIANTS RunDrivenOnce NoAnswerNoProgress
PROPERTIES RunRowIsLease OrderlyRunEnds
CHECK_DEADLOCK FALSE
