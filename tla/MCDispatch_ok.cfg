CONSTANTS
  Task = {t1, t2}
  Worker = {a, b}
  Able = {a, b}
  Score <- MCScore
  MaxPark = 2
  MaxLeave = 1
SPECIFICATION Spec
INVARIANTS LoadCounts RaceWaits ViewIsTrue
PROPERTIES AnswerStands
CHECK_DEADLOCK FALSE
