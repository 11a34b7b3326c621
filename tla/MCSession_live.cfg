CONSTANTS
  Client = {k1}
  Conn = {c1, c2, c3}
  Task = {t1}
  NoConn = NoConn
  NoClient = NoClient
  MaxMissed = 2
  Slow = {}
  Gated = FALSE
  Cuts = {"reset", "silent"}
  MaxCut = 2
  Prompt = TRUE
SPECIFICATION FairSpec
PROPERTIES CallComesBack ClientComesBack
CHECK_DEADLOCK FALSE
