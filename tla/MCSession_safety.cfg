CONSTANTS
  Client = {k1, k2}
  Conn = {c1, c2, c3}
  Task = {t1}
  NoConn = NoConn
  NoClient = NoClient
  MaxMissed = 2
  Slow = {c1}
  Gated = TRUE
  Cuts = {"reset", "silent"}
  MaxCut = 2
  Prompt = FALSE
SPECIFICATION Spec
SYMMETRY Symmetry
INVARIANTS NoStrandedTask RegistryAgrees ApplicationIsLive
CHECK_DEADLOCK FALSE
