CONSTANTS
  Hub = {a, b}
  Link = {l1, l2, l3}
  NoLink = NoLink
  MaxEdit = 1
  MaxLoss = 1
  MaxCrash = 1
  Burst = TRUE
SPECIFICATION PeerFairSpec
INVARIANTS PeerTypeOK RegistryIsRight
PROPERTIES PeersMeetUnlessStuck RowTakesEffect
CHECK_DEADLOCK FALSE
