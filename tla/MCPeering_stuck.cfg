CONSTANTS
  Hub = {a, b}
  Link = {l1, l2, l3}
  NoLink = NoLink
  MaxEdit = 1
  MaxLoss = 0
  MaxCrash = 0
  Burst = FALSE
SPECIFICATION PeerFairSpec
PROPERTIES PeersMeet
CHECK_DEADLOCK FALSE
