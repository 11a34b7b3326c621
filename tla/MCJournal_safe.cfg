CONSTANTS
  SegmentCap = 2
  KeepLast = 0
  MaxSeq = 5
  MaxCrash = 1
  MaxFault = 1
SPECIFICATION Spec
INVARIANTS LoadedInOrder SeqIssuedOnce CheckpointCovers
PROPERTIES AppendOnlySpec
CHECK_DEADLOCK FALSE
