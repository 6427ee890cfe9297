SPECIFICATION FairSpec
CONSTANTS
  Chunk = 2
  Capacity = 4
  Attempts = 2
  MaxWrite = 2
  Output = 5
INVARIANTS
  IInv
  FarmLogOrdered
PROPERTIES
  SilentAfterGone
  DrainsInTheEnd
CHECK_DEADLOCK FALSE
