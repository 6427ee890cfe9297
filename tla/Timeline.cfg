SPECIFICATION FairSpec
CONSTANTS
  MaxChanges = 1
  MaxMarkers = 2
INVARIANTS
  IInv
PROPERTIES
  PlanShown
  PhaseShown
  HungMountEnds
