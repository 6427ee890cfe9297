SPECIFICATION FairSpec
CONSTANTS
  Starts = 3
  Installs = 2
INVARIANTS
  IInv
  InstallTakes
PROPERTIES
  ReachableInTheEnd
