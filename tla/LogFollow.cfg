SPECIFICATION FairSpec
CONSTANTS
  Clients = {c1}
  HistoryLines = 2
  Capacity = 2
  Wire = 1
  Output = 5
INVARIANTS
  IInv
  Gapless
  WholeUntilEnd
PROPERTIES
  EndArrives
