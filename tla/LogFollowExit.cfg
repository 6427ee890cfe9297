SPECIFICATION Spec
CONSTANTS
  Clients = {c1}
  HistoryLines = 2
  Capacity = 2
  Wire = 1
  Output = 2
INVARIANTS
  AttachedLearnsOutcome
