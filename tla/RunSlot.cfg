SPECIFICATION FairSpec
CONSTANTS
  Requests = {q1, q2}
  Jobs = {j1}
  Loop = Loop
  None = None
INVARIANTS
  IInv
  EveryLeaseAccounted
PROPERTIES
  NoLeaseAfterExit
  NoLeaseAfterMismatch
  KeepsContract
  EveryRequestAnswered
  ShutdownExits
