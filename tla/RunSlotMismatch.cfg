SPECIFICATION FairSpec
CONSTANTS
  Requests = {q1}
  Jobs = {j1}
  Loop = Loop
  None = None
PROPERTIES
  MismatchEndsDaemon
