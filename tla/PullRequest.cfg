SPECIFICATION Spec
CONSTANTS
  Branches = {"main", "x", "f"}
  Stem = "x"
  MaxRuns = 2
  MaxLate = 1
INVARIANTS
  DecidesAsRalphex
  DoneIsPublished
  PushesWhatWasMade
  RetrySucceeds
