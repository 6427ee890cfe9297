SPECIFICATION FairSpec
CONSTANTS
  Leader = Leader
  Members = {m}
  Helpers = {h}
  CompleteTries = 2
INVARIANTS
  TypeOK
  NothingStoppedRunsOn
  TruthfulRecord
  EndAgrees
  FailureMarked
  NothingLeftBehind
PROPERTIES
  AbandonedPullRequest
  RunIsEnded
