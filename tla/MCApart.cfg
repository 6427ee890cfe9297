SPECIFICATION Spec
CONSTANTS
  MaxChunk = 3
  MaxFed = 7
  CLAIM_TIMEOUT = 4
  VALIDATE_TIMEOUT = 3
  REQUEST_TIMEOUT = 2
  WATCH_START_TIMEOUT = 1
  STOP_GRACE = 1
  LOG_CLOSE_TIMEOUT = 1
  PROGRESS_POST_TIMEOUT = 1
  PR_STEP_TIMEOUT = 1
  COMPLETE_BUDGET = 3
  RETRY_MAX_DELAY = 1
  OUTPUT_REMOVE_TIMEOUT = 1
  DrainTimeouts = {1, 3}
  TitleLimit = 3
  BodyCharLimit = 2
  BodyByteLimit = 3
  ReadLimit = 7
  MaxText = 5
  MaxPlan = 5
  MaxDescription = 6
INVARIANTS
  NothingLost
  ViewsAsWritten
  EscapesGone
  PlanAsWritten
  DescriptionAsWritten
  WithinExitTimeOut
