SPECIFICATION Spec
CONSTANTS
  Leader = Leader
  Members = {m}
  Helpers = {h}
  CompleteTries = 2
INVARIANTS
  NoReaderOutlivesRun
