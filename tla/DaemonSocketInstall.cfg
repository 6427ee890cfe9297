SPECIFICATION Spec
CONSTANTS
  Starts = 1
  Installs = 1
PROPERTIES
  RefusesWhileRunning
