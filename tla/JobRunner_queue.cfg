CONSTANTS
  Jobs = {j1, j2, j3, j4, j5}
  NoJob = NoJob
  MaxConcurrency = 2
  HasPsutil = TRUE
  MaxFaults = 0
  MaxRestarts = 1
SPECIFICATION Spec
CONSTRAINT MuteWorkers
PROPERTIES ImplementsExecutor
CHECK_DEADLOCK FALSE
