CONSTANTS
  Jobs = {j1, j2}
  NoJob = NoJob
  MaxConcurrency = 1
  HasPsutil = FALSE
  MaxFaults = 2
  MaxRestarts = 1
SPECIFICATION FairSpec
INVARIANTS RunningSlotHonest
PROPERTIES EveryJobSettles PermitsComeBack
CHECK_DEADLOCK FALSE
