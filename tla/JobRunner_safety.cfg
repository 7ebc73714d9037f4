CONSTANTS
  Jobs = {j1, j2, j3}
  NoJob = NoJob
  MaxConcurrency = 2
  HasPsutil = TRUE
  MaxFaults = 1
  MaxRestarts = 1
SPECIFICATION Spec
CONSTRAINT OneMishap
SYMMETRY JobSymmetry
INVARIANTS PermitsConserved QueueIsLine NoLeakedWorker OverIsSettled RowFollowsWorker
PROPERTIES FailedIsFinal ResultIsFinal
CHECK_DEADLOCK FALSE
