CONSTANTS
  PollEvery = 1
  KillWait = 1
  BootTime = 2
  BeatEvery = 1
  HeartbeatStale = 3
  JobTimeout = 5
  Margin = 2
  SweepEvery = 2
  MaxLost = 2
SPECIFICATION ClocksSpec
CONSTRAINT WithinHorizon
INVARIANTS SweepSparesSupervised PermitIsReturned AbandonedIsSwept
PROPERTIES BeatingIsNotLost
CHECK_DEADLOCK FALSE
