SPECIFICATION Spec
CONSTANTS
  Checks <- SomeChecks
  Optional <- SomeOff
  Asking <- SomeAsk
INVARIANTS FailedChecksAreTold FailedCallsAreTold FindingsSurvive ReportIsTheResult
PROPERTIES KeepsContract
CHECK_DEADLOCK FALSE
