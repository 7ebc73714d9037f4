CONSTANTS
  Callers = {c1, c2, c3}
  None = None
  Attempts = 2
  Keyed = {c1, c2}
  InJob = {c1, c3}
  MaxBlank = 1
SPECIFICATION Spec
INVARIANTS FailuresAreTold NumericOnce NothingHalf
CHECK_DEADLOCK FALSE
