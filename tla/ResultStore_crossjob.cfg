SPECIFICATION Spec
CONSTANTS
  Jobs = {j1, j2}
  OldJobs = {}
  FixedIds = {b}
  Statuses = {reviewed}
  Threads = {}
  MaxStarts = 1
  Group <- GroupPerJob
INVARIANTS RowsAreOwn
CHECK_DEADLOCK FALSE
