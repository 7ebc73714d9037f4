SPECIFICATION Spec
CONSTANTS
  Jobs = {j1, j2}
  OldJobs = {j2}
  FixedIds = {b}
  Statuses = {reviewed}
  Threads = {t1, t2}
  MaxStarts = 3
  Group <- OneGroup
SYMMETRY ThreadSymmetry
CONSTRAINTS OneJobRepaired MigrationIsLast
INVARIANTS RepairedOnce
PROPERTIES ShownStays MigrationShowsTheSame ReviewsStand
CHECK_DEADLOCK FALSE
