SPECIFICATION Spec
CONSTANTS
  Inputs <- AllInputs
  NoValue = NoValue
  CoreKeys = {"cash"}
  Budget = 1
  MaxPower = 2
  MaxFindings = 5
INVARIANTS NothingTwice
PROPERTIES DroppedForOneThatStays BudgetIsFair
CHECK_DEADLOCK FALSE
