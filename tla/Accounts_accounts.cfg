CONSTANTS
  b1 = b1 b2 = b2 chen = chen yu = yu demo = demo
  home = home alpha = alpha x1 = x1 x2 = x2
  None = None NoSlug = NoSlug
  Browsers = {b1, b2}
  Users = {chen, yu, demo}
  Names <- MCNames
  Ids = {home, alpha}
  FreshIds = {x1, x2}
  Fold <- MCFold
  Slug <- MCSlug
  Renames <- MCRenames
  Current <- MCCurrent
  Legacy = {chen, yu}
  DemoGroups <- MCDemoGroups
  DemoUsers <- MCDemoUsers
  DemoHome <- MCDemoHome
  MaxRequests = 3
SPECIFICATION Spec
INVARIANTS ActsInOwnGroups OneGroupPerName RowsAreSomewhere
PROPERTIES SessionsKeepTheirGroup OneAccountPerPerson
CHECK_DEADLOCK FALSE
SYMMETRY Symmetry
