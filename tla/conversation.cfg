SPECIFICATION Spec
CONSTANTS
  None = None
  staff = staff
  factory = factory
  Users = {staff, factory}
  Tabs = {factory}
  Role <- MCRole
  MaxMessages = 2
  MaxLoads = 2
  MaxDrops = 1
INVARIANTS
  NoDuplicates
  OnlyVisibleShown
  SettledThreadIsComplete
CHECK_DEADLOCK FALSE
