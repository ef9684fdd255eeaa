SPECIFICATION Spec
CONSTANTS
  None = None
  ring = ring
  band = band
  cart1 = cart1
  Items = {ring, band}
  Carts = {cart1}
  Content <- MCContent
  Sheets <- MCSheets
  Requests = {r1, r2}
  MaxOrders = 6
  MaxForms = 2
  MaxFailures = 1
  MaxRemovals = 1
INVARIANTS TypeOK
  OneOrderPerItem
  AnsweredCartIsComplete
  UntoldIsLeftBehind
PROPERTY EveryCartIsAnswered
CHECK_DEADLOCK FALSE
