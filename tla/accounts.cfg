SPECIFICATION Spec
CONSTANTS
  None = None
  Customers = {u1, u2, u3}
  Companies = {c1, c2, c3}
  Orders = {o1}
  Reps = {r1, r2}
SYMMETRY Symmetry
INVARIANTS TypeOK
  MembersHaveCompany
  OrdersFollowTheirCustomer
  RepFindsOrders
PROPERTY OnlyResolutionDrifts
CHECK_DEADLOCK FALSE
