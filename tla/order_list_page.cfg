SPECIFICATION Spec
CONSTANTS
  None = None
  Orders = {a}
  Tabs = {"VPO_ISSUED"}
  MaxPage = 1
  MaxLoads = 3
INVARIANTS
  RowsFollowView
PROPERTIES OnlySecondAnswersHideTicks
  LoadingEnds
