SPECIFICATION Spec
CONSTANTS
  None = None
  Orders = {a, b}
  MaxOpened = 3
  MaxPending = 2
  MaxDesigns = 2
INVARIANTS
  OnlyLateAnswersMix
PROPERTIES LoadingEnds
  ButtonsComeBack
CHECK_DEADLOCK FALSE
