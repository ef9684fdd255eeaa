SPECIFICATION LogSpec
CONSTANTS
  None = None
  Factories = {}
  SupplySources = {}
  MaxFiles = 2
  Origins = {"PORTAL"}
  Mountings = {FALSE}
INVARIANTS
  SentOrdersHaveClock
  ApprovedStageHasApproval
PROPERTIES
  OnlyDecisionsReopenDesign
