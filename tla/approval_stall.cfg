SPECIFICATION StallSpec
CONSTANTS
  None = None
  Factories = {}
  SupplySources = {}
  MaxFiles = 1
  Origins = {"PORTAL"}
  Mountings = {TRUE}
  Week = 3
  Weekend = {2}
  SurveyAfter = 1
  ReminderAfter = 2
  ArchiveAfter = 2
  MaxAge = 2
  Looked = {"CAD_IN_PROGRESS", "CANCELLED"}
  Skus = {FALSE}
  Nudges = {n1}
PROPERTIES ReopenedHasItsPeriod
  UnansweredIsArchived
  QuietCustomerIsAsked
