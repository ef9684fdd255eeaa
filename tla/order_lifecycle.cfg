SPECIFICATION LogSpec
CONSTANTS
  None = None
  Factories = {f1}
  SupplySources = {s1}
  MaxFiles = 1
  Origins = {"RING_BUILDER"}
  Mountings = {FALSE, TRUE}
INVARIANTS
  TypeOK
  ProductionIsIssued
  LogTellsStatus
PROPERTIES
  ReactivationRestores
  CustomerClosureHolds
  ImplementsStages
