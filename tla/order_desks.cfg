SPECIFICATION DeskSpec
CONSTANTS
  None = None
  Factories = {f1}
  SupplySources = {s1, s2}
  Creations = s2
  MaxFiles = 1
  Origins = {"RING_BUILDER"}
  Mountings = {FALSE, TRUE}
INVARIANTS
  OffersAreAccepted
  ProductionIsSomeonesWork
PROPERTIES
  ManufacturedHasSupplier
  SelfReactivationIsNarrow
