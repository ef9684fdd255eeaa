SPECIFICATION Spec
CONSTANTS
  None = None
  Factories = {f1}
  SupplySources = {s1}
  MaxFiles = 1
  Origins = {"PORTAL"}
  Mountings = {TRUE}
  Requests = {r1}
  Restarts = FALSE
  Handlers <- SerialHandlers
INVARIANT TypeOK
PROPERTY SerialIsAtomic
