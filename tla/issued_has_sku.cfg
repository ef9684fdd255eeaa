SPECIFICATION Spec
CONSTANTS
  None = None
  Factories = {}
  SupplySources = {}
  MaxFiles = 1
  Origins = {"PORTAL"}
  Mountings = {FALSE}
  Requests = {r1, r2}
  Restarts = FALSE
  Handlers <- ClosureHandlers
INVARIANT IssuedHasSku
