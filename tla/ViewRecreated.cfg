SPECIFICATION Spec
CONSTANTS
  Names = {"t", "v"}
  Settings <- Recreated
  None = None
  MaxFiles = 6
INVARIANTS
  FreshIsExact
