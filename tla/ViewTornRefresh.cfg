SPECIFICATION Spec
CONSTANTS
  Names = {"t", "v"}
  Settings <- Torn
  None = None
  MaxFiles = 6
INVARIANTS
  FreshIsExact
