CONSTANTS
  None = None
  Names = {a, m, v}
  Sessions = {s1, s2}
  TempNames = {m}
  DurableNames = {a, v}
  ViewNames = {v}
  SavepointNames = {p, q}
  MaxEpoch = 3
  MaxSavepoints = 2
SPECIFICATION Spec
SYMMETRY Symmetry
CONSTRAINT Small
INVARIANTS CommittedIsPublished FilesKept NoSharedFile FreshIds
PROPERTIES IsolationSpec AbortedIsInert
