SPECIFICATION Spec
CONSTANTS
  Names = {"t", "v", "w"}
  Settings <- MixedAndChain
  None = None
  MaxFiles = 6
INVARIANTS
  FreshIsExactUnlessRecreated
  ViewsAreDurable
  ViewHasRows
PROPERTIES OnCommitViewsCaughtUp
