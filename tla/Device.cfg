SPECIFICATION DeviceSpec
CONSTANTS
  Threads = {t1, t2}
  Streams = {s1, s2}
  Blocks = {b1, b2}
  Classes = {1, 2}
  Memory = 3
  MaxPooled = 2
  BucketCap = 1
  MaxSweeps = 2
  ReconcileEvery = 2
  MaxTick = 3
  MaxCalls = 6
  StreamCalls = 4
  Handles = {h1, h2}
  MaxContexts = 2
  Outliving = FALSE
SYMMETRY Symmetry
INVARIANTS
  OneOwner
  NoPrematureReuse
  GivesUpOnlyWhenEmpty
  BindsLive
  HandlesOfOwnContext
  WaitedStreamsLive
