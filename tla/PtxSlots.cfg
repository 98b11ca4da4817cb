SPECIFICATION FairSpec
CONSTANTS
  Threads = {1, 2}
  Processes = {1, 2}
  Specs = {a, b}
  None = None
  Modes <- SmallModes
  SpecCap = 1
  PtxCap = 1
  MaxEntries = 1
  MaxCalls = 2
  MaxFaults = 1
PROPERTIES OverCapOnlyInFlight
CHECK_DEADLOCK FALSE
