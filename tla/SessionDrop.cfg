CONSTANTS
  None = None
  Sessions = {s1, s2}
  Levels = {TRUE}
  ScheduledViews = FALSE
  Capacity = 1
  MaxJobs = 2
  MaxSwitches = 0
SPECIFICATION FairSpec
PROPERTY DroppedRolledBack
CHECK_DEADLOCK FALSE
