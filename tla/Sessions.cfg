CONSTANTS
  None = None
  Sessions = {s1, s2}
  Levels = {TRUE, FALSE}
  ScheduledViews = TRUE
  Capacity = 1
  MaxJobs = 2
  MaxSwitches = 1
SPECIFICATION FairSpec
INVARIANTS NothingLost CleanStop
PROPERTIES Exclusive Answered Stops SnapshotDropped
CHECK_DEADLOCK FALSE
