SPECIFICATION FairSpec
CONSTANTS
  Channels = {"TEMP"}
  Zones = {"normal", "highband", "high"}
  QueueLen = 1
  MaxCalls = 1
  NotifyMax = 2
  OtherJobs = {}
  Numbers = {"first"}
  ConfigChanges = FALSE
  Preempt = FALSE
INVARIANTS
  UntoldAlarmRemembered
PROPERTIES
  LastingAlarmAnnounced
  SettlesDown
