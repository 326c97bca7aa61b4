SPECIFICATION Spec
CONSTANTS
  Channels = {"HUM"}
  Zones = {"low", "normal"}
  QueueLen = 2
  MaxCalls = 1
  NotifyMax = 2
  OtherJobs = {"POLL", "TEXT"}
  Numbers = {"others", "none"}
  ConfigChanges = TRUE
  Preempt = TRUE
INVARIANTS
  TypeOK
  JobFlagsLive
  AlarmIsItsChannels
  TextsWithinSchedule
