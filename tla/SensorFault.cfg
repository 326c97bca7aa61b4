SPECIFICATION FairSpec
CONSTANTS
  Kinds = {"NTC", "SHT"}
  Reasons = {"open", "short"}
  FaultConfirm = 3
  RestoreConfirm = 2
  QueueLen = 1
  OtherJobs = TRUE
  ConfigChanges = TRUE
INVARIANTS
  TypeOK
  RestoredFollowsFault
  WantedFaultIsConfirmed
  ServerIsTold
PROPERTIES
  ConfirmedByRun
  LastingFaultTold
