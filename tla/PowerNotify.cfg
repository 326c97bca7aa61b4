SPECIFICATION FairSpec
CONSTANTS
  QueueLen = 1
  NotifyMax = 2
  ConfigChanges = TRUE
INVARIANTS
  TypeOK
  CallAfterText
PROPERTIES
  NotedOutageTold
  ReturnSettles
