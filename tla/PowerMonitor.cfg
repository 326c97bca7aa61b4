SPECIFICATION FairSpec
CONSTANTS
  Debounce = 5
  QueueLen = 2
  MainLostV = 70
  MainRestoreV = 80
  BkPresentV = 60
  BkLowV = 105
  MainVolts = {69, 70, 75, 80, 81}
  BkVolts = {60, 61, 104, 105}
INVARIANTS
  TypeOK
  ToldTheTruth
PROPERTIES
  ImplementsDebounce
  LastingStateDeclared
