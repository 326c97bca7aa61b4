SPECIFICATION Spec
CONSTANTS
  Links = {"ETH", "WIFI", "PPP"}
  QueueLen = 2
  Troubles = {"portal"}
INVARIANTS
  TypeOK
  PppOnlyAlone
