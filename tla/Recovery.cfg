SPECIFICATION FairSpec
CONSTANT
  Links = {"ETH", "WIFI", "PPP"}
INVARIANTS
  TypeOK
  DeferredRebootForgotten
PROPERTIES
  ServerLossEnds
  WifiStuckEnds
