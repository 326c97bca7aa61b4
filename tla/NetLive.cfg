SPECIFICATION FairSpec
CONSTANTS
  Links = {"ETH", "WIFI", "PPP"}
  Troubles = {"session", "server"}
  QueueLen = 1
INVARIANTS
  PppNotBeside
PROPERTIES
  NetworkFound
  WifiTriedOn4g
