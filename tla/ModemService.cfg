SPECIFICATION FairSpec
CONSTANTS
  Dialers = {"net"}
  EventLen = 1
  InboxSize = 2
  MeSize = 1
  ListSize = 1
INVARIANTS
  TypeOK
  IpReadyEnds
  EarlyLossNeverTwice
PROPERTIES
  SessionEnds
  FullInboxRead
