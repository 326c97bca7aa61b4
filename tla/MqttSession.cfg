SPECIFICATION FairSpec
CONSTANTS
  Clients = {c1, c2}
  None = None
  Links = {"WIFI", "PPP"}
  Others = {"other"}
  QueueLen = 1
INVARIANTS TypeOK
PROPERTIES ImplementsClientLife MqttTriedAgain StaleReadyEnds
