SPECIFICATION Spec
CONSTANTS
  Links = {"WIFI", "PPP"}
  Troubles = {}
  QueueLen = 1
PROPERTIES
  DialKeepsUplink
