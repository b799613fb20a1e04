SPECIFICATION Spec
CONSTANTS
  Run = {r1}
  NoRun = NoRun
  PubSub = TRUE
  SerialControl = TRUE
  MaxBackoff = 1
INVARIANT OutageAnnounced
