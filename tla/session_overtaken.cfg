SPECIFICATION Spec
CONSTANTS
  Run = {r1, r2}
  NoRun = NoRun
  PubSub = FALSE
  SerialControl = FALSE
  MaxBackoff = 1
INVARIANT OneSubscription
SYMMETRY Symmetry
