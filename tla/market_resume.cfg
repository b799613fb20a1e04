SPECIFICATION Spec
CONSTANTS
  Market = {m1, m2}
  MaxClk = 5
  MaxInbox = 3
  SubscriptionLimit = 3
  WarnPct = 90
INVARIANTS TypeOK CursorCovered DefinitionKnown CaughtUp
PROPERTY OnlyImagesMissClosures
