SPECIFICATION Spec
CONSTANTS
  Market = {m1, m2}
  MaxClk = 4
  MaxInbox = 3
  SubscriptionLimit = 3
  WarnPct = 90
INVARIANT WarningAnnounced
