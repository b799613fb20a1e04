SPECIFICATION Spec
CONSTANTS
  Day = 14
  Second = 2
  MinWait = 4
  Latency = 1
  MaxPublish = 2
  Days = 3
  MaxMessages = 2
INVARIANT OneSummaryPerDay
