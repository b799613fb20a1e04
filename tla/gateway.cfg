SPECIFICATION GatewaySpec
CONSTANTS
  Call = {c1}
  Field = {dry_run, auto_start}
  Value = {v0, v1}
  Default = v0
  Concurrent = FALSE
  LoadMayFail = FALSE
  Post = {p1}
  DryRun = dry_run
  AutoStart = auto_start
  Service = {fsu1b, other}
  Self = fsu1b
  Unreadable = Unreadable
INVARIANTS GatewayTypeOK AnsweredPersists AnsweredInForce RepliesMatchCalls
PROPERTIES PauseTakesHold AnsweredPutsGovern LostToOverlapOnly
