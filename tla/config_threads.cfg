SPECIFICATION Spec
CONSTANTS
  Call = {c1, c2}
  Field = {dry_run, auto_start}
  Value = {v0, v1}
  Default = v0
  Concurrent = TRUE
  LoadMayFail = FALSE
INVARIANT AnsweredPersists
