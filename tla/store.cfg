SPECIFICATION FairSpec
CONSTANTS
  Rest = {a}
  Stream = {s}
  Keeper = {k}
  MaxLogins = 2
  MaxStops = 2
INVARIANTS TypeOK RefreshIsFresh AgeIsTheTokens OneLogin
PROPERTIES TokensGoForward TokensOfOneLine StaysStopped CallsReturn
