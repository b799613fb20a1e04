SPECIFICATION FairSpec
CONSTANTS
  Run = {r1, r2}
  NoRun = NoRun
  PubSub = TRUE
  SerialControl = TRUE
  MaxBackoff = 4
INVARIANTS TypeOK OneSession StoppedIsQuiet StatusHonest
PROPERTIES DropsNeverRepeat BackoffEarned KeepsLinkPromise StopTerminates NeverGivesUp StaleIsCut
