CONSTANTS
  Target = {1}
  Configs <- MCConfigs
  Signals = {"SIGINT", "SIGTERM", "SIGHUP"}
  MaxAttempts = 2
  MaxClock = 1
  MaxKills = 1
SPECIFICATION FairSpec
CHECK_DEADLOCK FALSE
INVARIANTS TypeOK TableFromConfig SuccessWithinBeat RunHasRows TableAgeShown
PROPERTIES SuccessNeverForgotten SignalsServed
