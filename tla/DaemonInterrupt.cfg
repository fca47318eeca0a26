CONSTANTS
  Target = {1}
  Configs <- MCConfigs
  Signals = {"SIGINT"}
  MaxAttempts = 2
  MaxClock = 0
  MaxKills = 1
SPECIFICATION FairSpec
CHECK_DEADLOCK FALSE
PROPERTIES InterruptServed
