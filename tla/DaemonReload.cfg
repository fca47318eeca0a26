CONSTANTS
  Target = {1, 2}
  Configs <- CopiedConfigs
  Signals = {"SIGHUP"}
  MaxAttempts = 2
  MaxClock = 0
  MaxKills = 1
SPECIFICATION Spec
CHECK_DEADLOCK FALSE
INVARIANTS RunsOneConfig
