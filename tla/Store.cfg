CONSTANTS
  Base = 2
  MaxRecords = 2
  Moderate = 70
  Constrained = 30
  Critical = 10
  RoundedDown = {8, 9, 10, 11, 18, 19, 20, 21, 22, 23, 41, 42, 43, 44, 45, 46}
  Horizon = 60
  MinimumSamples = 2
  Answers <- MCAnswers
  Headers <- MCHeaders
  Clock <- MCClock
  MaxRows = 5
  HistoryCap = 4
SPECIFICATION Spec
INVARIANTS HistoryIsNewest TightestQuotaRules UseNeverRelieves EventsInOrder RateNeverNegative
PROPERTIES LatestIsNewest PruneByTime
