CONSTANTS
  p1 = p1
  p2 = p2
  Setup = {p1, p2}
  Settings <- AllSettings
  Acceptable <- MCAcceptable
  Default <- DefaultSettings
  Initial <- AllSettings
  Answers <- MCAnswers
  BadVariable = "bad"
  MaxSeconds = 1000000000
  Arguments <- MCArguments
  Plain <- MCPlain
SPECIFICATION Spec
SYMMETRY Symmetry
CHECK_DEADLOCK FALSE
INVARIANTS ConfigWhole KeysSurvive ConfiguredKeysResolve SavedSetupStays RunsAgainOnce
PROPERTIES SavedConfigStarts
