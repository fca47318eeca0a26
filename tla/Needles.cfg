CONSTANTS
  RpmMax = 100
  TpmMax = 100
  RpdLimit = 100
  FrameTimes = {800, 4200}
  Readings = {0, 30, 70, 95}
  MaxFrames = 4
SPECIFICATION Spec
CHECK_DEADLOCK FALSE
INVARIANTS NeedleStaysBetween
