SPECIFICATION MCSpec
CHECK_DEADLOCK FALSE
CONSTANTS
  IlimMax = 2
  IlimTable <- MCIlimTable
  BattMax = 2000
  Targets <- MCTargets
  OtgRetries = 2
INVARIANT ForcedLimit
