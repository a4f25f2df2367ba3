SPECIFICATION MCSpec
CHECK_DEADLOCK FALSE
CONSTANTS
  IlimMax = 2
  IlimTable <- MCIlimTable
  BattMax = 2000
  Targets <- MCTargets
  OtgRetries = 2
INVARIANT ChargeCurrentAllowed
INVARIANT ReportedLimit
INVARIANT ForcedLimitAlone
INVARIANT ConfigKept
INVARIANT ExtconFollows
PROPERTY LcEntered
PROPERTY VbusRecovers
