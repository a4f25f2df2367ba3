SPECIFICATION MCSpec
CHECK_DEADLOCK FALSE
CONSTANTS
  ShortMax = 2
  OvpMax = 3
  MaxDepth = 4
  MaxShorts = 5
INVARIANT IrqBalanced
INVARIANT LampFollowsAlone
INVARIANT Protected
PROPERTY DisabledForever
PROPERTY NoDeadlock
