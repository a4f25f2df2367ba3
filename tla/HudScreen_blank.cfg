SPECIFICATION MCSpec
CONSTANTS
  b1 = b1
  b2 = b2
  Buffers <- MCBuffers
  Frames = 2
  MaxFaults = 1
INVARIANT BlankIsDark
INVARIANT LampShowsPicture
INVARIANT ScreenNotFree
INVARIANT BuffersKept
PROPERTY LampWaits
PROPERTY LampReturns
