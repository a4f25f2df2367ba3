SPECIFICATION MCSpec
CONSTANTS
  Clients = {"panel", "reader"}
  Panel = "panel"
  MaxDepth = 2
INVARIANT IrqFollowsPower
INVARIANT HeldWhileUsed
INVARIANT OkMeansSent
INVARIANT SentMeansOk
INVARIANT ControllerFollows
