SPECIFICATION AwakeSpec
CONSTANTS
  NoSsid = NoSsid
  NoPass = NoPass
  a = a
  b = b
  p = p
  Ssids <- MCSsids
  Passwords <- MCPasswords
  Enterprise <- MCNone
  SiblingOf <- MCNone
  ScanLists <- MCScanLists
  LaunchSets <- MCLaunchFaulty
SYMMETRY MCSymmetry
INVARIANT JobServesTarget
INVARIANT QueuedJoinIsForTarget
INVARIANT ForgetSpinner
INVARIANT SheetOpenWhileJoining
INVARIANT ForgottenIsNotLive
INVARIANT ConfirmPolls
PROPERTY SessionSpec
