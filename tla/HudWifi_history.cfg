SPECIFICATION HistSpec
CONSTANTS
  NoSsid = NoSsid
  NoPass = NoPass
  a = a
  b = b
  p = p
  Ssids <- MCSsids
  Passwords <- MCPasswords
  Enterprise <- MCNone
  SiblingOf <- MCNone
  ScanLists <- MCScanLists
  LaunchSets <- MCLaunchAll
SYMMETRY MCSymmetry
INVARIANT NoStuckSpinner
INVARIANT ForgottenStaysHidden
PROPERTY JoinedWasThere
