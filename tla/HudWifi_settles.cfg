SPECIFICATION NoForgetSpec
CONSTANTS
  NoSsid = NoSsid
  NoPass = NoPass
  a = a
  b = b
  p = p
  Ssids <- MCSsids
  Passwords <- MCNone
  Enterprise <- MCNone
  SiblingOf <- MCNone
  ScanLists <- MCScanLists
  LaunchSets <- MCLaunchAll
PROPERTY HudSettles
