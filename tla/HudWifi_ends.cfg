SPECIFICATION TypedOnceSpec
CONSTANTS
  NoSsid = NoSsid
  NoPass = NoPass
  a = a
  b = b
  p = p
  Ssids <- MCOneSsid
  Passwords <- MCPasswords
  Enterprise <- MCNone
  SiblingOf <- MCNone
  ScanLists <- MCOneScanList
  LaunchSets <- MCLaunchAll
PROPERTY SessionEnds
