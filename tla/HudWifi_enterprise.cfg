SPECIFICATION AwakeSpec
CONSTANTS
  NoSsid = NoSsid
  NoPass = NoPass
  a = a
  b = b
  p = p
  Ssids <- MCSsids
  Passwords <- MCPasswords
  Enterprise <- MCEnterprise
  SiblingOf <- MCNone
  ScanLists <- MCScanLists
  LaunchSets <- MCLaunchAll
INVARIANT EnterpriseNeverTried
