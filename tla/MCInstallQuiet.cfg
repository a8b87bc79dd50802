\* Every operation on two hosts; no crashes, and edits only between runs.
CONSTANTS
  Procs = {p1}
  Hosts = {1, 2}
  Claude = 1
  Paths = {1, 2, 3}
  HostOf <- MCHostOf
  MaxVersion = 2
  a1 = a1
  a2 = a2
  b1 = b1
  c1 = c1
  u1 = u1
  Digests = {a1, a2, b1, c1}
  Ship <- MCShip
  UserContents = {u1}
  Docs <- MCDocs
  EmptyDoc <- MCEmptyDoc
  Wire <- MCWire
  Unwire <- MCUnwire
  HookHealthy <- MCHookHealthy
  HasGate <- MCHasGate
  Own <- MCOwn
  UserDocs <- QuietFiles
  InitialDisks <- UsedDisk
  Ops = {"sync", "uninstall", "restore", "repair", "feature"}
  Absent = Absent
  Torn = Torn
  None = None
  MaxEdits = 1
  MaxCrashes = 0
  MaxBackups = 2
  EditWhileRunning = FALSE
SPECIFICATION Spec
INVARIANT RecordsMatchDisk
PROPERTY UnforcedKeepsModified
PROPERTY OwnSettingsKept
PROPERTY UninstallIsComplete
PROPERTY FeatureSurvives
