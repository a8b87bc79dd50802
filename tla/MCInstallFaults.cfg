\* One process, crashes, and a user who edits at any moment.
CONSTANTS
  Procs = {p1}
  Hosts = {1}
  Claude = 1
  Paths = {1, 2}
  HostOf <- MCHostOf
  MaxVersion = 2
  a1 = a1
  a2 = a2
  b1 = b1
  c1 = c1
  u1 = u1
  Digests = {a1, a2, b1, c1}
  Ship <- MCShip
  UserContents = {u1}
  Docs <- MCDocs
  EmptyDoc <- MCEmptyDoc
  Wire <- MCWire
  Unwire <- MCUnwire
  HookHealthy <- MCHookHealthy
  HasGate <- MCHasGate
  Own <- MCOwn
  UserDocs <- OneFile
  InitialDisks <- UsedDisk
  Ops = {"sync", "uninstall", "restore", "repair"}
  Absent = Absent
  Torn = Torn
  None = None
  MaxEdits = 1
  MaxCrashes = 1
  MaxBackups = 2
  EditWhileRunning = TRUE
SPECIFICATION Spec
INVARIANT TypeOK
PROPERTY OverwritesAreSnapshotted
