\* Two processes on one file, and a user who edits at any moment.
CONSTANTS
  Procs = {p1, p2}
  Hosts = {1}
  Claude = 0
  Paths = {1}
  HostOf <- MCHostOf
  MaxVersion = 1
  a1 = a1
  a2 = a2
  b1 = b1
  c1 = c1
  u1 = u1
  Digests = {a1, a2, b1, c1}
  Ship <- MCShip
  UserContents = {u1}
  Docs <- MCDocs
  EmptyDoc <- MCEmptyDoc
  Wire <- MCWire
  Unwire <- MCUnwire
  HookHealthy <- MCHookHealthy
  HasGate <- MCHasGate
  Own <- MCOwn
  UserDocs <- OneFile
  InitialDisks <- UsedDisk
  Ops = {"sync", "uninstall", "restore"}
  Absent = Absent
  Torn = Torn
  None = None
  MaxEdits = 1
  MaxCrashes = 0
  MaxBackups = 2
  EditWhileRunning = TRUE
SPECIFICATION Spec
SYMMETRY Processes
INVARIANT Custody
PROPERTY OverwritesAreSnapshotted
PROPERTY SnapshotsAreKept
