\* Expected violation: tpp blames the user for its own unfinished write.
CONSTANTS
  Procs = {p1}
  Hosts = {1}
  Claude = 1
  Paths = {1, 2}
  HostOf <- MCHostOf
  MaxVersion = 3
  a1 = a1
  a2 = a2
  b1 = b1
  c1 = c1
  u1 = u1
  Digests = {a1, a2, b1, c1}
  Ship <- MCShip
  UserContents = {u1}
  Docs <- MCDocs
  EmptyDoc <- MCEmptyDoc
  Wire <- MCWire
  Unwire <- MCUnwire
  HookHealthy <- MCHookHealthy
  HasGate <- MCHasGate
  Own <- MCOwn
  UserDocs <- OneFile
  InitialDisks <- UsedDisk
  Ops = {"sync", "uninstall"}
  Absent = Absent
  Torn = Torn
  None = None
  MaxEdits = 0
  MaxCrashes = 1
  MaxBackups = 2
  EditWhileRunning = TRUE
SPECIFICATION Spec
INVARIANT ModifiedIsSomeoneElses
