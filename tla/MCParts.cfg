\* Six components, one per behaviour: commands on the installation root, reports in
\* the telemetry directory, keys at the terminal; a plan document written line by
\* line, working sessions with their stops, admissions of evidence.
CONSTANTS
  Procs = {p1, p2}
  Fields = {feedback, hosts}
  Values = {on}
  Versions <- MCVersions
  MaxRuns = 2
  MaxFaults = 1
  Nothing = Nothing
  Garbage = Garbage
  Failed = Failed
  Muddled = Muddled
  Writers = {w1, w2}
  Repos = {r1, r2}
  Plans = {q1}
  MaxReports = 2
  MaxCuts = 1
  NoSalt = NoSalt
  Broken = Broken
  Presses <- MCPresses
  MaxPresses = 2
  Ahead <- MCAhead
  Heights = {1, 2, 3}
  Frames <- MCFrames
  Toggles = 1
  Cited <- MCCited
  Runs = {"run-a"}
  DraftLines <- MCLines
  Openings <- MCOpenings
  MaxLines = 7
  SourceFiles = {src, spec}
  Production = {src}
  Docs <- MCDocs
  NoPlan = NoPlan
  MaxStatusEntries = 1
  MaxSteps = 3
  MaxSessions = 2
  Ledgers <- MCLedgers
  Trees = {"a", "b"}
  MaxAdmissions = 2
  MaxChanges = 1
  NoPin = NoPin
SPECIFICATION Spec
INVARIANT StatusTellsTheLastCheck
INVARIANT SummaryCountsReports
INVARIANT OnePseudonym
INVARIANT MapIsForRows
INVARIANT KeysInOrder
INVARIANT ScreenFits
INVARIANT OwedRowsAreReported
INVARIANT OwesNothingIsTrue
INVARIANT GateAndCheckAgree
INVARIANT AdmittedIsObserved
INVARIANT PinsHold
PROPERTY RecordIsOne
PROPERTY OnlyForward
PROPERTY NoLineIsSkipped
PROPERTY NobodyHangs
CHECK_DEADLOCK FALSE
