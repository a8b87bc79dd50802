\* Whether a table inside a code fence is ever read as one.
CONSTANTS
  Cited <- MCCited
  Runs = {}
  DraftLines <- MCLines
  Openings <- MCOpenings
  MaxLines = 6
SPECIFICATION DocSpec
INVARIANT ExamplesAreNotRows
CHECK_DEADLOCK FALSE
