SPECIFICATION Spec
CONSTANTS
  p1 = p1
  p2 = p2
  Procs = {p1, p2}
  Outputs = {"app", "game"}
  Units <- SomeUnits
  Including = {"runtime"}
  Commands <- SomeCommands
  MaxRuns = 2
  MaxEdits = 1
INVARIANT SuccessIsFresh
INVARIANT NothingLeftBehind
PROPERTY TimeoutEnds
CHECK_DEADLOCK FALSE
