SPECIFICATION SharedSpec
CONSTANTS
  Deps = {1}
  Requirements <- SomeRequirements
  Versions <- SomeVersions
  Resolved <- SomeResolved
  Procs = {p1, p2}
  Commands <- MeetingCommands
  MaxCommands = 2
  MaxEdits = 1
SYMMETRY Symmetry
INVARIANT VerifiedLockIsWhole
PROPERTY FrozenKeepsProject
CHECK_DEADLOCK FALSE
