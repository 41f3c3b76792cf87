SPECIFICATION ProjectSpec
CONSTANTS
  Deps = {1, 2}
  Requirements <- SomeRequirements
  Versions <- SomeVersions
  Resolved <- SomeResolved
  Procs = {p1}
  Commands <- AllCommands
  MaxCommands = 2
  MaxEdits = 1
  MaxPart = 3
  RequirementTexts <- SmallRequirementTexts
INVARIANT TypeOK
INVARIANT SuccessMeansLocked
INVARIANT SyncMends
INVARIANT CompilesWhole
INVARIANT DoctorFindsAll
INVARIANT AddIsExact
INVARIANT LeastOrNone
CHECK_DEADLOCK FALSE
