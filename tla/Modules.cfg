SPECIFICATION CompilerSpec
CONSTANTS
  Files = {1, 2, 3}
  Entry = 1
  Names = {"a", "b"}
  Texts <- CompilerTexts
  CommandLines <- SomeCommandLines
INVARIANT RecursionBounded
INVARIANT MergedOnce
INVARIANT CycleReported
INVARIANT ImportsFirst
INVARIANT NothingLost
INVARIANT ExitIsHonest
PROPERTY Exits
