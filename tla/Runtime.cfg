SPECIFICATION Spec
CONSTANTS
  Arrays = {1, 2}
  Maps = {1}
  Keys = {"a", "b"}
  Values = {0, 1}
  Sizes <- SizesAskedFor
  Junk = Junk
  MaxCalls = 5
  MaxDepth = 1
  MaxOutages = 1
  Statements <- SmallStatements
  Width = 2
  Colors = {1}
  MaxUser = 3
  MaxOpens = 2
  MaxTexts = 1
  MaxTyped = 3
  Requests <- SmallRequests
  WordLetters = {"a", "0", "1"}
INVARIANT WithinBlocks
INVARIANT RoundsInOrder
INVARIANT RightWhenDisciplined
INVARIANT StackKept
INVARIANT KeysFollow
INVARIANT LeftAsFound
INVARIANT ShowsWhatWasDrawn
INVARIANT TerminalKept
INVARIANT TextsRight
PROPERTY KeepsPromise
CHECK_DEADLOCK FALSE
