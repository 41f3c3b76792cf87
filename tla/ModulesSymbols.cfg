SPECIFICATION Spec
CONSTANTS
  Files = {1, 2, 3}
  Entry = 1
  Names = {"a", "b"}
  Texts <- SmallTexts
INVARIANT MissingMeansAbsent
