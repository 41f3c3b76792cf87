SPECIFICATION Spec
CONSTANTS
  Family = "khiti in try"
  Programs <- Chosen
  MaxLen = 3
  MaxTries = 4
INVARIANT FinallyOnce
