SPECIFICATION Spec
CONSTANTS
  Family = "error in catch"
  Programs <- Chosen
  MaxLen = 3
  MaxTries = 4
INVARIANT FinallyAlways
