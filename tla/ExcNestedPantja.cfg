SPECIFICATION Spec
CONSTANTS
  Family = "pantja in catch"
  Programs <- Chosen
  MaxLen = 4
  MaxTries = 4
INVARIANT FinallyOnce
