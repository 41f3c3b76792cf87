SPECIFICATION Spec
CONSTANTS
  Family = "any"
  Programs <- Chosen
  MaxLen = 4
  MaxTries = 4
INVARIANT TypeOK
INVARIANT MemorySafe
