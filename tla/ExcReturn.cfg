SPECIFICATION Spec
CONSTANTS
  Family = "return in try"
  Programs <- Chosen
  MaxLen = 4
  MaxTries = 4
INVARIANT ThrowReachesInnermost
