SPECIFICATION FairSpec
CONSTANTS
  Family = "structured"
  Programs <- Chosen
  MaxLen = 6
  MaxTries = 3
INVARIANT NestingMirrored
INVARIANT FinallyAlways
INVARIANT FinallyOnce
INVARIANT NeverUndefined
INVARIANT ThrowReachesInnermost
PROPERTY ImplementsLanguage
PROPERTY EveryThrowLands
