SPECIFICATION FairGreedySpec
CONSTANTS
  User = {1, 2, 3, 4}
  MaxCents = 3
INVARIANTS
  NeverExceeds
  OnePerPair
  MatchesTransfers
PROPERTIES
  Terminates
CHECK_DEADLOCK FALSE
