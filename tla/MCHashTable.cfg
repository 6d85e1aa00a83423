SPECIFICATION HashSpec
CONSTANTS
  buckets = 2
  Keys = {0, 1, 2, 4}
  NULL = NULL
  MAX_BLOCKS = 4
INVARIANTS
  BlocksAreOwnedOnce
  ChainsHoldTheirKeys
PROPERTY ImplementsDictionary
