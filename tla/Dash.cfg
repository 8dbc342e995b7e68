SPECIFICATION FairSpec
CONSTANTS
  MaxLoaders = 2
  Indices = 3
  MaxPreload = 1
  MaxDetach = 1
INVARIANTS NoStaleCurl FileInOrder
PROPERTIES LoaderStops ClearReturns
CHECK_DEADLOCK FALSE
