SPECIFICATION FairSpec
CONSTANTS
  MaxPlays = 2
  MaxForks = 3
  MaxDetach = 1
  UnixProto = TRUE
INVARIANTS NoOrphan KillsOwnChild ToldTheTruth NothingLeft
PROPERTIES CommandEnds
CHECK_DEADLOCK FALSE
