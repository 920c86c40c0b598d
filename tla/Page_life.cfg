SPECIFICATION Spec
CONSTANTS
  Pages = {"fleet", "cluster", "shardReports"}
  Restarts = TRUE
INVARIANTS
  TypeOK
  DataAgeIsBounded
PROPERTIES
  WiringIsNotForgotten
  NoFetchBeforeWired
  Heals
