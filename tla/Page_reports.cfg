SPECIFICATION Spec
CONSTANTS
  Pages = {"shardReports"}
  Restarts = FALSE
INVARIANTS
  ShardWithoutMachinesIsShown
