SPECIFICATION Spec
CONSTANTS
  Routes = {"fleetOverview", "fleetActions", "shards", "shardDetail", "shardTrends",
            "finops", "clusterDetail", "topology", "shardReports", "needs"}
  Latencies = {0, 1, 9}
INVARIANTS
  TypeOK
  AllOrWarned
  StatusMeaning
  UnwiredAtOnce
  PrometheusNeverHidesTopology
PROPERTIES
  Answered
