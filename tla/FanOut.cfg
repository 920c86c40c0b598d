\* A tick stands for about 10 s: clustersListPerCallTimeout (30 s) is 3 ticks.
\* The overall timeout is a tick less than twice that, so that a third cluster
\* behind two hung ones runs into it.  A latency of 2 is the 20 s of the comment
\* in handlers_clusters.go, too much for two LISTs; 9 is a hung apiserver.
SPECIFICATION Spec
CONSTANTS
  Clusters = {c1, c2, c3}
  NumLists = 2
  Concurrency = 2
  PerCall = 3
  Overall = 5
  Latencies = {0, 1, 2, 9}
INVARIANTS
  TypeOK
  AnsweredWithinOverall
  HealthyClusterReported
PROPERTIES
  AbandonedRequestStops
  ImplementsAnswer
