SPECIFICATION FiguresSpec
CONSTANTS
  Shown = 2
  Ms = 2
  Sec = 4
  DefaultDuration = 12
  MaxDuration = 24
  DefaultStep = 2
  MaxStep = 8
  CardLists = 2
  TopologyLists = 1
  Segments = 3
  RoundedUp <- MCRoundedUp
  Names <- MCNames
  OtherTypes <- MCOtherTypes
  Buckets <- MCBuckets
  Fleets <- MCFleets
  Walks <- MCWalks
  Competitions <- MCCompetitions
  Messages <- MCMessages
  Series <- MCSeries
  Vectors <- MCVectors
  Reporting <- MCReporting
  Coordinators <- MCCoordinators
  Scrapes <- MCScrapes
  Clusters <- MCClusters
  HintLists <- MCHintLists
INVARIANTS WalkIsFaithful VerdictIsFaithful SeriesAreFaithful FinOpsIsConsistent
           CoordViewsAreFaithful ListAndPageAgree
CHECK_DEADLOCK FALSE
