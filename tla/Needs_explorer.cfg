SPECIFICATION ExplorerSpec
CONSTANTS
  Shards <- MCShards
  Ids <- MCIds
  Answers <- MCAnswers
  Topologies <- MCTopologies
  Links <- MCLinks
  MaxClicks = 3
INVARIANTS TypeOK ShowsTheShardNamed
PROPERTIES BadgesLeadBack ChoiceIsKept Settles
