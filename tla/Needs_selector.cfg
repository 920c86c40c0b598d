SPECIFICATION ExplorerSpec
CONSTANTS
  Shards <- MCShards
  Ids <- MCIds
  Answers <- MCAnswers
  Topologies <- MCTopologies
  Links <- MCPlainLink
  MaxClicks = 1
INVARIANT SelectorTellsTheScope
