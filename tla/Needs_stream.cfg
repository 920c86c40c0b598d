SPECIFICATION StreamSpec
CONSTANTS
  Processes = {"p1", "p2"}
  Cycles = {0, 1, 2}
  Needs <- MCNeeds
  Ledger <- MCLedger
  Clusters = {"", "b"}
  AllClusters = ""
  MaxLimit = 3
  Shards = {"s1", "s2"}
  Limits <- MCLimits
  DefaultLimit = 2
  MaxMoves = 2
INVARIANT TypeOK
PROPERTIES ImplementsNeedsAnswer EveryRequestAnswered
