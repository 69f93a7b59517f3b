SPECIFICATION CatalogSpec
CONSTANTS
  NodeCount = 2
  ShardCount = 2
  Names = {"s", "t", "u"}
  Columns = {"k", "x"}
  Clients = {c1, c2}
  Statements <- MCStatements
  Modes = {"serial", "racing"}
  MaxStatements = 4
  MaxFaults = 2
  MaxFlips = 1
  MaxOnNames = 4
  MaxRaced = 3
SYMMETRY Symmetry
INVARIANTS
  
  RemovalIsComplete
  FailureIsUndone
  
  ExpansionIsExact
  CatalogMatchesShards
CHECK_DEADLOCK FALSE
