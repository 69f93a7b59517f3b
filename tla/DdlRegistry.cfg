SPECIFICATION MCSpec
CONSTANTS
  NodeCount = 2
  ShardCount = 2
  Names = {"s", "t", "u"}
  Columns = {"k", "x"}
  Clients = {"c1", "c2"}
  Statements <- MCStatements
  Modes = {"racing"}
  MaxStatements = 4
  MaxFaults = 0
  MaxFlips = 0
INVARIANT
  RegistryIsCurrent
CHECK_DEADLOCK FALSE
