SPECIFICATION Spec
CONSTANTS
  Shards = {"a", "b", "c"}
  TableOf <- TwoTables
  GroupOf <- TwoGroups
  Plans <- SomePlans
  Names = {"s1", "s2"}
  Kinds = {"block", "savepoint", "insert", "failing", "copy"}
  MaxWrites = 3
  MaxSavepoints = 2
PROPERTY FailedBlockShipsNothing
