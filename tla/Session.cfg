SPECIFICATION Spec
CONSTANTS
  Shards = {"a", "b", "c"}
  TableOf <- TwoTables
  GroupOf <- TwoGroups
  Plans <- SomePlans
  Names = {"s1", "s2"}
  Kinds = {"block", "savepoint", "insert", "select", "export", "failing", "syntax", "copy", "disconnect"}
  MaxWrites = 3
  MaxSavepoints = 2
INVARIANTS OneFate CommitIsTrue
PROPERTIES FrozenBlockDoesNotGrow RefinesSavepointStack
