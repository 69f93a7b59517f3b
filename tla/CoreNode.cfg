SPECIFICATION MCSpec
CONSTANTS
  Calls <- SomeCalls
  Ids = {"a", "b"}
  NoId = "none"
  IdOf <- SomeIdOf
  Atomic <- SomeAtomic
  Size <- SomeSize
  Malformed <- SomeMalformed
  QueueCapacity = 2
  DedupCapacity = 1
  MaxCalls = 3
  MaxCancels = 1
  MaxCrashes = 1
CHECK_DEADLOCK FALSE
INVARIANTS  QueueOrder NobodyIsStuck
