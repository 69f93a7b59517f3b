SPECIFICATION MCSpec
CONSTANTS
  n1 = n1
  n2 = n2
  n3 = n3
  Null = Null
  Error = Error
  Executors <- SomeExecutors
  Placement <- SomePlacement
  Holders <- SomeHolders
  Jobs <- SomeJobs
  Slots = 2
  MaxCrashes = 1
CHECK_DEADLOCK FALSE
INVARIANTS ReadsAreExact 
PROPERTIES ReadsAreAnswered
