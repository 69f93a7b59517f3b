CONSTANTS
  s1 = s1
  s2 = s2
  Shards = {s1, s2}
  Null = Null
  Refused = Refused
  Waiting = Waiting
  ResultScale = 1
  Decimal128Ceiling = 90
  Decimal256Ceiling = 5000
  WideCeiling = 10000000
  BigintCeiling = 64
SPECIFICATION MCSpec
INVARIANTS
  SubqueriesMeanTheSame
  SetOperationsAreExact
  UsingKeysAreExact
  AggregatesAreExact
CHECK_DEADLOCK FALSE
