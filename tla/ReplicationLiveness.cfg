CONSTANTS
  p = p
  r1 = r1
  r2 = r2
  w1 = w1
  Nodes = {p, r1, r2}
  Primary = p
  Writes = {w1}
  RF = 3
  AddressMaps = {{p, r1, r2}, {p, r1}, {r1, r2}}
  MaxPending = 1
  DedupCapacity = 1
  Kinds = {"request", "serving", "ok", "statement", "node", "coordinator"}
  MaxFaults = 3
  Slow = {}
SPECIFICATION FairSpec
INVARIANT DedupHolds
PROPERTIES  EveryWriteIsAnswered
CHECK_DEADLOCK FALSE
