CONSTANTS
  p = p
  r1 = r1
  r2 = r2
  w1 = w1
  w2 = w2
  Nodes = {p, r1, r2}
  Primary = p
  Writes = {w1, w2}
  RF = 3
  AddressMaps = {{p, r1, r2}}
  MaxPending = 1
  DedupCapacity = 1
  Kinds = {"request", "serving", "ok", "statement", "node", "coordinator"}
  MaxFaults = 1
  Slow = {}
SPECIFICATION MCSpec
CHECK_DEADLOCK FALSE
SYMMETRY Symmetry
INVARIANTS AckedIsDurable RepliesAreTrue TailIsTracked
PROPERTY RefinesQuorumStore
