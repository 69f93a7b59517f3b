SPECIFICATION FairSpec
CONSTANTS
  Nodes = {n1}
  Addrs = {a1, a2}
  Timeout = 6
  Interval = 1
  MaxFaults = 3
INVARIANT TimelyStaysAlive
PROPERTY CatalogFollowsNodes
