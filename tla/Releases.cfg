SPECIFICATION RSpec
CONSTANTS
  Sessions  = {"s1", "s2", "s3"}
  Releases  = {"reth-v1.4.8", "op-reth-v1.3.12"}
  Parts     = 2
  MaxStarts = 4
INVARIANTS RunsWhole CachedRuns
