\* Three threads at the writer lease, one of them without a readable identity; two of each
\* other process, and one call that raises or process that dies in each component;
\* two import cycles and one other error.
SPECIFICATION HostsSpec
CONSTANTS
  desktop = desktop
  watcher = watcher
  mcp = mcp
  d = d
  m = m
  Writer = {desktop, watcher, mcp}
  Process = {d, m}
  ProcessOf <- TwoAndOne
  NoOne = NoOne
  Stuck = Stuck
  Unverifiable = {m}
  HandlesSurvive = TRUE
  PoolThread = {"t1", "t2"}
  PoolKey = {"indexer"}
  Scope = {"mcp", "none"}
  MaxPools = 2
  MaxScopes = 1
  MaxSweeps = 1
  Server = {"s1", "s2"}
  Host = {"s1"}
  Asker = {"a"}
  MaxJobs = 2
  MaxStarts = 2
  MaxRefusals = 1
  server1 = server1
  server2 = server2
  Mcp = {server1, server2}
  MaxCommits = 3
  MaxServices = 2
  MaxTroubles = 1
  c1 = c1
  c2 = c2
  i1 = i1
  Cycle = {c1, c2}
  Component <- ComponentOf
  FirstFacts <- FirstGenerations
  Sources <- DiagnosedSources
  JournalLimit = 1
  MaxRevision = 3
  MaxRestarts = 1
SYMMETRY Alike
INVARIANTS
  NoLockLeaks
  
  EnginesFollowService
  WarningsAreTrue
PROPERTIES
  
  ImplementsOrder
  
CHECK_DEADLOCK FALSE
