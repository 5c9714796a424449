\* Two threads in two processes, polling; lock handles may survive a process.
\* One watched file, edited once, and two mishaps;
\* two Desktops, two services, and two events of those that may happen to them.
SPECIFICATION ClientsSpec
CONSTANTS
  desktop = desktop
  watcher = watcher
  mcp = mcp
  d = d
  m = m
  Writer = {desktop, mcp}
  Process = {d, m}
  ProcessOf <- OneAndOne
  NoOne = NoOne
  Stuck = Stuck
  Unverifiable = {}
  HandlesSurvive = TRUE
  Path = {p}
  Unset = Unset
  MaxEdits = 1
  MaxKeys = 4
  MaxMishaps = 2
  Desktop = {"w1", "w2"}
  Runtime = {"r1", "r2"}
  NoOneYet = NoOneYet
  MaxAttempts = 2
  MaxEvents = 2
INVARIANTS
  EachChangeOnce
  ClaimIsKept
PROPERTIES
  GateHolderServed
  
  
  
CHECK_DEADLOCK FALSE
