\* A package that hands on names, one star import at most per module; two
\* desktops and two backend processes, one of which may
\* die; two LIVE service processes that may crash.
SPECIFICATION AnalysisSpec
CONSTANTS
  Sources <- OneStar
  FullOrder <- OneStarOrder
  Initial <- OneStarStart
  Absent = Absent
  Broken = Broken
  Edited <- OneStarEdited
  MaxPending = 1
  MaxFaults = 1
  Desktop = {"d1", "d2"}
  MaxBackends = 2
  MaxAttempts = 2
  MaxBackendFaults = 1
  Service = {s1, s2}
  LocalWriter = {w1}
  NoOne = NoOne
INVARIANTS
  MatchesFull
  EngineIsFaithful
  
PROPERTIES
  ServicesSettle
CHECK_DEADLOCK FALSE
