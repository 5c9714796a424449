\* One analysis at a time against one update, with every fault.
SPECIFICATION Spec
CONSTANTS
  a = a
  u = u
  Worker = Worker
  Service = Service
  Desktop = Desktop
  NoOne = NoOne
  NoKey = NoKey
  Analysis = {a}
  Update = {u}
  Retention = 1
  MaxRevision = 3
  MaxStarts = 2
  MaxJobs = 3
  AnalysesDie = TRUE
  ServiceDies = TRUE
  SavesFail = TRUE
  ReleasesFail = TRUE
INVARIANTS
  ServedIsDurable
  FencedIsQuiet
  
  ConfirmedIsServed
PROPERTIES
  ImplementsLog
CHECK_DEADLOCK FALSE
