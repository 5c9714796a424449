\* No fault at all.
SPECIFICATION Spec
CONSTANTS
  a = a
  u = u
  Worker = Worker
  Service = Service
  Desktop = Desktop
  NoOne = NoOne
  NoKey = NoKey
  Analysis = {a}
  Update = {u}
  Retention = 1
  MaxRevision = 3
  MaxStarts = 1
  MaxJobs = 3
  AnalysesDie = FALSE
  ServiceDies = FALSE
  SavesFail = FALSE
  ReleasesFail = FALSE
INVARIANTS
  QueuedUpdatesResume
CHECK_DEADLOCK FALSE
