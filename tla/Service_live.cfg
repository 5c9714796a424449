\* No fault but a failing release; graphs of four modules and uses of three artifacts.
SPECIFICATION ServingSpec
CONSTANTS
  a = a
  u = u
  Worker = Worker
  Service = Service
  Desktop = Desktop
  NoOne = NoOne
  NoKey = NoKey
  Analysis = {a}
  Update = {u}
  Retention = 1
  MaxRevision = 2
  MaxStarts = 1
  MaxJobs = 3
  AnalysesDie = FALSE
  ServiceDies = FALSE
  SavesFail = FALSE
  ReleasesFail = TRUE

  
PROPERTIES
  WaitsEnd
  
CHECK_DEADLOCK FALSE
