\* Crashes and every call that may raise; a bounded journal; deleted logs.
SPECIFICATION DurableSpec
CONSTANTS
  User = {u1, u2}
  NoOne = NoOne
  Files = 3
  Absent = Absent
  Torn = Torn
  Closed = Closed
  MaxTransactions = 3
  Faults = {"write", "replace", "recover", "remove"}
  Saver = {sv, an}
  Service = {sv}
  StoreReader = {r1}
  a = a
  b = b
  x = x
  bad = bad
  Source = {a, b}
  Slice = {x, bad}
  Valid = {x}
  Extraction <- TwoOrOne
  Missing = Missing
  MaxToken = 2
  MaxFaults = 2
  Activity = {k}
  Plain = Plain
  Retention = 2
  Page = 1
  MaxEvents = 5
  MaxServices = 3
  Emitter = {l, c}
  Served = {l}
  Nothing0 = Nothing0
  PendingLimit = 2
  MaxSessions = 2
  MaxEmits = 3
  MaxTroubles = 2
  SourceFile = {a, b}
  Text <- Sources
  Excluded = {}
  Selected = {a}
  MaxKept = 1
  FactKind = {"collisions", "lineage"}
  Raising = {"lineage"}
  Dropped = {"collisions"}
  Release = {1, 2}
  Imports <- TypeOnlyOf
  Schema <- SchemaOf
  IndexWorker = {w1, w2}
  MaxIndexes = 2
  MaxEdits = 1
  MaxHitches = 1
  Module = {1, 2, 3}
  ImportsOf <- HardImports
  Initializers <- PackagesAbove
  ChildrenOf <- NamedChildren
  Evaluated <- WithinLimits
  Decided <- Modelled
  Present <- Exists
  Parses <- Compiles
  FirstText <- AllFirst
  LastText = 3
  MaxTreeEdits = 2
  MaxGenerations = 2
  LineageModule = {1, 2, 3}
  Written <- LineageText
  LastVersion = 3
  Slot = {1, 2, 3, 4, 5}
  RecoveryLimit = 1
  MaxChanges = 3
SYMMETRY UserSymmetry
INVARIANTS
  
  CommittedIsWhatWasSaved
  FeedSkipsNothing
  NumbersContinue
  IndexIsTrue
  
  ModelIsPython
  
PROPERTIES
  
  ImplementsStoreRegister
CHECK_DEADLOCK FALSE
