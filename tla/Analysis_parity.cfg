\* Two star imports in one module, a file changes only.
SPECIFICATION EngineSpec
CONSTANTS
  Sources <- TwoStars
  FullOrder <- TwoStarsOrder
  Initial <- TwoStarsStart
  Absent = Absent
  Broken = Broken
  Edited <- TwoStarsEdited
  MaxPending = 1
  MaxFaults = 0
INVARIANT
  UpdatedEqualsAnalysed
CHECK_DEADLOCK FALSE
