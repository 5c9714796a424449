\* Three service processes, one local writer; crashes and failing writes.
SPECIFICATION Spec
CONSTANTS
  Service = {s1, s2, s3}
  LocalWriter = {w1}
  NoOne = NoOne
  Pid <- OwnPid
  WritesFail = TRUE
SYMMETRY ServiceSymmetry
INVARIANTS
  TypeOK
  SoleAuthority
  WriterExcludesAuthority
PROPERTIES
  NoResurrection
  ImplementsFence
CHECK_DEADLOCK FALSE
