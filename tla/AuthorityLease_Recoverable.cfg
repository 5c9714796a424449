SPECIFICATION Spec
CONSTANTS
  Service = {s1, s2}
  LocalWriter = {}
  NoOne = NoOne
  Pid <- OwnPid
  WritesFail = FALSE
INVARIANT
  Recoverable
CHECK_DEADLOCK FALSE
