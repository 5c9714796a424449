\* Replacements that raise in a recovery.
SPECIFICATION RegistrySpec
CONSTANTS
  User = {a, b}
  NoOne = NoOne
  Files = 3
  Absent = Absent
  Torn = Torn
  Closed = Closed
  MaxTransactions = 3
  Faults = {"recover"}
INVARIANTS
  SeesOneTransaction
