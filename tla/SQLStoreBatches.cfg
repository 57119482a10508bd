SPECIFICATION Spec
CONSTANTS
  c1 = c1
  c2 = c2
  c3 = c3
  c4 = c4
  c5 = c5
  books = books
  groups = groups
  wide = wide
  narrow = narrow
  other = other
  Cell = {c1, c2, c3, c4, c5}
  TableOf <- MCTableOf
  KindOf <- MCKindOf
  Width <- MCWidth
  BatchCount = 2
  MaxRestarts = 1
INVARIANTS TypeOK AcceptedKept CrashLossBound
\* Every cell has been handed to Save.
CHECK_DEADLOCK FALSE
