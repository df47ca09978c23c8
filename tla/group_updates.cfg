SPECIFICATION Spec
CONSTANTS
  u1 = u1
  u2 = u2
  u3 = u3
  h1 = h1
  h2 = h2
  Users = {u1, u2}
  Handlers = {h1, h2}
  Founders <- Pair
  MaxCounts = {2}
  IntegerCacheHigh = 127
  Operations = {"update", "leave"}
  Bodies = {"ok", "badDoc"}
  Faults = FALSE
  Crashes = FALSE
  GroupIds = {1}
  RowIds = {1, 2}
  DocIds = {1, 2, 3, 4, 5, 6, 7, 8}
INVARIANTS NeverWithoutDoc
CHECK_DEADLOCK FALSE
