SPECIFICATION Spec
CONSTANTS
  u1 = u1
  u2 = u2
  u3 = u3
  h1 = h1
  h2 = h2
  Users = {u1, u2, u3}
  Handlers = {h1, h2}
  Founders <- Trio
  MaxCounts = {3}
  IntegerCacheHigh = 127
  Operations = {"leave"}
  Bodies = {"ok"}
  Faults = FALSE
  Crashes = FALSE
  GroupIds = {1}
  RowIds = {1, 2, 3}
  DocIds = {1}
INVARIANTS EveryGroupLed
CHECK_DEADLOCK FALSE
