SPECIFICATION Spec
CONSTANTS
  u1 = u1
  u2 = u2
  u3 = u3
  h1 = h1
  h2 = h2
  Users = {u1, u2, u3}
  Handlers = {h1, h2}
  Founders <- Pair
  MaxCounts = {3}
  IntegerCacheHigh = 127
  Operations = {"insert", "join", "leave"}
  Bodies = {"ok", "badDoc"}
  Faults = TRUE
  Crashes = TRUE
  GroupIds = {1}
  RowIds = {1, 2, 3, 4}
  DocIds = {1, 2, 3}
SYMMETRY HandlerSymmetry
INVARIANTS IInv AtMostOneLeader MembersHaveGroup NoCircle
PROPERTIES HandoverIsAtomic PublishedWithDoc
CHECK_DEADLOCK FALSE
