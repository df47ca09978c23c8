SPECIFICATION ListSpec
CONSTANTS
  u1 = u1
  u2 = u2
  u3 = u3
  h1 = h1
  Users = {u1, u2, u3}
  Handlers = {h1}
  Founders <- Pair
  MaxCounts = {2}
  IntegerCacheHigh = 127
  Operations = {"insert", "join", "update", "leave"}
  Bodies = {"ok", "badDoc"}
  Faults = FALSE
  Crashes = FALSE
  GroupIds = {1, 2}
  RowIds = {1, 2, 3, 4}
  DocIds = {1, 2, 3, 4}
  Askers = {u3}
  Kinds = {"recommend"}
  Limit = 1
  Attributes = {"a", "b"}
  Options = {"x", "y"}
  Profiles <- SomeProfiles
  Offers <- SomeOffers
INVARIANT RecommendsRoom
CHECK_DEADLOCK FALSE
