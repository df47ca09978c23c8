SPECIFICATION RSpec
CONSTANTS
  u1 = u1
  u2 = u2
  u3 = u3
  h1 = h1
  h2 = h2
  Users = {u1, u2, u3}
  Handlers = {h1, h2}
  Founders <- Alone
  MaxCounts = {1, 2}
  IntegerCacheHigh = 1
  Operations = {"join", "update", "leave"}
  Bodies = {"ok"}
  Faults = FALSE
  Crashes = FALSE
  GroupIds = {1}
  RowIds = {1, 2, 3}
  DocIds = {1, 2}
SYMMETRY RaceSymmetry
PROPERTIES
  LedUnlessOvertaken RoomUnlessOvertaken OneRowUnlessOvertaken
  LeaderUpdatesUnlessOvertaken RefinesUnlessOvertaken
CHECK_DEADLOCK FALSE
