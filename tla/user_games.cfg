CONSTANTS
  h1 = h1
  h2 = h2
  d1 = d1
  d2 = d2
  d3 = d3
  d4 = d4
  d5 = d5
  Users = {u1}
  Games = {g1, g2}
  Infos = {i1}
  Absent = Absent
  Handlers <- TwoHandlers
  DocIds <- FiveDocs
  NoId = NoId
  NoUser = NoUser
SPECIFICATION Spec
INVARIANTS ReadsHold AloneIsExact OneDocument RegisteredHasGames
SYMMETRY Symmetry
