CONSTANTS
  g1 = g1
  g2 = g2
  t1 = t1
  t2 = t2
  Users <- TwoUsers
  Groups <- TwoGroups
  Tasks <- TwoTasks
  Nowhere = Nowhere
  Undefined = Undefined
  Unsure = Unsure
  u1 = u1
  u2 = u2
SPECIFICATION Spec
INVARIANTS IInv SettledPresence ListsHeal
PROPERTIES RefinesPresence
SYMMETRY Symmetry
