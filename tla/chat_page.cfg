CONSTANTS
  g1 = g1
  g2 = g2
  Groups <- TwoGroups
  ConnIds <- TwoConns
  NoConn = NoConn
  MaxLoads = 1
SPECIFICATION Spec
INVARIANTS
  TypeOK
  OneGroupPerConnection
  SaysWhereShown
  CalmListens
  CalmPresence
  IInv
SYMMETRY GroupSymmetry
