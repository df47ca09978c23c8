CONSTANTS
  g1 = g1
  g2 = g2
  f1 = f1
  f2 = f2
  Games <- TwoGames
  Answers = {a1}
  NoAnswer = NoAnswer
  Blank = Blank
  Absent = Absent
  Empty = Empty
  Forms = {f0, f1, f2}
  Valid <- ValidForms
  Unknown = Unknown
  Faults <- AllFaults
SPECIFICATION Spec
INVARIANTS IInv SavedIsIntended AsksWhenEdited AddOffered
SYMMETRY Symmetry
CHECK_DEADLOCK FALSE
