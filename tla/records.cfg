SPECIFICATION Spec
CONSTANTS
  Quests = {q1, q2}
  DropIn = {q2}
  Participants = {1, 2}
  t1 = t1
  t2 = t2
  Threads <- MCThreads
  MaxScore = 1
  None = None
  NoRow = NoRow
SYMMETRY Symmetry
INVARIANTS
  RecordsFit
  BoardIsFair
PROPERTIES
  EnrolmentHolds
