SPECIFICATION Spec
SYMMETRY Symmetry
CONSTANTS
  None = None
  Quests = {q1, q2}
  Scheduled = {q1}
  Threads = {t1, t2}
  Opens = {None}
  Durations = {1}
  Graces = {0}
  Buffer = 1
  MaxTime = 2
INVARIANTS
  TypeOK
  OneActive
  OnlyFormsSkipTheWindow
