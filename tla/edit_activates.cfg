SPECIFICATION Spec
CONSTANTS
  None = None
  Quests = {q1, q2}
  Scheduled = {q1}
  Threads = {t1}
  Opens = {None}
  Durations = {1}
  Graces = {0}
  Buffer = 1
  MaxTime = 3
INVARIANTS
  LiveHasWindow
