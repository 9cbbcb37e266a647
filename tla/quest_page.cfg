SPECIFICATION PageSpec
CONSTANTS
  None = None
  Quests = {q1, q2}
  Scheduled = {q1}
  Watched = q1
  Ahead = 1
  Threads = {t1}
  Opens = {None, 1}
  Durations = {1}
  Graces = {1}
  Buffer = 1
  MaxTime = 4
INVARIANTS
  NeverAnError
  FormMeansAccepted
PROPERTIES
  StatusOnlyAdvances
  WindowFixedWhileLive
  NobodyLeftWaiting
  FormGoesAway
  NeverBackToWaiting
