SPECIFICATION FairSpec
CONSTANTS
  Threads = {t1, t2, t3}
  Limit = 2
  Window = 3
INVARIANTS
  TypeOK
  OvershootIsBounded
  TwoWindowsAtMost
PROPERTIES
  NotShutOut
