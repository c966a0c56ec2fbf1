SPECIFICATION Spec
CONSTANTS
  t1 = t1
  t2 = t2
  Threads = {t1, t2}
  NoThread = NoThread
  MaxSends = 2
INVARIANTS
  OnlyWinnerTouchesQueue
