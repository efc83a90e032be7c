\* More jobs than the queue is to hold, so that both unlocked checks can be
\* overshot; an array that has to grow twice.
CONSTANTS
  Threads = {t1, t2, t3}
  Jobs = {j1, j2}
  InitCap = 1
  SpawnTarget = 3
  MaxTasks = 7
SPECIFICATION Spec
INVARIANT TypeOK
INVARIANT NoEarlyExit
INVARIANT NoLostWakeup
INVARIANT NoSleepingForever
INVARIANT BudgetBound
CHECK_DEADLOCK FALSE
