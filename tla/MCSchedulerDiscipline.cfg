\* Ticks wherever the code takes them but in CreateTask, inside a round of the
\* scan, and from the choice of the next task to the switch; threads that go
\* back to sleep.  A sleep of 2 outlasts the pass of Schedule() that msleep makes
\* itself; one of 1 does not.
SPECIFICATION CoopSpec
CONSTANTS
  MAX_TASK_COUNT = 3
  s1 = s1
  s2 = s2
  s3 = s3
  Stacks <- TwoStacks
  BootStack = boot
  NULL = NULL
  MaxSleep = 2
  SLEEP_WORD = 4
  Calls <- SafeCalls
  BootCalls <- KillerBootCalls
  Preemptible <- SafeWindows
INVARIANTS
  SleepBounded
  CpuOnCurrentStack
  SavedContexts
  StackOwnership
  TaskCountExact
  ExitNeverReturns
  OneRunning
PROPERTIES
  ZombiesStayDead
  ReadyRuns
  SleeperWakes
  ZombieReaped
