\* The safety properties of MCSchedulerDiscipline.cfg with one slot more.
SPECIFICATION Spec
CONSTANTS
  MAX_TASK_COUNT = 4
  s1 = s1
  s2 = s2
  s3 = s3
  Stacks <- ThreeStacks
  BootStack = boot
  NULL = NULL
  MaxSleep = 2
  SLEEP_WORD = 4
  Calls <- SafeCalls
  BootCalls <- StartKernelCalls
  Preemptible <- SafeWindows
SYMMETRY StackSymmetry
INVARIANTS
  SleepBounded
  CpuOnCurrentStack
  SavedContexts
  StackOwnership
  TaskCountExact
  ExitNeverReturns
PROPERTIES
  ZombiesStayDead
