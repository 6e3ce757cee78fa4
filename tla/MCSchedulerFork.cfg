\* A thread that forks.
SPECIFICATION Spec
CONSTANTS
  MAX_TASK_COUNT = 3
  s1 = s1
  s2 = s2
  s3 = s3
  Stacks <- TwoStacks
  BootStack = boot
  NULL = NULL
  MaxSleep = 0
  SLEEP_WORD = 4
  Calls <- ForkCalls
  BootCalls <- StartKernelCalls
  Preemptible <- SafeWindows
CHECK_DEADLOCK FALSE
PROPERTIES
  ForkedChildRuns
