\* A tick inside a round of msleep's own pass of Schedule().
SPECIFICATION Spec
CONSTANTS
  MAX_TASK_COUNT = 3
  s1 = s1
  s2 = s2
  s3 = s3
  Stacks <- TwoStacks
  BootStack = boot
  NULL = NULL
  MaxSleep = 2
  SLEEP_WORD = 4
  Calls <- RoundCalls
  BootCalls <- StartKernelCalls
  Preemptible <- RoundOpen
CHECK_DEADLOCK FALSE
PROPERTIES
  DispatchedTaskRuns
