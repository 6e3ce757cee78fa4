\* start_kernel's one CreateTask, with ticks in it; its thread only computes.
SPECIFICATION Spec
CONSTANTS
  MAX_TASK_COUNT = 3
  s1 = s1
  s2 = s2
  s3 = s3
  Stacks <- TwoStacks
  BootStack = boot
  NULL = NULL
  MaxSleep = 0
  SLEEP_WORD = 4
  Calls <- NoCalls
  BootCalls <- StartKernelCalls
  Preemptible <- Windows
CHECK_DEADLOCK FALSE
PROPERTIES
  DispatchedTaskRuns
