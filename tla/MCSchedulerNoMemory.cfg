\* Two CreateTask calls and a heap with room for one stack.
SPECIFICATION Spec
CONSTANTS
  MAX_TASK_COUNT = 3
  s1 = s1
  s2 = s2
  s3 = s3
  Stacks <- OneStack
  BootStack = boot
  NULL = NULL
  MaxSleep = 0
  SLEEP_WORD = 4
  Calls <- StartKernelCalls
  BootCalls <- StartKernelCalls
  Preemptible <- SafeWindows
CHECK_DEADLOCK FALSE
PROPERTIES
  DispatchedTaskRuns
