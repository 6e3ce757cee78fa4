\* A thread function that returns.
SPECIFICATION Spec
CONSTANTS
  MAX_TASK_COUNT = 3
  s1 = s1
  s2 = s2
  s3 = s3
  Stacks <- TwoStacks
  BootStack = boot
  NULL = NULL
  MaxSleep = 0
  SLEEP_WORD = 4
  Calls <- ReturnCalls
  BootCalls <- StartKernelCalls
  Preemptible <- SafeWindows
CHECK_DEADLOCK FALSE
INVARIANTS
  ReturnIsCaught
