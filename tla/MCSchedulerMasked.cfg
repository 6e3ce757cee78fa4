\* Round robin with threads that may compute for ever between two calls.
SPECIFICATION FairSpec
CONSTANTS
  MAX_TASK_COUNT = 3
  s1 = s1
  s2 = s2
  s3 = s3
  Stacks <- TwoStacks
  BootStack = boot
  NULL = NULL
  MaxSleep = 2
  SLEEP_WORD = 4
  Calls <- SleepCalls
  BootCalls <- StartKernelCalls
  Preemptible <- SafeWindows
PROPERTIES
  ReadyRuns
