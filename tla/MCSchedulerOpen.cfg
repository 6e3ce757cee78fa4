\* Ticks at every statement of an unmasked Schedule() and inside kmalloc.
SPECIFICATION Spec
CONSTANTS
  MAX_TASK_COUNT = 3
  s1 = s1
  s2 = s2
  s3 = s3
  Stacks <- TwoStacks
  BootStack = boot
  NULL = NULL
  MaxSleep = 1
  SLEEP_WORD = 3
  Calls <- OpenCalls
  BootCalls <- OpenBootCalls
  Preemptible <- OpenWindows
SYMMETRY StackSymmetry
CONSTRAINT NoDrift
\* A machine that is lost does nothing any more.
CHECK_DEADLOCK FALSE
INVARIANTS
  TypeOK
  IdleAlive
