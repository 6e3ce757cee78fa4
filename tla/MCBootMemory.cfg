\* From pmm_init to the end of heap_init.  The set-up ends, or searches for
\* memory for ever.
SPECIFICATION FairSpec
CONSTANTS
  BLOCKS = 20
  PAGE = 4
  UINT32 = 64
  LOW = 4
  KERNEL_START = 5
  KERNEL_END = 13
  LEVELS = 3
  FANOUT = 4
  OFFSET = 36
  DIRECT = 20
  IDENTITY = 4
  HEAP_START = 60
  HEAP_PAGES = 2
  MemoryMaps <- MCMemoryMaps
  Framebuffers <- MCFramebuffers
  MbiAddresses <- MCMbiAddresses
  NULL = NULL
CHECK_DEADLOCK FALSE
INVARIANTS
  CounterExact
  ImageReserved
  Exclusive
  KernelMapped
PROPERTIES
  Implements
  Boots
