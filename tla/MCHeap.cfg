SPECIFICATION FairSpec
CONSTANTS
  c1 = c1
  c2 = c2
  Callers = {c1, c2}
  HEAP_SIZE = 160
  SIZE_T = 1024
  Requests <- MCRequests
  Intrusions <- SafeIntrusions
  NULL = NULL
INVARIANTS
  TypeOK
  Tiled
  LiveBacked
  Coalesced
PROPERTIES
  KmallocReturns
  Implements
