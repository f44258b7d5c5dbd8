CONSTANTS
  t1 = t1
  t2 = t2
  t3 = t3
  Idle = Idle
  None = None
  Threads <- Threads_Three
  Capacity = 4
  NormalQuantum = 2

SPECIFICATION Spec

INVARIANT TypeOK
INVARIANT ThreadsConserved
INVARIANT WritesNeverFail
PROPERTY LifecycleRefined
PROPERTY EveryThreadRuns
