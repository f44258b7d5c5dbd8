CONSTANTS
  t1 = t1
  t2 = t2
  t3 = t3
  Idle = Idle
  NONE = NONE
  CPUs <- Two_CPUs
  Threads <- Two_Threads
  InitThreads <- First_Only
  Priority <- AllNormal
  CoreType <- AllMain
  QuantumOf <- Quantum_One
  Capacity <- Capacity_One
  MaxEvents <- Events_Two
  Ops <- Lifecycle_Ops
SPECIFICATION Spec
INVARIANT TypeOK
INVARIANT RunQueueIntegrity
PROPERTY LifecycleRefined
CHECK_DEADLOCK FALSE
