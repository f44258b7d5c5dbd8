CONSTANTS
  t1 = t1
  t2 = t2
  t3 = t3
  Idle = Idle
  NONE = NONE
  CPUs <- One_CPU
  Threads <- Two_Threads
  InitThreads <- Both_First
  Priority <- AllNormal
  CoreType <- AllMain
  QuantumOf <- Quantum_Two
  Capacity <- Capacity_Two
  MaxEvents <- Events_Two
  Ops <- TimerSleep_Ops
SPECIFICATION Spec
INVARIANT SleeperHasWaker
CHECK_DEADLOCK FALSE
