CONSTANTS
  t1 = t1
  t2 = t2
  t3 = t3
  Idle = Idle
  NONE = NONE
  CPUs <- Two_CPUs
  Threads <- Two_Threads
  InitThreads <- Both_First
  Priority <- AllNormal
  CoreType <- AllMain
  QuantumOf <- Quantum_One
  Capacity <- Capacity_Two
  MaxEvents <- Events_Two
  Ops <- WaitWake_Ops
SPECIFICATION Spec
INVARIANT SleeperHasWaker
CHECK_DEADLOCK FALSE
