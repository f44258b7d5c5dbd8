CONSTANTS
  t1 = t1
  t2 = t2
  t3 = t3
  Idle = Idle
  NONE = NONE
  CPUs <- Two_CPUs
  Threads <- Two_Threads
  InitThreads <- Both_First
  Priority <- AllNormal
  CoreType <- OneSub
  QuantumOf <- Quantum_Two
  Capacity <- Capacity_Two
  MaxEvents <- Events_One
  Ops <- Dispatch_Ops
SPECIFICATION FairSpec
PROPERTY EventuallyDispatched
