\* Two CPUs, an idle thread per CPU and one worker thread (a) migrating between them, load0 wide enough
\* for every stretch of running time the clock allows.
CONSTANTS
  c0 = c0
  c1 = c1
  i0 = i0
  i1 = i1
  a = a
  NoThread = NoThread
  CPUs <- Two_CPUs
  PerfCPUs <- One_Perf
  Threads <- Pool
  IdleThreads <- Idles
  Interval <- Interval_Two
  Width <- Width_Wide
  MaxTime <- Time_Four
SPECIFICATION Spec
CHECK_DEADLOCK FALSE
INVARIANTS TypeOK TimeAccounted
