\* A OneShot event left behind by a signalled wait_for wakes a later
\* Timer::sleep of the same thread before its deadline.
CONSTANTS
  t1 = t1
  t2 = t2
  Threads <- Two_Sleepers
  Durations <- Short_Durations
  Kinds <- Sleep_And_WaitFor
  MaxTime <- Time_Three
  QueueCap <- Cap_One
  MaxEvents <- Events_Three
  MaxSignals <- Signals_Two
SPECIFICATION Spec
PROPERTY SleepNotEarly
