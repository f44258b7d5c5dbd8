\* wait_for and SignallingObject::signal beside Timer::sleep: early wakes
\* from signals and from leftover OneShot events.
CONSTANTS
  t1 = t1
  t2 = t2
  Threads <- Two_Sleepers
  Durations <- Short_Durations
  Kinds <- Sleep_And_WaitFor
  MaxTime <- Time_Three
  QueueCap <- Cap_One
  MaxEvents <- Events_Two
  MaxSignals <- Signals_Two
SPECIFICATION FairSpec
INVARIANT TypeOK
PROPERTIES EveryEventFires SleepReturns
CHECK_DEADLOCK FALSE
