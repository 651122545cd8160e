SPECIFICATION FairSpec
CONSTANTS
  Delays = {0, 4}
  NoLimit = NoLimit
  HardLimits = {NoLimit, 1}
  Jiffy = 1
  IdleDelay = 4
  Epoch = 100
  MaxStart = 1
  Horizon = 5
  MaxEvents = 3
  MaxRuns = 2
INVARIANTS NoMissedSignal NeverEarly ListSound
PROPERTIES EventsHappen StopReturns
CHECK_DEADLOCK FALSE
