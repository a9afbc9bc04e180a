SPECIFICATION FairSpec
CONSTANTS
  TimerKeys = {W, S}
  Ids = {i1, i2, i3, i4}
  MaxDelay = 3
  MaxQueue = 1
  MaxCalls = 1
  Margin = 1
  Prompt = TRUE
  NoSlot = NoSlot
  NoId = NoId
PROPERTIES
  ImplementsOneShotTimers
  OnTime
  Delivered
  StopEnds
