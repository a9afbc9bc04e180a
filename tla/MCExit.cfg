SPECIFICATION ExitSpec
CHECK_DEADLOCK FALSE
CONSTANTS
  own = own
  other = other
  Owner = own
  Others <- JustOther
  Writers <- Both
  Pushers <- Both
  Savers <- Both
  MaxQueued = 1
  MaxLines = 3
  RingSize = 1
  MaxPushes = 2
  KeyCount = 2
  MaxSaves = 3
  MaxCalls = 2
INVARIANTS
  LogInOrder
  FlushMeansWritten
  EveryEventCounted
  NeverHalfWritten
  NothingLeftBehind
PROPERTIES
  ExitReturns
