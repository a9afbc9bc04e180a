SPECIFICATION ServerSpec
CHECK_DEADLOCK FALSE
CONSTANTS
  Tunings = {default, tuned}
  Default = default
  Clamp = clamp
  Profiles = {p1}
  DefaultProfile = p1
  MaxRequests = 2
  MaxRestarts = 0
  Conns = {c1, c2}
INVARIANTS
  AppliedOnceInOrder
  AnnouncementPending
  NothingLeftOpen
PROPERTIES
  SafeModeRestores
  ImplementsConfig
  EveryStreamHears
  StopReturns
