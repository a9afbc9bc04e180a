SPECIFICATION FairSpec
CHECK_DEADLOCK FALSE
CONSTANTS
  g1 = g1
  g2 = g2
  other = other
  NoTarget = NoTarget
  InitialValue = NoTarget
  Owner = owner_thread
  Readers = {owner_thread}
  Words = {profile, identity}
  Values <- MCValues
  Games <- MCGames
  OtherWindows <- MCOther
  QueueSize = 1
  MaxMoves = 3
INVARIANTS
  NoTornRead
  StoppedPublishesNothing
PROPERTIES
  ReportedFocusReachesOwner
