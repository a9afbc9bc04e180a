CONSTANTS
  game = game
  Keys <- MCKeys
  Slots <- MCKeys
  Opposite <- MCOpposite
  Favourite <- MCFavourite
  Targets = {game}
  TimerIds <- MCTimerIds
  NoTimer = 0
  NoKey = "none"
  NoTarget = NoTarget
  ModesAllowed = {"FULL"}
  Overlaps = {FALSE}
  RejectsAllowed = TRUE
  RefusalAllowed = FALSE
  MaxExpired = 1
  PlayerKeys = {"D"}
  Capacity = 2
  QueueSize = 2
  MaxMessages = 3
  MaxEvents = 1
  MayUnhook = TRUE
  BrakeModes = {}
SPECIFICATION RoutingSpec
INVARIANTS
  NoEdgeLost
  QueueIsWoken
  FocusCatchesUp
  UnhookedHoldsNothing
