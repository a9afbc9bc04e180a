CONSTANTS
  game = game
  Keys <- MCKeys
  Slots <- MCKeys
  Opposite <- MCOpposite
  Favourite <- MCFavourite
  Targets = {game}
  TimerIds <- MCTimerIds
  NoTimer = 0
  NoKey = "none"
  NoTarget = NoTarget
  ModesAllowed = {"FULL"}
  Overlaps = {FALSE}
  RejectsAllowed = FALSE
  RefusalAllowed = FALSE
  MaxExpired = 1
  PlayerKeys = {"D"}
  Capacity = 2
  QueueSize = 2
  MaxMessages = 3
  MaxEvents = 0
  MayUnhook = FALSE
  BrakeModes = {}
SPECIFICATION RoutingSpec
INVARIANTS
  PausedHoldsNothing
