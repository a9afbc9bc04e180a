CONSTANTS
  game = game
  Keys <- MCKeys
  Slots <- MCKeys
  Opposite <- MCOpposite
  Favourite <- MCFavourite
  Targets = {game}
  TimerIds <- MCTimerIds
  NoTimer = 0
  NoKey = "none"
  NoTarget = NoTarget
  ModesAllowed = {"OFF", "FULL", "HUMANIZED"}
  Overlaps = {FALSE}
  RejectsAllowed = FALSE
  RefusalAllowed = FALSE
  MaxExpired = 1
  PlayerKeys = {"A", "D"}
  Capacity = 2
  QueueSize = 2
  MaxMessages = 3
  MaxEvents = 0
  MayUnhook = FALSE
  BrakeModes = {"OFF"}
SPECIFICATION RoutingSpec
INVARIANTS
  SettledNothingStuck
  SettledKeyIsDown
  BurstIsNotCut
  NewestKeyWinsRouted
