CONSTANTS
  game = game
  Keys <- MCKeys
  Slots <- MCKeys
  Opposite <- MCOpposite
  Favourite <- MCFavourite
  Targets <- MCTargets
  TimerIds <- MCTimerIds
  NoTimer = 0
  NoKey = "none"
  NoTarget = NoTarget
  ModesAllowed = {"OFF", "FULL", "HUMANIZED"}
  Overlaps = {FALSE, TRUE}
  RejectsAllowed = TRUE
  RefusalAllowed = TRUE
  MaxExpired = 1
SPECIFICATION FairSpec
INVARIANTS
  LogicalIsOutput
  NoStuckKey
  BothHeldOnlyBriefly
PROPERTIES
  NoOpposites
  BrakeEnds
