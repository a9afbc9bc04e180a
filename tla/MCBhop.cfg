SPECIFICATION FairSpec
CONSTANTS
  Slots = {space}
  Space = space
  Targets = {t1, t2}
  NoTarget = NoTarget
INVARIANTS
  ShutdownLetsGo
PROPERTIES
  ShutdownReturns
  SpaceIsLetGo
