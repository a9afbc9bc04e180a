CONSTANTS
  Slots = {w, space}
  Targets = {t1, t2}
  NoTarget = NoTarget
SPECIFICATION FairSpec
INVARIANTS
  LedgerAgreesWithSystem
PROPERTIES
  NoPressWhileReleaseOwed
  ReleaseCheckedAtOwner
  
