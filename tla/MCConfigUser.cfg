SPECIFICATION RestartSpec
CHECK_DEADLOCK FALSE
CONSTANTS
  Tunings = {default, tuned}
  Default = default
  Clamp = clamp
  Profiles = {p1}
  DefaultProfile = p1
  MaxRequests = 2
  MaxRestarts = 1
PROPERTIES
  SafeModeRestores
