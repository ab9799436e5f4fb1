SPECIFICATION Spec
CONSTANTS
  AdminCap = "adm"
  EpochTop = 4
  MaxHops = 3
  Root = "r"
  Horizon = 2
  WindowCapacity = 1
  Envs <- OnePair
INVARIANT ZeroDeficitComplete
CHECK_DEADLOCK FALSE
