SPECIFICATION Spec
CONSTANTS
  AdminCap = "adm"
  EpochTop = 3
  Root = "r"
  Watched <- Straight
  Envs <- OnlyLonger
INVARIANTS LatestStands
CHECK_DEADLOCK FALSE
