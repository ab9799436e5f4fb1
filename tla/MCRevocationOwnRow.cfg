SPECIFICATION Spec
CONSTANTS
  AdminCap = "adm"
  EpochTop = 3
  Root = "r"
  Watched <- Straight
  Envs <- OnlyLines
PROPERTIES RestartHoldsIssued
CHECK_DEADLOCK FALSE
