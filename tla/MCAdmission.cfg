SPECIFICATION Spec
CONSTANTS
  AdminCap = "adm"
  EpochTop = 4
  MaxHops = 3
  Root = "r"
  Horizon = 2
  WindowCapacity = 1
  Envs <- AllEnvs
INVARIANTS TypeOK EntitledNow AtMostOnce ToldAccounted GateHolds DelegationSound
CHECK_DEADLOCK FALSE
