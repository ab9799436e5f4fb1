SPECIFICATION Spec
CONSTANTS
  Candidates = 3
  NoBits = NoBits
  MaxPeers = 3
  Envs <- TreeEnvs
INVARIANT IntactServes
CHECK_DEADLOCK FALSE
