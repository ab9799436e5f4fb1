SPECIFICATION FairSpec
CONSTANTS
  Candidates = 3
  NoBits = NoBits
  MaxPeers = 3
  Envs <- AllEnvs
INVARIANTS TypeOK SidecarHonest AskedOnce BooksAgree HonestKept CheckedServes
PROPERTY Arrives
CHECK_DEADLOCK FALSE
