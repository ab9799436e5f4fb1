SPECIFICATION Spec
CONSTANTS
  AdminCap = "adm"
  EpochTop = 3
  Root = "r"
  Watched <- Straight
  Envs <- AllEstates
INVARIANTS TypeOK HoldsLatest MemoHonest AlwaysLoads QuorumBothWays ConfirmedLeast RevokedVotesNothing
PROPERTY RestartKeepsLearned
CHECK_DEADLOCK FALSE
