SPECIFICATION FairSpec
CONSTANTS
    UMAX = 9
    h1 = h1
    h2 = h2
    zero = zero
    ZeroId = zero
    NoRec = NoRec
    Host = {h1, h2}
    Talks <- PairTalks
    MaxSeq = 3
    Bodies = 2
    Window = 2
    HeldRows = 1
    Envs <- OneCrash
PROPERTIES CatchesUp
