SPECIFICATION HSpec
VIEW HView
CONSTANTS
    k1 = k1
    k2 = k2
    zero = zero
    NumItems = 4
    NumTrees = 2
    Timeout = 1
    FrmSeqMax = 1
    Keys <- TwoKeys
    ZeroKey = zero
    Blocks <- OneBlock
    ZeroBlock = zero
    Dlcs = {0, 8}
    DestSizes = {64}
SYMMETRY KeySymmetry
INVARIANTS ItemsOwnedOnce ChainsEnd OnePartialPerKey ListLoops ReadLoop OrphansExpire
PROPERTIES FinishedKept NotGivenUpEarly
