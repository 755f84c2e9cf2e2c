SPECIFICATION RSpec
VIEW RView
CONSTANTS
    k1 = k1
    k2 = k2
    zero = zero
    a = a
    NumItems = 3
    NumTrees = 2
    Timeout = 0
    FrmSeqMax = 1
    Keys <- TwoKeys
    ZeroKey = zero
    Blocks = {zero, a}
    ZeroBlock = zero
    Dlcs = {3, 8}
    DestSizes = {10, 64}
SYMMETRY KeySymmetry
PROPERTIES ImplementsPacketPool
