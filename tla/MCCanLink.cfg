SPECIFICATION MCSpec
CONSTANTS
    n1 = n1
    n2 = n2
    p1 = p1
    p2 = p2
    announcement = announcement
    Announcement = announcement
    Addresses = {n1, n2}
    tag1 = tag1
    tag2 = tag2
    zero = zero
    Nodes = {n1, n2}
    Messages <- MixedMessages
    Keys <- AllKeys
    Accepted <- AcceptedKeys
    ZeroKey <- FirstKey
    Tokens <- AllTokens
    Blocks <- AllBlocks
    ZeroBlock <- ZeroBytes
    NumItems = 5
    NumTrees = 2
    Timeout = 7
    FrmSeqMax = 1
    Dlcs = {0, 1, 2, 3, 4, 5, 6, 7, 8}
    DestSizes = {64}
    MaxSends = 2
    MaxFaults = 2
INVARIANTS Integrity SharedIntegrity NotMultiplied
PROPERTIES SettledStay ArrivedComplete
