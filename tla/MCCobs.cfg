SPECIFICATION MCSpec
CONSTANTS
    packet_size = 4
    MaxByte = 3
    Crc <- SmallCrc
    MaxChunk = 2
    Settings <- SmallSettings
    Values = {0, 1, 2}
    Cycle = 4
    MaxLost = 2
    MaxChanges = 2
INVARIANTS EncodedFits WholeReturned OthersRefused DownlinkInSync
PROPERTY Recovers
