SPECIFICATION FairSpec
CONSTANTS
    slots_size = 2
    Fields <- PacedFields
    Dictionary <- NoDictionary
    Dataset <- SyncDataset
    Values = {0, 1}
    Nibbles = 5
    Bytes = 5
    Words = 10
PROPERTIES Settles
