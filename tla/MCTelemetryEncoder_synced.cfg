SPECIFICATION Spec
CONSTANTS
    slots_size = 3
    Fields <- TableFields
    Dictionary <- SyncDictionary
    Dataset <- SyncDataset
    Values = {1}
    Nibbles = 1
    Bytes = 1
    Words = 1
PROPERTIES SyncedAdded
