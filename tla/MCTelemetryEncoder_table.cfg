SPECIFICATION Spec
VIEW TableView
CONSTANTS
    slots_size = 4
    Fields <- TableFields
    Dictionary <- SyncDictionary
    Dataset <- SyncDataset
    Values = {1}
    Nibbles = 1
    Bytes = 1
    Words = 1
INVARIANTS Sorted NoDuplicates Cached
PROPERTIES ValuesKept
