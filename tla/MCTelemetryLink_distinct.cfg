SPECIFICATION Spec
CONSTANTS
    Tables <- DistinctTables
    HashOf <- DistinctHashes
    Kinds = {"some", "pair"}
    field_size = 2
    block_size = 3
    fields_size = 8
    NetSize = 2
    Reorder = TRUE
    Lossy = TRUE
    AnyPart = TRUE
INVARIANTS Genuine NeverMisread
