SPECIFICATION FairSpec
CONSTANTS
    Tables <- CloseTables
    HashOf <- CloseHashes
    Kinds = {"none", "some"}
    field_size = 2
    block_size = 3
    fields_size = 8
    NetSize = 1
    Reorder = FALSE
    Lossy = TRUE
    AnyPart = FALSE
INVARIANTS FewMisreads
PROPERTIES GetsTable
