SPECIFICATION Spec
\* One packet is written and read; then nothing is left to do.
CHECK_DEADLOCK FALSE
CONSTANT Inputs <- PairInputs
INVARIANTS UpdatedSlotsRead
