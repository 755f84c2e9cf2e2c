SPECIFICATION MCSpec
\* One packet or one sample is dealt with; then nothing is left to do.
CHECK_DEADLOCK FALSE
CONSTANTS
    Inputs <- AllInputs
    Samples <- AllSamples
INVARIANTS RoundTrip Truthful StreamsReturn ChecksumsAgree ValuesReturn
