SPECIFICATION RangesSpec
CONSTANTS
    Specs <- SomeSpecs
    MaxSpecs = 3
    Sizes <- SmallSizes
    Modulus = 128
    MaxRequest = 3
    JunkValues <- Junk
INVARIANTS
    RangesFit
    MergeKeepsBytes
    ResponseConsistent
CHECK_DEADLOCK FALSE
