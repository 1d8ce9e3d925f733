CONSTANTS
    Words16 <- MCWords16
    Words32 <- MCWords32
    Words64 <- MCWords64
    Sizes <- MCSizes
    Structs <- MCStructs
    Builds <- MCBuilds
    Asserts <- MCAsserts
    Dividends <- MCDividends
SPECIFICATION Spec
INVARIANTS
    EncodingIsBigEndian16
    EncodingIsBigEndian32
    EncodingIsBigEndian64
    AlignUpIsCeiling
