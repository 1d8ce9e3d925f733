\* Whether the defs.h macros behave as what they are named for in every
\* context and for every argument.
CONSTANTS
    Words16 <- MCWords16
    Words32 <- MCWords32
    Words64 <- MCWords64
    Sizes <- MCSizes
    Structs <- MCStructs
    Builds <- MCBuilds
    Asserts <- MCAsserts
    Dividends <- MCDividends
SPECIFICATION Spec
INVARIANT MacrosActAsNamed
