--------------------------- MODULE MC_DeleteDelay ---------------------------
EXTENDS DeleteDelay

\* Around the 7-day cap, around 2^31 / 1000 where the product first wraps,
\* around 2^32 / 1000 where it wraps back to positive, and spec.md's example.
MCInputs == {1, 5, 604799, 604800, 604801, 2147483, 2147484, 4294967,
             4294968, 600000000, 2147483647}
=============================================================================
