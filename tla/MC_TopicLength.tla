---------------------------- MODULE MC_TopicLength ----------------------------
EXTENDS TopicLength
\* File ids around the length where the init topic still fits (1012) and
\* where the chunk and fin topics reach 1024 characters.
MCFidLens == {8, 1000, 1008, 1012, 1013}
\* An empty file, one chunk, and files whose offsets have 5 digits.
MCSizes == {0, 5, 20000}
MCChunks == {BUF_SIZE, 7}
=============================================================================
