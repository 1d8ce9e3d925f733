---------------------------- MODULE MC_Connection -----------------------------
EXTENDS Connection
CONSTANTS q1, q2
MCRequests == {q1, q2}
MCMalformed == {q2}
=============================================================================
