--------------------------- MODULE MCKeyExchange ---------------------------
EXTENDS KeyExchange

CONSTANTS Alice, Bob, D1, D2

MC_Parties == {Alice, Bob}

\* test_curve25519 makes every call from its own body, at one depth; a
\* second depth lets a party's objects survive the other's calls.
MC_Depths == {D1, D2}
=============================================================================
