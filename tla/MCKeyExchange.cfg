\* Alice and Bob each build a KeyExchange and derive, as in test_curve25519,
\* from one depth or two.
CONSTANTS
    Alice = Alice
    Bob = Bob
    D1 = D1
    D2 = D2
    Parties <- MC_Parties
    Depths <- MC_Depths
SPECIFICATION Spec
INVARIANT SecretsAgree
CHECK_DEADLOCK FALSE
