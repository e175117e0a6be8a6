\* Every suite on an untampered stream, the receiver reading fairly.
CONSTANTS
    K1 = K1
    Key <- K1
    FixedIv <- MC_FixedIv
    Extra <- MC_Extra
    Iv <- MC_Iv
    ContentTypes <- MC_ContentTypes
    Payloads <- MC_Payloads
    MaxPad = 1
    MaxSeq = 3
    MaxWire = 3
    ShortLengths <- MC_ShortLengths
    Suites <- MC_AllSuites
    PeerNoType = FALSE
    Attacks <- MC_NoAttacks
    AttackBudget = 0
SPECIFICATION FairSpec
INVARIANT ExpansionExact
PROPERTY DeliversAll
\* The connection falls idle once the sender has written MaxSeq records.
CHECK_DEADLOCK FALSE
