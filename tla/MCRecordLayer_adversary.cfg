\* The record layer of every suite against an on-path attacker.
CONSTANTS
    K1 = K1
    Key <- K1
    FixedIv <- MC_FixedIv
    Extra <- MC_Extra
    Iv <- MC_Iv
    Suites <- MC_AllSuites
    ContentTypes <- MC_ContentTypes
    Payloads <- MC_Payloads
    PeerNoType = TRUE
    MaxPad = 1
    MaxSeq = 3
    MaxWire = 3
    Attacks <- MC_AllAttacks
    AttackBudget = 1
    ShortLengths <- MC_ShortLengths
SPECIFICATION Spec
INVARIANT TypeOK
INVARIANT NonceUnique
PROPERTY ImplementsRecordStream
CHECK_DEADLOCK FALSE
