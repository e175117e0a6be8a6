\* One altered byte, or a record cut shorter than the tag, reaches the
\* receiver's decrypt.
CONSTANTS
    K1 = K1
    Key <- K1
    FixedIv <- MC_FixedIv
    Extra <- MC_Extra
    Iv <- MC_Iv
    ContentTypes <- MC_ContentTypes
    Payloads <- MC_Payloads
    MaxPad = 1
    MaxSeq = 3
    MaxWire = 3
    ShortLengths <- MC_ShortLengths
    Suites <- MC_AllSuites
    PeerNoType = FALSE
    Attacks <- MC_FlipOrTruncate
    AttackBudget = 1
SPECIFICATION Spec
INVARIANT PeerInputNeverPanics
CHECK_DEADLOCK FALSE
