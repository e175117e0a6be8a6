\* The sender of a TLS 1.2 AES-GCM connection extracts its secrets.
CONSTANTS
    K1 = K1
    Key <- K1
    FixedIv <- MC_FixedIv
    Extra <- MC_Extra
    Iv <- MC_Iv
    ContentTypes <- MC_ContentTypes
    Payloads <- MC_Payloads
    MaxPad = 1
    MaxSeq = 3
    MaxWire = 3
    ShortLengths <- MC_ShortLengths
    Suites <- MC_AesSuite
    PeerNoType = FALSE
    Attacks <- MC_NoAttacks
    AttackBudget = 0
SPECIFICATION Spec
INVARIANT ExtractedSecretsContinue
CHECK_DEADLOCK FALSE
