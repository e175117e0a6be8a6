\* Keys that decode, and a heap with room for two DRBGs: a signer whose
\* key is intact is asked to sign three times.
CONSTANTS
    K1 = K1
    K2 = K2
    F1 = F1
    F2 = F2
    M1 = M1
    Ders <- MC_P256Ders
    Messages = {M1}
    Offers <- MC_Offers
    Frames <- MC_TwoFrames
    SigLens <- MC_SigLens
    MaxCalls = 4
    RngHeap = 2
SPECIFICATION Spec
INVARIANT SignsWhileKeyIntact
CHECK_DEADLOCK FALSE
