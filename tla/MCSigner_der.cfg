CONSTANTS
    K1 = K1
    K2 = K2
    F1 = F1
    F2 = F2
    M1 = M1
    Ders <- MC_P256Ders
    Messages = {M1}
    Offers <- MC_Offers
    Frames <- MC_TwoFrames
    SigLens <- MC_SigLens
    MaxCalls = 3
    RngHeap = 3
SPECIFICATION Spec
INVARIANT SignatureIsDer
CHECK_DEADLOCK FALSE
