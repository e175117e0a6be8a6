\* Two threads sign with one 24-byte key, in rustls's HKDF call shape and
\* with VEC_SIZE-long chunks, from the depth with_key ran at or one deeper.
\* Each cause of a wrong tag is reached alone by a change of constants:
\*   the lengths:     Threads <- MC_OneThread, KeyLen = 32, Calls <- MC_HkdfCalls,
\*                    CallDepths <- MC_DeeperDepths;
\*   the interleaving: Calls <- MC_VecSizedCalls, CallDepths <- MC_DeeperDepths;
\*   the dead frame:  Threads <- MC_OneThread, Calls <- MC_VecSizedCalls.
CONSTANTS
    T1 = T1
    T2 = T2
    D1 = D1
    D2 = D2
    Threads <- MC_TwoThreads
    KeyLen = 24
    Calls <- MC_AllCalls
    MaxCalls = 1
    KeyDepths <- MC_KeyDepths
    CallDepths <- MC_AnyDepths
SPECIFICATION Spec
INVARIANT TagIsHmacOfConcat
CHECK_DEADLOCK FALSE
