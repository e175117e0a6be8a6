------------------------------ MODULE MCSha384 ------------------------------
EXTENDS Sha384

CONSTANTS C1, C2, C3, D1, D2

MC_Contexts == {C1, C2, C3}
MC_Data == {D1, D2}
=============================================================================
