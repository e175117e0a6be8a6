----------------------------- MODULE MCVerifier -----------------------------
EXTENDS Verifier

CONSTANTS R1, R2, M1, M2
=============================================================================
