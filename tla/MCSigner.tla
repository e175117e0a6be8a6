------------------------------ MODULE MCSigner ------------------------------
EXTENDS Signer

CONSTANTS K1, K2, F1, F2, M1

\* Two P-256 PKCS#8 keys, a key in another format and a malformed one.
MC_P256Ders ==
    {[format |-> "Pkcs8", alg |-> "ec", key |-> K1, curve |-> "P256"],
     [format |-> "Pkcs8", alg |-> "ec", key |-> K2, curve |-> "P256"],
     [format |-> "Sec1", alg |-> "ec", key |-> K1, curve |-> "P256"],
     [format |-> "Pkcs8", alg |-> "malformed", key |-> K2, curve |-> "P256"]}

\* A P-384 key wrapped in PKCS#8, as a certificate key file may hold;
\* with it in Ders, SignsWithOwnKey also fails on the curve.
MC_P384Ders ==
    {[format |-> "Pkcs8", alg |-> "ec", key |-> K1, curve |-> "P384"]}

MC_Offers == {{ECDSA_NISTP256_SHA256}, {"RSA_PSS_SHA256"}}
MC_SigLens == {70, 71, 72}
MC_OneFrame == {F1}
MC_TwoFrames == {F1, F2}
=============================================================================
