------------------------------- MODULE MCHmac -------------------------------
EXTENDS Hmac

CONSTANTS T1, T2, D1, D2

MC_OneThread  == {T1}
MC_TwoThreads == {T1, T2}

\* HKDF-Expand as rustls drives it: sign_concat(T(n-1), [info], [n]), with
\* an empty T(0), a 13-byte info and the one-byte counter.
MC_HkdfCalls == {<<0, 13, 1>>}

\* Chunks and key exactly VEC_SIZE bytes long, where the length bug is silent.
MC_VecSizedCalls == {<<24, 24>>}

\* The calls rustls makes, of both shapes.
MC_AllCalls == MC_HkdfCalls \cup MC_VecSizedCalls

\* every sign_concat one level deeper than with_key: no frame is shared.
MC_KeyDepths     == {D1}
MC_DeeperDepths  == {D2}
\* sign_concat at the depth with_key ran at, or one deeper: as when one
\* function makes the key and signs with it.
MC_AnyDepths     == {D1, D2}
=============================================================================
