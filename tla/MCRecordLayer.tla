---------------------------- MODULE MCRecordLayer ----------------------------
(***************************************************************************)
(* Model-checking instance of RecordLayer: one traffic key, IVs whose     *)
(* bytes overlap the sequence-number bytes so that the XOR of Nonce::new   *)
(* is exercised, payloads of 0 and 1 bytes (a 0 byte included, for the   *)
(* TLS 1.3 unpadding), and three records per connection.                   *)
(***************************************************************************)
EXTENDS RecordLayer

CONSTANT K1

MC_FixedIv == <<1, 2, 3, 4>>
MC_Extra   == <<0, 0, 0, 0, 0, 0, 0, 1>>
MC_Iv      == <<9, 8, 7, 6, 5, 4, 3, 2, 0, 0, 0, 2>>

MC_AllSuites == {AES_GCM_TLS12, CHACHA_TLS12, CHACHA_TLS13}
MC_AesSuite  == {AES_GCM_TLS12}

\* Handshake (22) and ApplicationData (23).
MC_ContentTypes == {22, 23}
MC_Payloads     == {<<>>, <<0>>}

MC_AllAttacks == {"drop", "replay", "flip", "retype", "truncate"}
MC_FlipOnly     == {"flip"}
MC_TruncateOnly == {"truncate"}
MC_FlipOrTruncate == {"flip", "truncate"}
MC_NoAttacks    == {}
MC_ShortLengths == {5}
=============================================================================
