---------------------------- MODULE AesGcmTls12 ----------------------------
(***************************************************************************)
(* src/aead/aes128gcm.rs: the TLS 1.2 AES-128-GCM record cipher.           *)
(* The encrypter holds key and the 12-byte IV fixed_iv || extra; the      *)
(* decrypter holds key and the 4-byte implicit IV and takes the 8 explicit *)
(* nonce bytes from the front of each record.  A message is               *)
(* [typ, version, payload] with payload a sequence of RecordPrimitives    *)
(* cells.                                                                  *)
(***************************************************************************)
EXTENDS RecordPrimitives

GCM_NONCE_LENGTH == 12
GCM_TAG_LENGTH   == 16

\* Tls12AeadAlgorithm::encrypter: iv_as_array = iv || extra.
Encrypter(key, iv, extra) == [key |-> key, iv |-> iv \o extra]

\* Tls12AeadAlgorithm::key_block_shape: the key block gives rustls a
\* 4-byte fixed IV and 8 explicit-nonce bytes.
KeyBlockShape == [enc_key_len |-> 16, fixed_iv_len |-> 4, explicit_nonce_len |-> 8]

\* Tls12AeadAlgorithm::decrypter: only the implicit 4 bytes are kept.
Decrypter(key, iv) == [key |-> key, implicit_iv |-> iv]

\* MessageEncrypter::encrypted_payload_len.
EncryptedPayloadLen(payload_len) ==
    payload_len + (GCM_NONCE_LENGTH - 4) + GCM_TAG_LENGTH

\* Mutant: the key block's explicit bytes sent as they are, never combined
\* with the sequence number.
EncryptNonceWithoutSeq(enc, seq) == NonceNew(enc.iv, 0)

\* The nonce of record seq: Nonce::new over the full 12-byte IV.
EncryptNonce(enc, seq) == NonceNew(enc.iv, seq)

(***************************************************************************)
(* MessageEncrypter::encrypt: explicit nonce (nonce[4..12]) || ciphertext *)
(* || tag, under the TLS 1.2 AAD of the plaintext length; the record keeps *)
(* the message's type and version.                                        *)
(***************************************************************************)
Encrypt(enc, m, seq) ==
    LET nonce == EncryptNonce(enc, seq)
        aad   == MakeTls12Aad(seq, m.typ, m.version, Len(m.payload))
        b     == Box(enc.key, nonce, aad, m.payload)
    IN  [typ     |-> m.typ,
         version |-> m.version,
         payload |-> Bytes(SubSeq(nonce, GCM_NONCE_LENGTH - 8 + 1, GCM_NONCE_LENGTH))
                     \o SealCt(b) \o SealTag(b)]

\* Mutant: the plaintext length taken as the payload less the tag only.
DecryptAadWithoutExplicit(m, seq) ==
    MakeTls12Aad(seq, m.typ, m.version, Len(m.payload) - GCM_TAG_LENGTH)

\* The AAD decrypt binds: the plaintext length is the payload length less
\* the tag and the explicit nonce.
DecryptAad(m, seq) ==
    MakeTls12Aad(seq, m.typ, m.version,
                 Len(m.payload) - GCM_TAG_LENGTH - (GCM_NONCE_LENGTH - 4))

(***************************************************************************)
(* MessageDecrypter::decrypt.  The slices payload[..8] and                *)
(* payload[len-16..] and the usize subtraction in the AAD length panic on *)
(* a payload shorter than 24 bytes; a failed wc_AesGcmDecrypt panics too.  *)
(* On success the plaintext is shifted to the front and the buffer        *)
(* truncated; type and version are those of the record.                   *)
(***************************************************************************)
Decrypt(dec, m, seq) ==
    LET p     == m.payload
        n     == Len(p)
        start == GCM_NONCE_LENGTH - 4
    IN  IF n < GCM_TAG_LENGTH + start THEN Panic
        ELSE LET nonce == dec.implicit_iv \o [i \in 1..start |-> WireByte(p[i])]
                 tag   == SubSeq(p, n - GCM_TAG_LENGTH + 1, n)
                 ct    == SubSeq(p, start + 1, n - GCM_TAG_LENGTH)
             IN  IF ~Authentic(dec.key, nonce, DecryptAad(m, seq), ct, tag)
                 THEN Panic
                 ELSE Ok([typ |-> m.typ, version |-> m.version,
                          payload |-> OpenPt(tag)])

(***************************************************************************)
(* Tls12AeadAlgorithm::extract_keys.  Both copy_from_slice calls copy a   *)
(* slice into the 12-byte vector, which panics unless the lengths agree;  *)
(* were they 12 bytes, the second would overwrite the first.              *)
(***************************************************************************)
ExtractKeys(key, iv, explicit) ==
    IF Len(iv) # GCM_NONCE_LENGTH \/ Len(explicit) # GCM_NONCE_LENGTH
    THEN [status |-> "panic"]
    ELSE [status |-> "ok", key |-> key, iv |-> explicit]
=============================================================================
