-------------------------- MODULE ChaCha20Poly1305 --------------------------
(***************************************************************************)
(* src/aead/chacha20.rs: the ChaCha20-Poly1305 record ciphers.  Both the   *)
(* TLS 1.2 cipher (WCTls12Cipher) and the TLS 1.3 cipher (WCTls13Cipher)   *)
(* hold the key and the 12-byte IV and derive the whole nonce from the     *)
(* sequence number; no nonce byte travels on the wire.                     *)
(***************************************************************************)
EXTENDS RecordPrimitives

CHACHAPOLY1305_OVERHEAD == 16

\* Tls12AeadAlgorithm::encrypter and decrypter: key and Iv::copy(iv).
Cipher(key, iv) == [key |-> key, iv |-> iv]

\* Tls13AeadAlgorithm::encrypter and decrypter: the key and the Iv as given.
Tls13Cipher(key, iv) == [key |-> key, iv |-> iv]

\* Tls12AeadAlgorithm::key_block_shape: a 12-byte IV and no explicit nonce.
Tls12KeyBlockShape == [enc_key_len |-> 32, fixed_iv_len |-> 12, explicit_nonce_len |-> 0]

\* Both versions: the nonce of record seq is Nonce::new(&self.iv, seq).
CipherNonce(c, seq) == NonceNew(c.iv, seq)

---------------------------------------------------------------------------
(* TLS 1.2 *)

\* Mutant: the buffer is not truncated after decryption, the tag stays.
Tls12DecryptUntruncated(c, m, seq) ==
    LET p           == m.payload
        message_len == Len(p) - CHACHAPOLY1305_OVERHEAD
        tag         == SubSeq(p, message_len + 1, Len(p))
    IN  IF Len(p) < CHACHAPOLY1305_OVERHEAD THEN Panic
        ELSE IF ~Authentic(c.key, CipherNonce(c, seq),
                           MakeTls12Aad(seq, m.typ, m.version, message_len),
                           SubSeq(p, 1, message_len), tag)
             THEN Panic
             ELSE Ok([typ |-> m.typ, version |-> m.version,
                      payload |-> OpenPt(tag) \o tag])

Tls12EncryptedPayloadLen(payload_len) == payload_len + CHACHAPOLY1305_OVERHEAD

\* WCTls12Cipher::encrypt: ciphertext || tag under the TLS 1.2 AAD.
Tls12Encrypt(c, m, seq) ==
    LET b == Box(c.key, CipherNonce(c, seq),
                 MakeTls12Aad(seq, m.typ, m.version, Len(m.payload)), m.payload)
    IN  [typ |-> m.typ, version |-> m.version, payload |-> SealCt(b) \o SealTag(b)]

(***************************************************************************)
(* WCTls12Cipher::decrypt: message_len = len - 16 underflows and the tag  *)
(* slice panics on a payload shorter than the tag; a failed               *)
(* wc_ChaCha20Poly1305_Decrypt panics in check_if_zero(ret).unwrap().     *)
(***************************************************************************)
Tls12Decrypt(c, m, seq) ==
    LET p           == m.payload
        message_len == Len(p) - CHACHAPOLY1305_OVERHEAD
    IN  IF Len(p) < CHACHAPOLY1305_OVERHEAD THEN Panic
        ELSE LET aad == MakeTls12Aad(seq, m.typ, m.version, message_len)
                 tag == SubSeq(p, message_len + 1, Len(p))
             IN  IF ~Authentic(c.key, CipherNonce(c, seq), aad,
                               SubSeq(p, 1, message_len), tag)
                 THEN Panic
                 ELSE Ok([typ |-> m.typ, version |-> m.version,
                          payload |-> OpenPt(tag)])

\* Tls12AeadAlgorithm::extract_keys: the IV must be the 12-byte nonce IV.
Tls12ExtractKeys(key, iv) ==
    IF Len(iv) # NONCE_LEN THEN [status |-> "panic"]
    ELSE [status |-> "ok", key |-> key, iv |-> iv]

---------------------------------------------------------------------------
(* TLS 1.3 *)

\* Mutant: the inner content-type byte left out of the expansion.
Tls13EncryptedPayloadLenNoType(payload_len) == payload_len + CHACHAPOLY1305_OVERHEAD

Tls13EncryptedPayloadLen(payload_len) == payload_len + 1 + CHACHAPOLY1305_OVERHEAD

\* The inner plaintext: the payload followed by its true content type.
Tls13InnerPlaintext(m) == m.payload \o <<Byte(m.typ)>>

(***************************************************************************)
(* WCTls13Cipher::encrypt: seal the inner plaintext under the record      *)
(* header of the full output length; the outer record always reads        *)
(* ApplicationData / TLS 1.2.                                             *)
(***************************************************************************)
Tls13Encrypt(c, m, seq) ==
    LET total_len == Tls13EncryptedPayloadLen(Len(m.payload))
        b == Box(c.key, CipherNonce(c, seq), MakeTls13Aad(total_len),
                 Tls13InnerPlaintext(m))
    IN  [typ |-> ApplicationData, version |-> TLSv1_2,
         payload |-> SealCt(b) \o SealTag(b)]

\* Mutant: the record is returned with into_plain_message, as in TLS 1.2,
\* so the outer type stands and the inner type byte stays in the payload.
Tls13DecryptPadded(c, m, seq) ==
    LET p           == m.payload
        message_len == Len(p) - CHACHAPOLY1305_OVERHEAD
        tag         == SubSeq(p, message_len + 1, Len(p))
    IN  IF Len(p) < CHACHAPOLY1305_OVERHEAD THEN Panic
        ELSE IF ~Authentic(c.key, CipherNonce(c, seq), MakeTls13Aad(Len(p)),
                           SubSeq(p, 1, message_len), tag)
             THEN Panic
             ELSE Ok([typ |-> m.typ, version |-> m.version, payload |-> OpenPt(tag)])

(***************************************************************************)
(* WCTls13Cipher::decrypt: AAD from the received length, tag split off    *)
(* (panicking on a payload shorter than the tag), a failed open panics,   *)
(* then into_tls13_unpadded_message recovers the inner type and reports   *)
(* an all-zero inner plaintext as an error.                               *)
(***************************************************************************)
Tls13Decrypt(c, m, seq) ==
    LET p           == m.payload
        message_len == Len(p) - CHACHAPOLY1305_OVERHEAD
    IN  IF Len(p) < CHACHAPOLY1305_OVERHEAD THEN Panic
        ELSE LET tag == SubSeq(p, message_len + 1, Len(p))
             IN  IF ~Authentic(c.key, CipherNonce(c, seq), MakeTls13Aad(Len(p)),
                               SubSeq(p, 1, message_len), tag)
                 THEN Panic
                 ELSE LET inner == UnpadTls13(OpenPt(tag))
                      IN  IF inner.typ = 0 THEN Failed
                          ELSE Ok([typ |-> inner.typ, version |-> TLSv1_3,
                                   payload |-> inner.payload])

\* Tls13AeadAlgorithm::extract_keys returns key and iv unchanged.
Tls13ExtractKeys(key, iv) == [status |-> "ok", key |-> key, iv |-> iv]
=============================================================================
