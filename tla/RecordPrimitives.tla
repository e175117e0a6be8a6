-------------------------- MODULE RecordPrimitives --------------------------
(***************************************************************************)
(* What the record ciphers of rustls-wolfcrypt-provider take from outside *)
(* the crate: the rustls record helpers (Nonce::new, make_tls12_aad,      *)
(* make_tls13_aad, the TLS 1.3 unpadding of InboundOpaqueMessage) and the *)
(* wolfCrypt AEAD primitive, which the spec treats as an ideal black box. *)
(*                                                                         *)
(* A record payload is a sequence of cells, one per byte:                  *)
(*   [k |-> "b", v |-> n]            a byte in the clear (0..255)          *)
(*   [k |-> "c", box |-> b, at |-> i] byte i of the ciphertext of box b    *)
(*   [k |-> "t", box |-> b, at |-> j] byte j of the tag of box b           *)
(*   [k |-> "x"]                     a byte an attacker has altered        *)
(* A box is the tuple of inputs of one seal call.  Lengths and offsets are *)
(* therefore exact, while the cipher itself is ideal: a tag verifies only  *)
(* against the very key, nonce, AAD and ciphertext it was made for.        *)
(***************************************************************************)
EXTENDS Naturals, Sequences, SequencesExt, Bitwise

NONCE_LEN == 12
TAG_LEN   == 16

ApplicationData == 23
TLSv1_2 == 771          \* 0x0303
TLSv1_3 == 772          \* 0x0304

Byte(n) == [k |-> "b", v |-> n]
Bytes(s) == [i \in DOMAIN s |-> Byte(s[i])]

\* The byte a cell carries as the code reads it; a byte that is not in the
\* clear stands for a value no honest nonce byte has.
WireByte(c) == IF c.k = "b" THEN c.v ELSE 256

\* Big-endian encoding of v in n bytes (codec::put_u64 / put_u16).
RECURSIVE BeBytes(_, _)
BeBytes(v, n) == IF n = 0 THEN <<>> ELSE BeBytes(v \div 256, n - 1) \o <<v % 256>>

(***************************************************************************)
(* rustls Nonce::new: the sequence number, big-endian in the last 8 bytes, *)
(* XORed into the 12-byte IV.                                              *)
(***************************************************************************)
NonceNew(iv, seq) ==
    LET s == <<0, 0, 0, 0>> \o BeBytes(seq, 8)
    IN  [i \in 1..NONCE_LEN |-> iv[i] ^^ s[i]]

\* rustls make_tls12_aad: seq || type || version || (len as u16).
MakeTls12Aad(seq, typ, version, len) ==
    BeBytes(seq, 8) \o <<typ>> \o BeBytes(version, 2) \o BeBytes(len % 2^16, 2)

\* rustls make_tls13_aad: the TLS 1.3 record header of a payload of len bytes.
MakeTls13Aad(len) ==
    <<ApplicationData>> \o BeBytes(TLSv1_2, 2) \o BeBytes(len % 2^16, 2)

(***************************************************************************)
(* rustls unpad_tls13_payload: pop trailing zero bytes; the first non-zero *)
(* byte popped is the inner content type, 0 when the payload runs out.     *)
(***************************************************************************)
RECURSIVE UnpadTls13(_)
UnpadTls13(p) ==
    IF p = <<>> THEN [typ |-> 0, payload |-> p]
    ELSE IF WireByte(Last(p)) = 0 THEN UnpadTls13(Front(p))
    ELSE [typ |-> WireByte(Last(p)), payload |-> Front(p)]

(***************************************************************************)
(* The AEAD primitive (wc_AesGcmEncrypt/Decrypt,                          *)
(* wc_ChaCha20Poly1305_Encrypt/Decrypt) as an ideal cipher.                *)
(***************************************************************************)
Box(key, nonce, aad, pt) == [key |-> key, nonce |-> nonce, aad |-> aad, pt |-> pt]
SealCt(b)  == [i \in 1..Len(b.pt) |-> [k |-> "c", box |-> b, at |-> i]]
SealTag(b) == [j \in 1..TAG_LEN   |-> [k |-> "t", box |-> b, at |-> j]]

\* Open succeeds iff the tag is the one seal made for exactly these inputs.
Authentic(key, nonce, aad, ct, tag) ==
    /\ Len(tag) = TAG_LEN
    /\ tag[1].k = "t"
    /\ LET b == tag[1].box
       IN  /\ b.key = key /\ b.nonce = nonce /\ b.aad = aad
           /\ ct = SealCt(b) /\ tag = SealTag(b)

OpenPt(tag) == tag[1].box.pt

\* The outcome of a MessageDecrypter::decrypt call.
Ok(m)     == [status |-> "ok", msg |-> m]
Failed    == [status |-> "error", msg |-> <<>>]
Panic     == [status |-> "panic", msg |-> <<>>]
=============================================================================
