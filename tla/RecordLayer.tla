----------------------------- MODULE RecordLayer -----------------------------
(***************************************************************************)
(* One direction of a TLS connection whose records are protected by the   *)
(* provider's ciphers (AesGcmTls12, ChaCha20Poly1305).  The connection    *)
(* layer (rustls RecordLayer) owns the write and read sequence numbers and *)
(* hands each record to the negotiated cipher; between sender and         *)
(* receiver is the TCP stream, on which an attacker may drop, replay,     *)
(* reorder, alter, retype and truncate records within a budget.  A        *)
(* TLS 1.3 peer other than this provider may also pad its inner plaintext. *)
(***************************************************************************)
EXTENDS RecordPrimitives, FiniteSets

CONSTANTS
    Suites,        \* the cipher suites the connection may negotiate
    Key,           \* the traffic key of this direction (a model value)
    FixedIv,       \* TLS 1.2 AES-GCM: the 4-byte implicit IV of the key block
    Extra,         \* TLS 1.2 AES-GCM: the 8 explicit-nonce bytes of the key block
    Iv,            \* ChaCha20-Poly1305: the 12-byte IV
    ContentTypes,  \* the content types the application sends
    Payloads,      \* the payloads it sends, as sequences of byte values
    PeerNoType,    \* whether a TLS 1.3 peer may send an inner plaintext of zeros only
    MaxPad,        \* the most zero bytes such a peer pads with
    MaxSeq,        \* bound on the write sequence number
    MaxWire,       \* bound on the records in flight
    Attacks,       \* the attacker's moves: "drop", "replay", "flip", "retype", "truncate"
    AttackBudget,  \* how many moves the attacker makes
    ShortLengths   \* lengths the attacker may truncate a payload to

AES_GCM_TLS12  == "TLS12_AES_128_GCM"
CHACHA_TLS12   == "TLS12_CHACHA20_POLY1305"
CHACHA_TLS13   == "TLS13_CHACHA20_POLY1305"

ASSUME Suites \subseteq {AES_GCM_TLS12, CHACHA_TLS12, CHACHA_TLS13} /\ Suites # {}
ASSUME Attacks \subseteq {"drop", "replay", "flip", "retype", "truncate"}
ASSUME PeerNoType \in BOOLEAN
ASSUME MaxSeq \in Nat /\ MaxWire \in Nat /\ AttackBudget \in Nat /\ MaxPad \in Nat

Aes == INSTANCE AesGcmTls12
Cha == INSTANCE ChaCha20Poly1305

\* The key block rustls cuts for TLS 1.2 follows the suite's key_block_shape.
ASSUME /\ Len(FixedIv) = Aes!KeyBlockShape.fixed_iv_len
       /\ Len(Extra) = Aes!KeyBlockShape.explicit_nonce_len
       /\ Len(Iv) = Cha!Tls12KeyBlockShape.fixed_iv_len

VARIABLES
    suite,       \* the negotiated suite
    writeSeq,    \* RecordLayer::write_seq of the sender
    readSeq,     \* RecordLayer::read_seq of the receiver
    wire,        \* the records in the TCP stream, in order
    rstate,      \* the receiver: "open", "closed" (error reported) or "panicked"
    delivered,   \* the plaintext messages the receiver accepted
    budget,      \* attacker moves left
    extracted,   \* the sender's extracted secrets, once extracted
    sent,        \* history: the messages protected, in order
    transcript,  \* history: the records produced, and the peer's padding
    nonces       \* history: the <<key, nonce>> of every seal

vars == <<suite, writeSeq, readSeq, wire, rstate, delivered, budget,
          extracted, sent, transcript, nonces>>

NotExtracted == [status |-> "none"]

Messages == [typ: ContentTypes, version: {TLSv1_2}, payload: {Bytes(p) : p \in Payloads}]

---------------------------------------------------------------------------
(* The negotiated cipher, as the connection layer builds it. *)

SuiteNonce(seq) ==
    CASE suite = AES_GCM_TLS12 -> Aes!EncryptNonce(Aes!Encrypter(Key, FixedIv, Extra), seq)
      [] suite = CHACHA_TLS12  -> Cha!CipherNonce(Cha!Cipher(Key, Iv), seq)
      [] suite = CHACHA_TLS13  -> Cha!CipherNonce(Cha!Tls13Cipher(Key, Iv), seq)

SuiteEncrypt(m, seq) ==
    CASE suite = AES_GCM_TLS12 -> Aes!Encrypt(Aes!Encrypter(Key, FixedIv, Extra), m, seq)
      [] suite = CHACHA_TLS12  -> Cha!Tls12Encrypt(Cha!Cipher(Key, Iv), m, seq)
      [] suite = CHACHA_TLS13  -> Cha!Tls13Encrypt(Cha!Tls13Cipher(Key, Iv), m, seq)

SuiteDecrypt(r, seq) ==
    CASE suite = AES_GCM_TLS12 -> Aes!Decrypt(Aes!Decrypter(Key, FixedIv), r, seq)
      [] suite = CHACHA_TLS12  -> Cha!Tls12Decrypt(Cha!Cipher(Key, Iv), r, seq)
      [] suite = CHACHA_TLS13  -> Cha!Tls13Decrypt(Cha!Tls13Cipher(Key, Iv), r, seq)

SuiteEncryptedPayloadLen(len) ==
    CASE suite = AES_GCM_TLS12 -> Aes!EncryptedPayloadLen(len)
      [] suite = CHACHA_TLS12  -> Cha!Tls12EncryptedPayloadLen(len)
      [] suite = CHACHA_TLS13  -> Cha!Tls13EncryptedPayloadLen(len)

SuiteExtractKeys ==
    CASE suite = AES_GCM_TLS12 -> Aes!ExtractKeys(Key, FixedIv, Extra)
      [] suite = CHACHA_TLS12  -> Cha!Tls12ExtractKeys(Key, Iv)
      [] suite = CHACHA_TLS13  -> Cha!Tls13ExtractKeys(Key, Iv)

---------------------------------------------------------------------------
Init ==
    /\ suite \in Suites
    /\ writeSeq = 0
    /\ readSeq = 0
    /\ wire = <<>>
    /\ rstate = "open"
    /\ delivered = <<>>
    /\ budget = AttackBudget
    /\ extracted = NotExtracted
    /\ sent = <<>>
    /\ transcript = <<>>
    /\ nonces = <<>>

\* Sender: RecordLayer::encrypt_outgoing takes write_seq, increments it and
\* writes the record the cipher returns.  Extraction consumes the connection.
Encrypt(m) ==
    /\ extracted = NotExtracted
    /\ writeSeq < MaxSeq
    /\ Len(wire) < MaxWire
    /\ LET r == SuiteEncrypt(m, writeSeq)
       IN  /\ wire' = Append(wire, r)
           /\ transcript' = Append(transcript, [rec |-> r, pad |-> 0])
    /\ sent' = Append(sent, m)
    /\ nonces' = Append(nonces, <<Key, SuiteNonce(writeSeq)>>)
    /\ writeSeq' = writeSeq + 1
    /\ UNCHANGED <<suite, readSeq, rstate, delivered, budget, extracted>>

\* A TLS 1.3 peer that pads its inner plaintext with zeros (RFC 8446 5.4).
PeerSeal(inner, m) ==
    /\ suite = CHACHA_TLS13
    /\ extracted = NotExtracted
    /\ writeSeq < MaxSeq
    /\ Len(wire) < MaxWire
    /\ LET b == Box(Key, SuiteNonce(writeSeq), MakeTls13Aad(Len(inner) + TAG_LEN), inner)
           r == [typ |-> ApplicationData, version |-> TLSv1_2,
                 payload |-> SealCt(b) \o SealTag(b)]
       IN  /\ wire' = Append(wire, r)
           /\ transcript' = Append(transcript, [rec |-> r, pad |-> Len(inner) - Len(m.payload)])
    /\ sent' = Append(sent, m)
    /\ nonces' = Append(nonces, <<Key, SuiteNonce(writeSeq)>>)
    /\ writeSeq' = writeSeq + 1
    /\ UNCHANGED <<suite, readSeq, rstate, delivered, budget, extracted>>

Zeros(n) == [i \in 1..n |-> Byte(0)]

PeerEncryptPadded(m, pad) == PeerSeal(m.payload \o <<Byte(m.typ)>> \o Zeros(pad), m)

\* A misbehaving TLS 1.3 peer whose inner plaintext holds no content type:
\* nothing but zeros, standing for a message of type 0.
PeerEncryptNoType(pad) ==
    /\ PeerNoType
    /\ PeerSeal(Zeros(pad), [typ |-> 0, version |-> TLSv1_2, payload |-> <<>>])

\* Receiver: RecordLayer::decrypt_incoming passes read_seq to the cipher and
\* increments it on success; an error closes the connection; a panic kills
\* the receiving process.
Decrypt ==
    /\ rstate = "open"
    /\ wire # <<>>
    /\ wire' = Tail(wire)
    /\ LET res == SuiteDecrypt(Head(wire), readSeq)
       IN  \/ /\ res.status = "ok"
              /\ delivered' = Append(delivered, [typ |-> res.msg.typ,
                                                 payload |-> res.msg.payload])
              /\ readSeq' = readSeq + 1
              /\ UNCHANGED rstate
           \/ /\ res.status = "error"
              /\ rstate' = "closed"
              /\ UNCHANGED <<delivered, readSeq>>
           \/ /\ res.status = "panic"
              /\ rstate' = "panicked"
              /\ UNCHANGED <<delivered, readSeq>>
    /\ UNCHANGED <<suite, writeSeq, budget, extracted, sent, transcript, nonces>>

\* The sender's connection is turned into its traffic secrets
\* (dangerous_extract_secrets), which asks the cipher for extract_keys.
ExtractSecrets ==
    /\ extracted = NotExtracted
    /\ extracted' = SuiteExtractKeys @@ [seq |-> writeSeq]
    /\ UNCHANGED <<suite, writeSeq, readSeq, wire, rstate, delivered, budget,
                   sent, transcript, nonces>>

---------------------------------------------------------------------------
(* The attacker on the TCP stream. *)

FlipCell(c) == IF c.k = "b" THEN [c EXCEPT !.v = @ ^^ 1] ELSE [k |-> "x"]

Attack(kind, newWire) ==
    /\ kind \in Attacks
    /\ budget > 0
    /\ budget' = budget - 1
    /\ wire' = newWire
    /\ UNCHANGED <<suite, writeSeq, readSeq, rstate, delivered, extracted,
                   sent, transcript, nonces>>

DropRecord(i) == Attack("drop", RemoveAt(wire, i))

ReplayRecord(r, i) ==
    /\ Len(wire) < MaxWire
    /\ Attack("replay", InsertAt(wire, i, r))

FlipByte(i, p) ==
    Attack("flip", [wire EXCEPT ![i].payload[p] = FlipCell(@)])

Retype(i, t) ==
    /\ t # wire[i].typ
    /\ Attack("retype", [wire EXCEPT ![i].typ = t])

Truncate(i, n) ==
    /\ n < Len(wire[i].payload)
    /\ Attack("truncate", [wire EXCEPT ![i].payload = SubSeq(@, 1, n)])

---------------------------------------------------------------------------
Next ==
    \/ \E m \in Messages : Encrypt(m)
    \/ \E m \in Messages, pad \in 1..MaxPad : PeerEncryptPadded(m, pad)
    \/ \E pad \in 1..MaxPad : PeerEncryptNoType(pad)
    \/ Decrypt
    \/ ExtractSecrets
    \/ \E i \in DOMAIN wire : DropRecord(i)
    \/ \E i \in 1..Len(wire) + 1, j \in DOMAIN transcript : ReplayRecord(transcript[j].rec, i)
    \/ \E i \in DOMAIN wire : \E p \in DOMAIN wire[i].payload : FlipByte(i, p)
    \/ \E i \in DOMAIN wire, t \in ContentTypes : Retype(i, t)
    \/ \E i \in DOMAIN wire : \E n \in ShortLengths \cup {Len(wire[i].payload) - 1} : Truncate(i, n)

\* The receiving application keeps reading what arrives.
Fairness == WF_vars(Decrypt)

Spec == Init /\ [][Next]_vars

FairSpec == Spec /\ Fairness

---------------------------------------------------------------------------
(* Properties *)

ByteCells == [k: {"b"}, v: 0..255]
Plain(m) == [typ |-> m.typ, payload |-> m.payload]

TypeOK ==
    /\ suite \in Suites
    /\ writeSeq \in 0..MaxSeq /\ readSeq \in 0..writeSeq
    /\ rstate \in {"open", "closed", "panicked"}
    /\ delivered \in Seq([typ: ContentTypes, payload: Seq(ByteCells)])
    /\ budget \in 0..AttackBudget
    /\ Len(wire) <= MaxWire
    /\ Len(sent) = writeSeq /\ Len(transcript) = writeSeq /\ Len(nonces) = writeSeq

(***************************************************************************)
(* Nonce uniqueness (spec 3, 4.2): no two records the sender protects     *)
(* under the key of this direction are sealed with the same nonce, for    *)
(* any interleaving of the application's writes with the explicit-nonce   *)
(* (AES-GCM, nonce built from fixed_iv || extra) and implicit-nonce       *)
(* (ChaCha20) derivations in Encrypt.                                      *)
(***************************************************************************)
NonceUnique == IsInjective(nonces)

(***************************************************************************)
(* Integrity and order (spec 8, round trip and tamper sensitivity): the   *)
(* receiver accepts exactly the sent messages, in order, once each, with  *)
(* their (inner) content type, whatever the attacker does to the stream;  *)
(* Decrypt's nonce, AAD and length arithmetic against read_seq must bind  *)
(* every record to its place in the stream.                               *)
(***************************************************************************)
Stream == INSTANCE RecordStream
              WITH sent <- [i \in DOMAIN sent |-> Plain(sent[i])],
                   delivered <- delivered,
                   open <- rstate = "open"

ImplementsRecordStream == Stream!Spec

(***************************************************************************)
(* Expansion exactness (spec 4.1, 8): every record the provider's         *)
(* encrypter produced is longer than its plaintext by exactly             *)
(* encrypted_payload_len, which rustls uses to size the output buffer.    *)
(***************************************************************************)
ExpansionExact ==
    \A i \in DOMAIN transcript :
        transcript[i].pad = 0 =>
            Len(transcript[i].rec.payload) = SuiteEncryptedPayloadLen(Len(sent[i].payload))

(***************************************************************************)
(* Delivery (spec 8, round trip): on an untampered stream every protected *)
(* message is eventually accepted by the receiver, so Decrypt undoes      *)
(* Encrypt for every suite, sequence number, type and payload length.     *)
(***************************************************************************)
DeliversAll ==
    \A i \in 1..MaxSeq : (Len(sent) >= i) ~> (Len(delivered) >= i)

(***************************************************************************)
(* Errors are reported, not fatal (spec 4.1, 7): whatever a peer or the   *)
(* network puts on the stream, decrypting it returns a result or a        *)
(* generic error and never aborts the receiving process.                  *)
(***************************************************************************)
PeerInputNeverPanics == rstate # "panicked"

(***************************************************************************)
(* Secret extraction (spec 4.6): extracting the sender's secrets yields   *)
(* its key and the IV from which the very next nonce of the stream,       *)
(* Nonce::new(iv, seq), is derived, so that whoever continues the stream  *)
(* neither repeats a nonce nor breaks the peer's decryption.              *)
(***************************************************************************)
ExtractedSecretsContinue ==
    extracted # NotExtracted =>
        /\ extracted.status = "ok"
        /\ extracted.key = Key
        /\ NonceNew(extracted.iv, extracted.seq) = SuiteNonce(writeSeq)
=============================================================================
