# TLA+ models of rustls-wolfcrypt-provider

This directory holds TLA+ models of the crate `src/rustls-wolfcrypt-provider`. The crate is a rustls
crypto provider built on wolfCrypt. The models are checked with TLC. `PROJECT.json` lists the
components, the runs, the mutants, the source lines each definition translates, the findings and
the hazards.

## The system

The crate plugs into rustls through trait objects. rustls owns all connection state: sequence
numbers, the key schedule and record dispatch. It calls the provider for these stateless or
per-object operations:

| Part | Source | State it holds | Operations |
|---|---|---|---|
| AES-128-GCM record cipher, TLS 1.2 | `aead/aes128gcm.rs` | The encrypter holds the key and the 12-byte IV `fixed_iv ‖ extra`. The decrypter holds the key and the 4-byte implicit IV. | `encrypter`, `decrypter`, `encrypt`, `decrypt`, `encrypted_payload_len`, `extract_keys` |
| ChaCha20-Poly1305 record cipher, TLS 1.2 and 1.3 | `aead/chacha20.rs` | The key and the 12-byte IV. | The same operations for both versions. TLS 1.3 adds the inner content-type trailer and unpadding. |
| HMAC-SHA256 | `hmac.rs` | A C `Hmac` object and a copy of the key. | `with_key`, `sign_concat` (SetKey, Update for each chunk, Final) |
| SHA-384 hash context | `hash/sha384.rs` | A C `wc_Sha384` state. | `start`, `update`, `fork`, `fork_finish`, `finish` |
| TLS 1.2 PRF | `prf.rs` | none | `for_key_exchange`, `for_secret`, each one call of `wc_PRF_TLS` |
| Curve25519 key exchange | `ex.rs` | A public key and a private key. | `use_curve25519`, `derive_shared_secret` |
| ECDSA P-256 signer | `sign.rs` | A C `ecc_key`, shared through an `Arc`. | `try_from`, `choose_scheme`, `sign` |
| RSA verification | `verify.rs` | none | `verify_signature` for PSS and PKCS#1 with SHA-256 and SHA-384; `wc_decode_spki_spk` |
| FFI bindings | `wolfcrypt-rs/src/lib.rs` | Generated code. | none |

How the record ciphers interact with rustls:
- rustls builds one cipher object per direction and epoch.
- For every record it passes the current sequence number:
  - `write_seq` to `encrypt`;
  - `read_seq` to `decrypt`, which rustls advances only when `decrypt` returns `Ok`.
- The cipher derives the nonce with `Nonce::new(iv, seq)` and the AAD with `make_tls12_aad` or
  `make_tls13_aad`, then calls the wolfCrypt AEAD.

A record cipher's correctness is therefore a property of the composition: rustls's counters, the
bytes on the wire, and the cipher's nonce, AAD and length arithmetic. That is what is modelled
first.

Hard behaviours this code is exposed to:
- a network that drops, replays, reorders, alters or truncates records;
- a TLS 1.3 peer that pads its inner plaintext;
- decrypt errors and panics, and the state of the receiver afterwards;
- the nonce of every record under one key being distinct;
- length arithmetic at its lower edge (records shorter than tag plus explicit nonce);
- secret extraction in the middle of a stream;
- for HMAC and the hash: shared C state behind `&self` (both are `Sync`), and fork/finish sequences.

## Modules

| Module | Models | Kind |
|---|---|---|
| `RecordPrimitives` | What the ciphers take from outside the crate: rustls `Nonce::new`, `make_tls12_aad`, `make_tls13_aad`, TLS 1.3 unpadding, and the wolfCrypt AEAD as an ideal cipher. These come from the spec (sections 4.2, 4.3 and 4.5), because rustls is not in this repository. | operators |
| `AesGcmTls12` | `aead/aes128gcm.rs`: the encrypter and decrypter, `encrypt`, `decrypt`, `encrypted_payload_len` and `extract_keys`, each as an operator from inputs to a record or a result. | operators |
| `ChaCha20Poly1305` | `aead/chacha20.rs`: the same operations for the TLS 1.2 and TLS 1.3 ciphers. | operators |
| `RecordStream` | The abstract promise of one direction of the record layer: the receiver accepts a prefix of the sent messages, in order, each once, with its content type, until it stops. | abstract spec |
| `RecordLayer` | Composes the above (see below). | state machine |
| `MCRecordLayer` | Model values and constant definitions for TLC. | MC module |
| `Hmac` | `hmac.rs`: `with_key` (the struct in its own frame), then `sign_concat` (its `digest` in its own frame) as the steps `hmac_init`, `hmac_update` (one per chunk) and `hmac_final`, each one C call on the shared object, for any number of threads. | state machine |
| `IncrementalHash` | The abstract `hash::Context`: contexts absorb data; `fork` copies; `fork_finish`/`finish` return the hash of what was absorbed; `finish` ends the context. | abstract spec |
| `Sha384` | `hash/sha384.rs`: `start`, `update`, `fork`, `fork_finish`, `finish`, `hash` over the by-value `wc_Sha384` state, with `wchasher_final` resetting it. | state machine |
| `KeyExchange` | `ex.rs`: `use_curve25519` and `derive_shared_secret` for several parties, with an ideal X25519. | state machine |
| `Signer` | `sign.rs`: `try_from` (every panic path), `get_key`, `scheme`, `choose_scheme` and `sign`, with the `ecc_key` living at a stack address that later calls may reuse, and the `WC_RNG` each `sign` leaks. | state machine |
| `Verifier` | `verify.rs`: `ALGORITHMS`, the four algorithms' identifiers and `verify_signature`, and `wc_decode_spki_spk`, driven by peers that sign and by a peer that presents any key, message, scheme and signature. | operators and state machine |
| `Prf` | `prf.rs`: `for_key_exchange`, `for_secret` and `prf` with `wc_PRF_TLS`, driven by the calls rustls's TLS 1.2 key schedule and exporter make. | operators and state machine |
| `MCHmac`, `MCSha384`, `MCKeyExchange`, `MCSigner`, `MCVerifier`, `MCPrf` | Model values and constant definitions for TLC. | MC modules |

### `Hmac`

- Memory is `stack`: a frame is a thread and a depth on that thread's stack, and calls at the same
  depth of one thread use the same addresses. What lies at an address is nothing yet, an `Hmac`
  struct, or the zeroed `digest` of a `sign_concat`.
- `with_key(t, d)` zeroes the struct at `<<t, d>>` (its own local, `hmac.rs:14-24`). The boxed
  `WCHmacKey`, the variable `wckey`, keeps only `HmacObject(<<t, d>>)`, a pointer to it, and its own
  copy of the key bytes.
- `hmac_init`, `hmac_update` and `hmac_final` work through `as_ptr` on whatever lies at that address.
  `sign_concat` at depth `e` first writes its `digest` array over `<<t, e>>`. If that is where the
  struct was, `wc_HmacFinal` finds no struct. This is undefined behaviour, so two outcomes are
  allowed: a junk tag, or a panic (`JunkTag`, `PanicTag`).
- `KeyDepths` and `CallDepths` are the depths `with_key` and `sign_concat` may run at. Disjoint sets
  isolate the thread interleaving. Overlapping sets also let the dead frame be reused.
- Each thread has:
  - a program counter (`"idle"` or `"update"`);
  - the depth of its current call;
  - the chunk lengths of its current call;
  - the next chunk;
  - its completed results.
- Byte *i* of buffer *b* is the cell `<<b, i>>`, so a read of 24 bytes from a 13-byte chunk yields
  11 cells past the chunk. These stand for whatever memory follows the chunk. The tag differs from
  the expected one whatever those bytes hold, because the lengths differ.
- `VEC_SIZE` = 24 is `mem::size_of_val(&self.key)`.
- Not modelled:
  - `Drop for HmacObject`, which has no effect the properties can see;
  - an empty slice's dangling address. Reading 24 bytes from it may fault.

### `Sha384` refines `IncrementalHash`

- `sha[c]` is the `WCHasher384` inside boxed context `c`, abstracted to the data absorbed since
  `wc_InitSha384`.
- The refinement mapping is the set of live contexts and the absorbed data of each.
- `ImplementsIncrementalHash` is the abstract `Spec` as a property. It checks the composition of
  clone, final and reset: a `fork_finish` that finalised the context itself, resetting it, would
  make a later digest the hash of a suffix only.

### `KeyExchange`

- An object is `[priv, pub]`, the numbers of the key pairs its parts came from (0 for unset).
- The ideal shared secret of scalar *a* and point *B* is `{a, B}`, so the two sides of a correct
  exchange agree.
- Memory is `stack`, one entry per depth in `Depths`. `use_curve25519` at depth `d` puts its two
  locals there, and the `KeyExchange` keeps two `Curve25519KeyObject` pointers to them
  (`ex.rs:11-25`).
- `derive_shared_secret` at depth `g` first writes its locals `out` and `out_length` at `g`
  (`DeriveLocals`). It then reads both keys through the pointers (`Deref`). A dead frame that has
  been reused reads as a key with neither part set.
- `wc_curve25519_shared_secret` on an object with no private part either fails or computes with
  what is there, depending on the wolfCrypt version. Both outcomes are allowed.
- The 32-byte write into a `u8` (`ex.rs:76-80`) overruns the frame. The call may therefore panic
  (`Panic`) whatever the keys. Otherwise only the returned first byte is modelled.

### `Signer`

- A stack frame is the address it occupies, one of `Frames`. The signer keeps an `ECCKeyObject`, a
  pointer to that address (`as_ptr`). Two calls made from the same stack
  depth share an address, and the model lets every call take either address.
- `stack[f]` is what lies at address `f`:
  - nothing yet;
  - an `ecc_key`, written by `wc_ecc_init` and filled by `wc_EccPrivateKeyDecode`;
  - the zeroed locals of a `sign` call.
- `try_from(der, f)` follows `sign.rs:27-74`:
  - a key that is not PKCS#8 panics;
  - otherwise `wc_ecc_init` writes at `f`;
  - a failure of `wc_GetPkcs8TraditionalOffset` or `wc_EccPrivateKeyDecode` panics after that write;
  - otherwise the key lands at `f` and the signer keeps the pointer `f`, with the fixed scheme
    `ECDSA_NISTP256_SHA256`.
- `sign(i, f, m)` is reached only through `choose_scheme` with an offered list that contains the
  scheme. Its locals overwrite `f` first. It then signs with whatever the signer's pointer finds.
  A signature is a DER header naming its length followed by cells that name key, curve and digest.
  All 265 bytes of the buffer are returned.
- Reading a key that is not there is undefined behaviour. Two outcomes are allowed: a panic, or a
  signature under an unknown key.
- `rngs` counts the DRBGs `wc_InitRng` has allocated. `sign` never frees its `WC_RNG`, so `rngs` only
  grows. A heap of `RngHeap` DRBGs is an abstraction of wolfCrypt's finite heap, which is small
  under `WOLFSSL_STATIC_MEMORY`. When the heap is full, `wc_InitRng` returns `MEMORY_E` and
  `sign` panics (`sign.rs:110-113`) before using the key. Each result records whether the call
  found the key intact.

### `Verifier`

- An RSA key pair is ideal. Its modulus and exponent are two cells each.
- A signature names the public key, the padding and the digest it was made with.
- `wc_RsaPSS_VerifyCheck` and `wc_SignatureVerify` accept exactly a signature whose key, padding
  and digest match. They return a positive length and 0 respectively, as wolfCrypt does.
- `wc_decode_spki_spk` reads `capacity()` bytes of each decoded integer. `Capacity` is the length,
  which is what `num-bigint-dig` allocates. Bytes past the length would be other memory.
  `to_bytes_be` allocates exactly the bytes it writes, so capacity equals length today. That is
  why it is not listed as a hazard; the `DecodeSpkiPastLen` mutant only shows `VerdictIsValidity`
  would catch a capacity larger than the length.
- The state is only the set of signatures peers have made, bounded by `MaxSigned`, and the last
  verification. The run therefore covers every combination of:
  - scheme;
  - certificate key (including malformed DER);
  - message;
  - genuine or forged signature;
  - lookup through `mapping` or `all`.

### `Prf`

- A byte string is its name and its length.
- `wc_PRF_TLS` returns `BUFFER_E` when label plus seed exceed `MAX_PRF_LABSEED` (128 bytes, the
  buffer in wolfCrypt's `kdf.c`). Otherwise it returns an ideal PRF output.
- `prf` panics on any non-zero return (`prf.rs:56-58`). `for_key_exchange` fails only when
  `kx.complete` rejects the peer's share.
- The connection's actions are the calls rustls's TLS 1.2 key schedule makes:
  - the master secret, with and without extended master secret;
  - the key block;
  - the verify data;
  - `export_keying_material`, whose seed is both randoms plus a context prefixed with its u16
    length.
- These actions come from rustls's use of the trait, not from this repository.

### The `RecordLayer` composition

This module models one direction of a connection:
- the sender's rustls record layer with `write_seq`;
- the negotiated provider cipher;
- the TCP stream;
- the receiver's record layer with `read_seq`.

Its actions:
- `Encrypt(m)`: `encrypt_outgoing`. It calls the suite's `encrypt` with `write_seq`, appends the record to the stream and increments `write_seq`.
- `Decrypt`: `decrypt_incoming`. It takes the first record and calls the suite's `decrypt` with `read_seq`:
  - `Ok`: delivers the plaintext and increments `read_seq`;
  - error: closes the receiver;
  - panic: the receiver is `"panicked"`, which ends it.
- `ExtractSecrets`: `dangerous_extract_secrets` on the sender. It calls `extract_keys` and ends the sender.
- `PeerEncryptPadded`, `PeerEncryptNoType`: a TLS 1.3 peer other than this provider.
  - It seals an inner plaintext with zero padding, under the same key, nonce and record-header AAD.
  - The no-type variant sends only zeros, which RFC 8446 forbids; the receiver must reject it.
- `DropRecord`, `ReplayRecord`, `FlipByte`, `Retype`, `Truncate`: the attacker, within `AttackBudget`.

#### Data abstraction

- A payload is a sequence of cells. A cell is one of:
  - a clear byte;
  - byte *i* of the ciphertext of a seal call;
  - byte *j* of its tag;
  - a byte the attacker altered.
- Lengths, offsets and the clear explicit-nonce bytes are therefore exact.
- The cipher is ideal: a tag opens only under the key, nonce and AAD, and over the ciphertext, it was made for.
- Nonces and AADs are real byte sequences, built by the rustls helpers from the IV and the sequence number.

## Runs

| Run | Expect | Properties | What it shows |
|---|---|---|---|
| `record_adversary` | pass | `TypeOK`, `NonceUnique`, `ImplementsRecordStream` | All three suites, an attacker with one move of every kind, and a padding TLS 1.3 peer (including an all-zero inner plaintext). The sender never seals two records with one nonce. The receiver implements `RecordStream`: what it accepts is always the next sent message with its true content type. After any tampering it stops; it never accepts something else. |
| `record_honest` | pass | `ExpansionExact`, `DeliversAll` | No attacker. Every record the provider produces is exactly `encrypted_payload_len` longer than its plaintext. Under weak fairness of `Decrypt`, every sent message is eventually delivered (the round trip of spec section 8 for every suite, type, payload length and sequence number up to the bound). |
| `peer_input_panics` | violation | `PeerInputNeverPanics` | The attacker may flip one byte or cut a record short. TLC reports a flipped byte making `decrypt` panic. With `Attacks <- MC_TruncateOnly` it reports a truncated record panicking through a `usize` underflow or a slice. |
| `gcm_extract_keys_panics` | violation | `ExtractedSecretsContinue` | AES-GCM `extract_keys` always panics. |
| `hmac_tags` | violation | `TagIsHmacOfConcat` | Two threads sign with one 24-byte key. The calls have rustls's HKDF-Expand shape (`T(0)` empty, 13-byte info, 1-byte counter) or 24-byte chunks, and run at `with_key`'s depth or one deeper. TLC reports the shortest wrong tag: `sign_concat` at `with_key`'s depth writes its `digest` over the dead struct, and the tag is junk. The cfg's comment gives the constants that reach each cause alone. With one thread, a 32-byte key and HKDF calls, the tag is not HMAC of the concatenation (the length bug). With 24-byte chunks and no shared frame, a second thread's `hmac_init` between another's updates and its final gives the first thread a wrong tag. |
| `sha384_contexts` | pass | `ImplementsIncrementalHash` | Three contexts, two data values, up to three updates each: every interleaving of start, update, fork, fork_finish, finish and hash returns the right digests. |
| `key_exchange_agreement` | violation | `SecretsAgree` | Two parties as in `test_curve25519`, with calls at two depths, so a derivation may read keys through pointers into a reused dead frame. They never agree, and the derivation can panic. |
| `verify_verdicts` | pass | `VerdictIsValidity` | Through `mapping` and through `all`, `verify_signature` returns `Ok` exactly for a genuine signature, for every combination of two key pairs, four schemes, two messages, a malformed key and a forgery. It never panics. |
| `signer_trailing_zeros` | violation | `SignatureIsDer` | The first signature already carries about 190 zero bytes after its DER encoding. |
| `signer_stale_key` | violation | `SignsWithOwnKey` | After `try_from` returns, a call that reuses its stack address leaves the signer pointing at something that is not its key. `sign` then panics or signs with that. |
| `signer_rng_leak` | violation | `SignsWhileKeyIntact` | Keys that decode, and a heap with room for two DRBGs (`RngHeap`). Two signatures succeed. The third `sign`, with the key still intact, panics: `wc_InitRng` fails because both earlier calls leaked their `WC_RNG`. |
| `prf_exporter_panics` | violation | `PrfNeverPanics` | The handshake's PRF calls succeed. An exporter with a 24-byte label and a 40-byte context (130 bytes of label and seed) panics. |

Each passing property has a mutant in `PROJECT.json`. The mutant is a plausible bug in the mapped
code, and TLC finds the property violated under it:
- a nonce without the sequence number;
- a TLS 1.2 decrypt that does not truncate the tag;
- a TLS 1.3 decrypt without unpadding;
- an expansion that forgets the content-type byte;
- an AAD length that forgets the explicit nonce;
- a `fork_finish` that finalises the context in place;
- a `wc_decode_spki_spk` that passes one byte more than each integer holds, as a capacity larger
  than the length would.

### Bounds

| Bound | Value | Why it is enough |
|---|---|---|
| `MaxSeq` | 3 | Three records give two distinct non-zero sequence numbers, so nonce XOR arithmetic and replay of a record at another position both occur. |
| `MaxWire` | 3 | Up to three records in flight. |
| `Payloads` | `<<>>` and `<<0>>` | The empty and the one-byte payload. A zero byte also exercises the unpadding rule on a payload ending in 0 inside a typed plaintext. |
| `ContentTypes` | 22, 23 | Two content types, so retyping is possible. |
| `MaxPad` | 1 | One byte of peer padding. |
| `AttackBudget` | 1 | One attacker move per behaviour, of every kind. |
| `ShortLengths` | `{5}`, plus one byte short | Cover payloads shorter than the tag and shorter than tag plus explicit nonce. |

Bounds of the other runs:
- `hmac_tags`: two threads, one call each, two depths, both call shapes. Two chunks per call give a
  point between a thread's updates where the other thread can re-key. Two depths let a call reuse
  the frame `with_key` ran in, or not. A 24-byte key and 24-byte chunks keep the length bug silent
  there, so the other two causes can show.
- `sha384_contexts`: three contexts, so a fork of a fork exists; two data values; `MaxLen` = 3.
  Absorbed data can differ at any position before and after a fork.
- `key_exchange_agreement`: the two parties of the repository's test and two depths, so a frame
  can be reused or not.
- `verify_verdicts`: two key pairs, so a signature can be checked against the wrong key; two
  messages; all four schemes, so each padding and hash can be confused with the others; two peer
  signatures (`MaxSigned`) plus a forgery. About 9,600 states.
- Signer runs:
  - two frame addresses, so a call can reuse the signer's address or not;
  - two P-256 keys, a SEC1 key and a malformed PKCS#8;
  - DER lengths 70 to 72;
  - three calls.
  `MC_P384Ders` (a P-384 PKCS#8 key) makes `SignsWithOwnKey` fail on the curve instead.
  `signer_rng_leak` allows four calls with `RngHeap` = 2, one more signature than the heap holds.
  The other two Signer runs set `RngHeap` = 3, which their three calls never exhaust.
- `prf_exporter_panics`: the exporter label of RFC 5929's `tls-exporter` style (24 bytes), with no
  context, a 32-byte context (122 bytes, accepted) and a 40-byte context (130 bytes, refused).

The IVs are concrete byte sequences with non-zero bytes, so the XOR is exercised.

`CHECK_DEADLOCK FALSE` is justified because a connection really is idle once `MaxSeq` records are
sent and read.

### Fairness

`record_honest` assumes weak fairness of `Decrypt` only. This is the application reading from
the socket while data is available: rustls performs `decrypt_incoming` whenever the application
calls `read_tls`/`process_new_packets`. No fairness is assumed for the sender, the peer or the
attacker.

## Findings

- **Authentication failure panics (spec sections 4.1 and 7).** `aes128gcm.rs:238` and
  `chacha20.rs:163, 305` panic when the tag does not verify. A peer or the network can abort the
  receiving process instead of getting a decrypt error.
- **Short records panic (spec section 7).** `chacha20.rs:139, 282` underflow, and
  `aes128gcm.rs:194-198` slice out of range, on payloads shorter than the tag (plus the 8-byte
  explicit nonce for AES-GCM).
- **AES-GCM `extract_keys` always panics.** `aes128gcm.rs:68-69` copies slices of 4 and 8 bytes
  into a 12-byte vector with `copy_from_slice`. Even with matching lengths, the second copy would
  overwrite the first.

- **HMAC key and update lengths.** `hmac.rs:76` and `:93` pass `size_of_val(&self.key)` (24, the
  size of a `Vec`) as the key length and as every chunk length. Every HKDF/PRF output of this
  provider is therefore wrong, or reads past its chunks.
- **HMAC under `Sync`.** `hmac.rs:38` declares the object `Sync`, but `sign_concat` drives one C
  object through `&self`, so concurrent signing with one key mixes messages.
- **The HMAC object is a dangling pointer.** `hmac.rs:14-24` zeroes the `Hmac` struct in
  `with_key`'s own frame and boxes only a pointer to it. A later `sign_concat` at the same depth
  writes its `digest` there (`hmac.rs:133`), and `wc_HmacFinal` works on that.
- **ECDSA signatures carry trailing zeros.** `sign.rs:129` returns `sig.to_vec()`, all 265 bytes,
  instead of the `sig_sz` bytes `wc_ecc_sign_hash` wrote.
- **The signer's key is a dangling pointer.** `sign.rs:31-32` puts the `ecc_key` in `try_from`'s
  stack frame and keeps only a pointer in the `Arc`.
- **Scheme fixed whatever the curve** (a hazard, covered by `SignsWithOwnKey` with
  `MC_P384Ders`). `try_from` accepts any EC key in PKCS#8 and labels it
  `ECDSA_NISTP256_SHA256`.
- **The TLS 1.2 exporter can panic.** `prf.rs:57` panics when `wc_PRF_TLS` refuses more than 128
  bytes of label and seed, which an application label plus context reaches.
- **Key exchange cannot agree.** `ex.rs:57-64` generates both key pairs into `public_key`.
  `derive_shared_secret` then combines a party's own unset private key with its own public key.
  Both keys are locals of `use_curve25519` (`ex.rs:36-39`), read later through dangling pointers.
- **Every signature leaks a DRBG.** `sign.rs:110` calls `wc_InitRng` and never `wc_FreeRng`
  (`use_curve25519` does the same at `ex.rs:52`). Once the heap is exhausted, `sign` panics with a
  good key.

## Not modelled yet, and the plan

Done so far:
- the record layer;
- HMAC;
- the SHA-384 context;
- the key exchange;
- the signer;
- the verifier;
- the PRF.

Nothing of this repository's `src/` that changes state is left out. Two items of the earlier plan
are not taken up, for these reasons:
- **TLS 1.3 key update.** This is rustls code. The provider only builds a new `Tls13Cipher` from
  the new key and IV, which `record_adversary` already covers for one key. Nonces under
  different keys cannot collide as `NonceUnique` counts them.
- **Unpadding against a reference definition.** `UnpadTls13` is rustls code, modelled from its
  behaviour. `ImplementsRecordStream` already checks it through every padded and all-zero record
  of `record_adversary`, and the `Tls13DecryptPadded` mutant breaks it there. A check over
  sample strings would be a constant and say nothing about a state of the system.

Stack frames are modelled in `Signer`, `Hmac` and `KeyExchange`: each keeps pointers to dead
locals (`sign.rs:31`, `hmac.rs:17`, `ex.rs:36-39`).

Out of reach or not worth a model:
- the FFI bindings;
- `HmacObject::drop` (`wc_HmacFree` on the dangling object), which changes no value a property can
  compare;
- the DRBG `use_curve25519` leaks (`ex.rs:52`). It is the same leak as `sign`'s, which
  `signer_rng_leak` shows.
- what the 32-byte write into a 1-byte buffer at `ex.rs:80` overwrites, beyond the returned byte
  and a possible panic;
- the hash and signature algorithms themselves, which are ideal in every module;
- `algorithm()` and `hash_output_len`/`tag_len`, which are constants.
