-------------------------------- MODULE Prf --------------------------------
(***************************************************************************)
(* src/prf.rs: PrfTls12, the TLS 1.2 PRF rustls calls for the master      *)
(* secret (for_key_exchange) and for every other secret (for_secret): the *)
(* key block, the Finished verify_data and exported keying material.      *)
(* Both reach prf, one call of wc_PRF_TLS with SHA-256, which panics on   *)
(* any non-zero return.  wc_PRF_TLS copies label || seed into a buffer of *)
(* MAX_PRF_LABSEED bytes and returns BUFFER_E when they do not fit.        *)
(*                                                                         *)
(* Data: a byte string is its name and its length; the PRF itself is      *)
(* ideal, its output naming secret, label and seed.                        *)
(***************************************************************************)
EXTENDS Integers, Sequences

CONSTANTS
    PeerKeys,         \* the key shares a peer may send: "valid" or "invalid"
    ExporterLabels,   \* the lengths of the labels an application exports with
    ExporterContexts, \* the lengths of its contexts; NoContext for None
    NoContext,
    MaxExports        \* bound on export_keying_material calls

ASSUME PeerKeys \subseteq {"valid", "invalid"}

\* wolfCrypt's kdf.c: the label plus seed wc_PRF_TLS accepts, and its error.
MAX_PRF_LABSEED == 128
BUFFER_E == -132

Str(name, len) == [name |-> name, len |-> len]

Panic == [panic |-> TRUE]
Err == [panic |-> FALSE, ok |-> FALSE]
Output(out) == [panic |-> FALSE, ok |-> TRUE, out |-> out]

\* wc_PRF_TLS with use_at_least_sha_256 and sha256_mac.
wc_PRF_TLS(out_len, secret, label, seed) ==
    IF label.len + seed.len > MAX_PRF_LABSEED
       THEN [ret |-> BUFFER_E]
       ELSE [ret |-> 0, out |-> [prf |-> <<secret, label, seed>>, len |-> out_len]]

\* prf: a non-zero ret panics, else Ok with the output written.
prf(out_len, secret, label, seed) ==
    LET r == wc_PRF_TLS(out_len, secret, label, seed)
    IN  IF r.ret # 0 THEN Panic ELSE Output(r.out)

\* for_key_exchange: kx.complete(peer_pub_key)? (an invalid share is an
\* error), then prf of the shared secret into the 48-byte master secret.
for_key_exchange(peer_pub_key, label, seed) ==
    IF peer_pub_key = "invalid" THEN Err
    ELSE prf(48, Str(<<"shared", peer_pub_key>>, 32), label, seed)

\* for_secret: prf(..).expect(..); prf returns no error, so its outcome.
for_secret(out_len, secret, label, seed) == prf(out_len, secret, label, seed)

---------------------------------------------------------------------------
(***************************************************************************)
(* How rustls's TLS 1.2 key schedule calls the PRF: the master secret     *)
(* with "extended master secret" and the 32-byte session hash, or "master *)
(* secret" and the 64 bytes of both randoms; the AES-128-GCM key block    *)
(* (40 bytes) with "key expansion" and the randoms; the 12-byte verify    *)
(* data with "client finished" and the handshake hash; and                 *)
(* export_keying_material with the application's label and the randoms,   *)
(* followed by the u16 length and bytes of its context when there is one. *)
(***************************************************************************)
RANDOMS == Str("randoms", 64)
HASH == Str("handshake_hash", 32)

ExporterSeed(ctx) ==
    IF ctx = NoContext THEN RANDOMS ELSE Str(<<"randoms_context", ctx>>, 64 + 2 + ctx)

VARIABLES
    phase,     \* "hello", "keys", "finished", "established", "aborted", "panicked"
    master,    \* the master secret, once derived
    exports    \* the outcomes of export_keying_material

vars == <<phase, master, exports>>

Init ==
    /\ phase = "hello"
    /\ master = Str("none", 0)
    /\ exports = <<>>

\* The outcome of a call, as the connection sees it.
After(r, next) == IF r.panic THEN "panicked" ELSE IF ~r.ok THEN "aborted" ELSE next

DeriveMasterSecret(peer, ems) ==
    /\ phase = "hello"
    /\ LET r == IF ems THEN for_key_exchange(peer, Str("extended master secret", 22), HASH)
                       ELSE for_key_exchange(peer, Str("master secret", 13), RANDOMS)
       IN  /\ phase' = After(r, "keys")
           /\ master' = IF r.panic \/ ~r.ok THEN master
                        ELSE Str(r.out, 48)
    /\ UNCHANGED exports

ExpandKeys ==
    /\ phase = "keys"
    /\ phase' = After(for_secret(40, master, Str("key expansion", 13), RANDOMS), "finished")
    /\ UNCHANGED <<master, exports>>

VerifyData ==
    /\ phase = "finished"
    /\ phase' = After(for_secret(12, master, Str("client finished", 15), HASH), "established")
    /\ UNCHANGED <<master, exports>>

ExportKeyingMaterial(label, ctx) ==
    /\ phase = "established"
    /\ Len(exports) < MaxExports
    /\ LET r == for_secret(32, master, Str("exporter_label", label), ExporterSeed(ctx))
       IN  /\ exports' = Append(exports, r)
           /\ phase' = After(r, "established")
    /\ UNCHANGED master

Next ==
    \/ \E peer \in PeerKeys, ems \in BOOLEAN : DeriveMasterSecret(peer, ems)
    \/ ExpandKeys
    \/ VerifyData
    \/ \E label \in ExporterLabels, ctx \in ExporterContexts : ExportKeyingMaterial(label, ctx)

Spec == Init /\ [][Next]_vars

---------------------------------------------------------------------------
(***************************************************************************)
(* The Prf contract rustls relies on: for_key_exchange fails only through *)
(* its Result, and for_secret, which has no error channel, always         *)
(* produces output; so no PRF call of the key schedule or of an exporter  *)
(* panics (prf.rs:57 panics on any wc_PRF_TLS error).                     *)
(***************************************************************************)
PrfNeverPanics == phase # "panicked"
=============================================================================
