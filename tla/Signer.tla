------------------------------- MODULE Signer -------------------------------
(***************************************************************************)
(* src/sign.rs: EcdsaSigningKeyP256.  try_from decodes a PKCS#8 key into  *)
(* ecc_key_struct, a local of its own stack frame, and keeps in an Arc an *)
(* ECCKeyObject that is only a pointer to it; sign later uses the key      *)
(* through that pointer.  A frame is modelled by the address it occupies, *)
(* one of Frames: two calls made from the same stack depth share it.      *)
(* stack[f] is what lies at address f: nothing yet, an ecc_key written by *)
(* wc_ecc_init and filled by wc_EccPrivateKeyDecode, or the zeroed locals *)
(* of a sign call.  Reading a key that is not there is undefined; the     *)
(* outcomes allowed are a panic (wc_ecc_sign_hash rejects it) or a        *)
(* signature under whatever it finds.                                      *)
(*                                                                         *)
(* wc_InitRng allocates the DRBG state of a WC_RNG on wolfCrypt's heap,   *)
(* which has room for RngHeap of them; a full heap makes it fail with     *)
(* MEMORY_E.  sign never calls wc_FreeRng, so rngs only grows.            *)
(*                                                                         *)
(* Data: the SHA-256 digest of m is <<"sha256", m>>.  A DER signature of  *)
(* sz bytes is a header cell <<"hdr", sz>> then sz - 1 cells naming the   *)
(* key, its curve and the digest; a zero byte of the buffer is ZeroByte.  *)
(***************************************************************************)
EXTENDS Naturals, Sequences

CONSTANTS
    Ders,      \* the PrivateKeyDer values try_from may be given
    Messages,  \* the messages rustls asks to sign
    Offers,    \* the scheme lists a peer may offer
    Frames,    \* the addresses a call's locals may occupy
    SigLens,   \* the lengths of DER signature wc_ecc_sign_hash may write
    MaxCalls,  \* bound on try_from and sign calls together
    RngHeap    \* the DRBGs wolfCrypt's heap has room for

ASSUME \A d \in Ders : d.format \in {"Pkcs8", "Pkcs1", "Sec1"}
                       /\ d.alg \in {"ec", "rsa", "malformed"}
ASSUME SigLens \subseteq 2..265
ASSUME RngHeap \in Nat

ECDSA_NISTP256_SHA256 == "ECDSA_NISTP256_SHA256"

\* The curve a signature scheme names.
SchemeCurve == [s \in {ECDSA_NISTP256_SHA256} |-> "P256"]

ZeroByte == <<"zero">>
Nothing == [obj |-> "nothing"]
\* The zeroed rng, digest and sig buffer of a sign call.
Locals == [obj |-> "locals"]
Panic == [panic |-> TRUE, sig |-> <<>>]
Garbage == "garbage"

Sha256(m) == <<"sha256", m>>

DerSig(sz, key, curve, digest) ==
    [j \in 1..sz |-> IF j = 1 THEN <<"hdr", sz>>
                             ELSE <<"sig", key, curve, digest>>]

VARIABLES
    stack,    \* the memory at each frame address
    signers,  \* the EcdsaSigningKeyP256 values built: key pointer, scheme, source
    results,  \* the outcome of every sign call: signer, message, bytes or panic
    ncalls,   \* calls made
    rngs      \* the DRBGs wc_InitRng allocated and nobody freed

vars == <<stack, signers, results, ncalls, rngs>>

Init ==
    /\ stack = [f \in Frames |-> Nothing]
    /\ signers = <<>>
    /\ results = <<>>
    /\ ncalls = 0
    /\ rngs = 0

\* ECCKeyObject::from_ptr and as_ptr: the object is the address it wraps.
ECCKeyObject(ptr) == [ptr |-> ptr]
as_ptr(object) == object.ptr

\* wc_ecc_init: an ecc_key holding no key yet.
wc_ecc_init == [obj |-> "ecc_key", key |-> "none", curve |-> "none"]

\* wc_GetPkcs8TraditionalOffset: ret < 0 unless the PKCS#8 wrapper parses.
wc_GetPkcs8TraditionalOffset(der) == der.alg # "malformed"

\* wc_EccPrivateKeyDecode: 0 for an EC private key of any curve it knows.
wc_EccPrivateKeyDecode(der) == der.alg = "ec"

(***************************************************************************)
(* try_from with its locals at address f: a non-PKCS#8 key panics; else   *)
(* wc_ecc_init writes an empty key at f, and a failure of either decode   *)
(* step panics with that write done; else the key lands at f and the new *)
(* signer points there, with the fixed scheme ECDSA_NISTP256_SHA256.      *)
(***************************************************************************)
try_from(der, f) ==
    /\ ncalls < MaxCalls
    /\ ncalls' = ncalls + 1
    /\ UNCHANGED <<results, rngs>>
    /\ IF der.format # "Pkcs8"
          THEN UNCHANGED <<stack, signers>>
       ELSE IF ~wc_GetPkcs8TraditionalOffset(der) \/ ~wc_EccPrivateKeyDecode(der)
          THEN /\ stack' = [stack EXCEPT ![f] = wc_ecc_init]
               /\ UNCHANGED signers
       ELSE /\ stack' = [stack EXCEPT ![f] = [wc_ecc_init EXCEPT !.key = der.key,
                                                             !.curve = der.curve]]
            /\ signers' = Append(signers, [key |-> ECCKeyObject(f), scheme |-> ECDSA_NISTP256_SHA256,
                                           from |-> der])

\* get_key and scheme: the Arc'd key pointer and the scheme.
get_key(signer) == signer.key
scheme(signer) == signer.scheme

\* choose_scheme: the signer itself if its scheme is offered.
choose_scheme(signer, offered) == signer.scheme \in offered

(***************************************************************************)
(* Signer::sign of message m by signer i, reached through choose_scheme,  *)
(* with its locals at address f: the zeroed rng, digest and sig buffer    *)
(* overwrite f first; then wc_Sha256Hash, wc_InitRng and wc_ecc_sign_hash *)
(* with the key read through the pointer, which writes sz bytes; all 265  *)
(* bytes of the buffer are returned.  A failing wc_InitRng panics before  *)
(* the key is used; the rng is dropped without wc_FreeRng.                *)
(***************************************************************************)
sign(i, f, m) ==
    /\ ncalls < MaxCalls
    /\ \E offered \in Offers : choose_scheme(signers[i], offered)
    /\ LET mem == [stack EXCEPT ![f] = Locals]
           obj == mem[as_ptr(get_key(signers[i]))]
           Sign(key, curve) ==
               {[panic |-> FALSE,
                 sig |-> [j \in 1..265 |->
                            IF j <= sz THEN DerSig(sz, key, curve, Sha256(m))[j]
                                       ELSE ZeroByte]] : sz \in SigLens}
           intact == obj.obj = "ecc_key" /\ obj.key # "none"
           outcomes == IF rngs >= RngHeap THEN {Panic}
                       ELSE IF intact THEN Sign(obj.key, obj.curve)
                       ELSE {Panic} \cup Sign(Garbage, Garbage)
       IN  /\ stack' = mem
           /\ rngs' = IF rngs >= RngHeap THEN rngs ELSE rngs + 1
           /\ \E out \in outcomes :
                 results' = Append(results, [panic |-> out.panic, sig |-> out.sig,
                                               signer |-> i, msg |-> m,
                                               key_intact |-> intact])
    /\ ncalls' = ncalls + 1
    /\ UNCHANGED signers

Next ==
    \/ \E der \in Ders, f \in Frames : try_from(der, f)
    \/ \E i \in DOMAIN signers, f \in Frames, m \in Messages : sign(i, f, m)

Spec == Init /\ [][Next]_vars

---------------------------------------------------------------------------
(***************************************************************************)
(* What rustls and the peer rely on: every signature sign returns is a    *)
(* DER ECDSA signature and nothing more, so a strict DER parser that      *)
(* reads the header length accepts it (sign.rs:129 returns the buffer).   *)
(***************************************************************************)
SignatureIsDer ==
    \A r \in 1..Len(results) :
        ~results[r].panic => results[r].sig[1] = <<"hdr", Len(results[r].sig)>>

(***************************************************************************)
(* Every signature is made with the key the signer was built from, on the *)
(* curve of the scheme it announces, over the SHA-256 of the message, and *)
(* sign never panics: the Arc'd key object must still hold the key        *)
(* try_from decoded, and that key must be the one scheme() names.          *)
(***************************************************************************)
SignsWithOwnKey ==
    \A r \in 1..Len(results) :
        LET der == signers[results[r].signer].from
        IN  /\ ~results[r].panic
            /\ results[r].sig[2] = <<"sig", der.key,
                                     SchemeCurve[scheme(signers[results[r].signer])],
                                     Sha256(results[r].msg)>>

(***************************************************************************)
(* Signing keeps working: a sign call that finds the signer's decoded key *)
(* intact behind its pointer returns a signature.  Every call leaks the   *)
(* WC_RNG it initialised (sign.rs:110, no wc_FreeRng), so after enough     *)
(* handshakes wc_InitRng fails and sign panics with a good key.            *)
(***************************************************************************)
SignsWhileKeyIntact ==
    \A r \in 1..Len(results) : results[r].key_intact => ~results[r].panic
=============================================================================
