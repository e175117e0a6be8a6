------------------------------ MODULE Verifier ------------------------------
(***************************************************************************)
(* src/verify.rs: the RSA signature verification algorithms of the         *)
(* provider.  rustls finds an algorithm through ALGORITHMS (by TLS scheme *)
(* through mapping, by certificate algorithm identifier through all) and  *)
(* calls its verify_signature with the peer's public key, the message and *)
(* the signature.  The peers' RSA key pairs are ideal: the modulus and    *)
(* exponent of key pair k are UINT_LEN cells each, and a signature names  *)
(* the public key, the padding and the digest it was made with.           *)
(***************************************************************************)
EXTENDS Integers, Sequences, FiniteSets

CONSTANTS
    KeyPairs,   \* the peers' RSA key pairs
    Messages,   \* the messages signed and verified
    MaxSigned   \* bound on the signatures the peers make

UINT_LEN == 2

Uint(k, part) == [i \in 1..UINT_LEN |-> <<k, part, i>>]

\* The subjectPublicKey bytes of a certificate: the DER of [n, e], or junk.
Spki(k) == [der_ok |-> TRUE, ne |-> <<Uint(k, "n"), Uint(k, "e")>>]
MalformedSpki == [der_ok |-> FALSE, ne |-> <<>>]
PublicKeys == {Spki(k) : k \in KeyPairs} \cup {MalformedSpki}

PublicOf(k) == [n |-> Uint(k, "n"), e |-> Uint(k, "e")]

Schemes == {"RSA_PSS_SHA256", "RSA_PSS_SHA384", "RSA_PKCS1_SHA256", "RSA_PKCS1_SHA384"}

\* What a TLS signature scheme means: its padding and its hash.
SchemeMeaning == [RSA_PSS_SHA256   |-> [pad |-> "pss",   hash |-> "sha256"],
                  RSA_PSS_SHA384   |-> [pad |-> "pss",   hash |-> "sha384"],
                  RSA_PKCS1_SHA256 |-> [pad |-> "pkcs1", hash |-> "sha256"],
                  RSA_PKCS1_SHA384 |-> [pad |-> "pkcs1", hash |-> "sha384"]]

\* A peer's signature of m with key pair k under scheme s.
RsaSign(k, s, m) ==
    [by |-> PublicOf(k), pad |-> SchemeMeaning[s].pad,
     digest |-> <<SchemeMeaning[s].hash, m>>]

Forged == [by |-> [n |-> <<>>, e |-> <<>>], pad |-> "pss", digest |-> <<>>]

Ok == "Ok"
Err == "InvalidSignature"

---------------------------------------------------------------------------
\* The four algorithms: their identifiers, as public_key_alg_id and
\* signature_alg_id return them.
RsaPssSha256Verify == [name |-> "RsaPssSha256Verify", public_key_alg_id |-> "RSA_ENCRYPTION",
                       signature_alg_id |-> "RSA_PSS_SHA256"]
RsaPssSha384Verify == [name |-> "RsaPssSha384Verify", public_key_alg_id |-> "RSA_ENCRYPTION",
                       signature_alg_id |-> "RSA_PSS_SHA384"]
RsaPkcs1Sha256Verify == [name |-> "RsaPkcs1Sha256Verify", public_key_alg_id |-> "RSA_ENCRYPTION",
                         signature_alg_id |-> "RSA_PKCS1_SHA256"]
RsaPkcs1Sha384Verify == [name |-> "RsaPkcs1Sha384Verify", public_key_alg_id |-> "RSA_ENCRYPTION",
                         signature_alg_id |-> "RSA_PKCS1_SHA384"]

\* ALGORITHMS: all, and the mapping from TLS scheme to algorithms.
ALGORITHMS ==
    [all     |-> {RsaPssSha256Verify, RsaPssSha384Verify,
                  RsaPkcs1Sha256Verify, RsaPkcs1Sha384Verify},
     mapping |-> [RSA_PSS_SHA256   |-> {RsaPssSha256Verify},
                  RSA_PSS_SHA384   |-> {RsaPssSha384Verify},
                  RSA_PKCS1_SHA256 |-> {RsaPkcs1Sha256Verify},
                  RSA_PKCS1_SHA384 |-> {RsaPkcs1Sha384Verify}]]

---------------------------------------------------------------------------
\* Vec::capacity of what BigUint::to_bytes_be returns: num-bigint-dig
\* allocates exactly the bytes it writes.
Capacity(v) == Len(v)

\* len bytes read from the buffer of v: past its length lies other memory.
ReadPast(v, len) == [i \in 1..len |-> IF i <= Len(v) THEN v[i] ELSE <<"past", v, i>>]

\* A decoding that passes one byte more than each vector holds, as a
\* capacity larger than the length would.
DecodeSpkiPastLen(spki_spk) ==
    IF ~spki_spk.der_ok THEN [ok |-> FALSE]
    ELSE [ok |-> TRUE, key |-> [n |-> ReadPast(spki_spk.ne[1], Len(spki_spk.ne[1]) + 1),
                                e |-> ReadPast(spki_spk.ne[2], Len(spki_spk.ne[2]) + 1)]]

(***************************************************************************)
(* wc_decode_spki_spk: DER-decode [n, e] (an error is InvalidSignature),  *)
(* round-trip both through BigUint, wc_InitRsaKey, then                   *)
(* wc_RsaPublicKeyDecodeRaw with the capacity of each byte vector as its  *)
(* length; ret = 0 gives the key.                                          *)
(***************************************************************************)
wc_decode_spki_spk(spki_spk) ==
    IF ~spki_spk.der_ok THEN [ok |-> FALSE]
    ELSE LET n_bytes == spki_spk.ne[1]
             e_bytes == spki_spk.ne[2]
         IN  [ok |-> TRUE, key |-> [n |-> ReadPast(n_bytes, Capacity(n_bytes)),
                                    e |-> ReadPast(e_bytes, Capacity(e_bytes))]]

\* wc_Hash: the digest of the message with the given hash.
wc_Hash(hash, message) == <<hash, message>>

\* wc_RsaPSS_VerifyCheck: the length of the recovered data when the PSS
\* encoding under the key holds the digest, a negative error otherwise.
wc_RsaPSS_VerifyCheck(signature, digest, key) ==
    IF signature.by = key /\ signature.pad = "pss" /\ signature.digest = digest
       THEN 64 ELSE -1

\* wc_SignatureVerify with WC_SIGNATURE_TYPE_RSA_W_ENC: hashes the
\* message, then checks the PKCS#1 v1.5 DigestInfo; 0 on success.
wc_SignatureVerify(hash, message, signature, key) ==
    IF signature.by = key /\ signature.pad = "pkcs1"
       /\ signature.digest = wc_Hash(hash, message)
       THEN 0 ELSE -1

\* verify_signature of the two RSA-PSS algorithms: accept on ret >= 0.
RsaPssVerifySignature(hash, public_key, message, signature) ==
    LET rsa_key == wc_decode_spki_spk(public_key)
    IN  IF ~rsa_key.ok THEN Err
        ELSE IF wc_RsaPSS_VerifyCheck(signature, wc_Hash(hash, message), rsa_key.key) >= 0
                THEN Ok ELSE Err

\* verify_signature of the two PKCS#1 algorithms: accept on ret = 0.
RsaPkcs1VerifySignature(hash, public_key, message, signature) ==
    LET rsa_key == wc_decode_spki_spk(public_key)
    IN  IF ~rsa_key.ok THEN Err
        ELSE IF wc_SignatureVerify(hash, message, signature, rsa_key.key) = 0
                THEN Ok ELSE Err

\* Each algorithm's verify_signature, with the hash its body names.
RsaPssSha256VerifySignature(public_key, message, signature) ==
    RsaPssVerifySignature("sha256", public_key, message, signature)
RsaPssSha384VerifySignature(public_key, message, signature) ==
    RsaPssVerifySignature("sha384", public_key, message, signature)
RsaPkcs1Sha256VerifySignature(public_key, message, signature) ==
    RsaPkcs1VerifySignature("sha256", public_key, message, signature)
RsaPkcs1Sha384VerifySignature(public_key, message, signature) ==
    RsaPkcs1VerifySignature("sha384", public_key, message, signature)

\* The dyn dispatch of the statics RSA_PSS_SHA256 .. RSA_PKCS1_SHA384.
VerifySignature(alg, public_key, message, signature) ==
    CASE alg = RsaPssSha256Verify -> RsaPssSha256VerifySignature(public_key, message, signature)
      [] alg = RsaPssSha384Verify -> RsaPssSha384VerifySignature(public_key, message, signature)
      [] alg = RsaPkcs1Sha256Verify -> RsaPkcs1Sha256VerifySignature(public_key, message, signature)
      [] alg = RsaPkcs1Sha384Verify -> RsaPkcs1Sha384VerifySignature(public_key, message, signature)

---------------------------------------------------------------------------
(***************************************************************************)
(* The calls rustls makes.  Peers sign; a TLS handshake signature is      *)
(* verified with the algorithm ALGORITHMS.mapping gives for its scheme    *)
(* and an RSA key, a certificate signature with the algorithm of all      *)
(* whose signature_alg_id is the certificate's.  The public key, message, *)
(* signature and scheme come from the peer, so any combination of what    *)
(* was signed and a forgery is presented.                                 *)
(***************************************************************************)
VARIABLES
    signed,  \* the signatures the peers have made
    last     \* the last verification: its inputs and verdict

vars == <<signed, last>>

NoVerification == [verdict |-> "none"]

Init ==
    /\ signed = {}
    /\ last = NoVerification

peer_sign(k, s, m) ==
    /\ Cardinality(signed) < MaxSigned
    /\ signed' = signed \cup {RsaSign(k, s, m)}
    /\ UNCHANGED last

Verified(alg, s, pk, m, sig) ==
    last' = [scheme |-> s, public_key |-> pk, message |-> m, signature |-> sig,
             verdict |-> VerifySignature(alg, pk, m, sig)]

verify_tls_signature(s, pk, m, sig) ==
    /\ \E alg \in ALGORITHMS.mapping[s] :
          /\ alg.public_key_alg_id = "RSA_ENCRYPTION"
          /\ Verified(alg, s, pk, m, sig)
    /\ UNCHANGED signed

verify_cert_signature(id, pk, m, sig) ==
    /\ \E alg \in ALGORITHMS.all :
          /\ alg.signature_alg_id = id
          /\ Verified(alg, id, pk, m, sig)
    /\ UNCHANGED signed

Next ==
    \/ \E k \in KeyPairs, s \in Schemes, m \in Messages : peer_sign(k, s, m)
    \/ \E s \in Schemes, pk \in PublicKeys, m \in Messages, sig \in signed \cup {Forged} :
          \/ verify_tls_signature(s, pk, m, sig)
          \/ verify_cert_signature(s, pk, m, sig)

Spec == Init /\ [][Next]_vars

---------------------------------------------------------------------------
\* The reference: sig is the signature, under scheme s, of m by the key
\* pair whose public key the certificate carries.
Genuine(s, pk, m, sig) == \E k \in KeyPairs : pk = Spki(k) /\ sig = RsaSign(k, s, m)

(***************************************************************************)
(* The SignatureVerificationAlgorithm contract: verify_signature returns  *)
(* Ok exactly for a genuine signature, and InvalidSignature (never a      *)
(* panic) for anything else a peer sends, through either table.  It       *)
(* rests on the table, the hash each algorithm uses, the PSS (ret >= 0)   *)
(* and PKCS#1 (ret = 0) result checks and the key decoding together.      *)
(***************************************************************************)
VerdictIsValidity ==
    last # NoVerification =>
        /\ last.verdict \in {Ok, Err}
        /\ (last.verdict = Ok <=> Genuine(last.scheme, last.public_key,
                                          last.message, last.signature))
=============================================================================
