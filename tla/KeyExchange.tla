----------------------------- MODULE KeyExchange -----------------------------
(***************************************************************************)
(* src/ex.rs: KeyExchange, a Curve25519 key pair holder.  A curve25519_key *)
(* object holds a private scalar and a public point, each set or not;     *)
(* wc_curve25519_make_key fills both with a fresh pair.  The scalar-mult   *)
(* is ideal: the shared secret of scalar a and point B is the set {a, B}  *)
(* of their pair numbers, so DH(a, b's point) = DH(b, a's point).  A       *)
(* scalar never set is pair number 0.                                      *)
(*                                                                         *)
(* Memory: use_curve25519 keeps in the KeyExchange two Curve25519KeyObject *)
(* pointers to its own locals public_key and private_key.  A frame is     *)
(* its depth on the calling thread's stack, one of Depths; calls at the   *)
(* same depth use the same addresses.  stack[d] is what lies at depth d:  *)
(* nothing, the two keys of a use_curve25519, or the zeroed out and the   *)
(* out_length of a derive_shared_secret, which read as keys with neither  *)
(* part set.                                                              *)
(***************************************************************************)
EXTENDS Naturals

CONSTANTS
    Parties,  \* the parties that each build a KeyExchange
    Depths    \* the stack depths their calls may run at

VARIABLES
    stack,    \* the memory at each depth
    kx,       \* per party: its KeyExchange, or NoKx before use_curve25519
    secret,   \* per party: what derive_shared_secret returned, or NoSecret
    pairs     \* the key pairs wc_curve25519_make_key has generated

vars == <<stack, kx, secret, pairs>>

NoKx == [built |-> FALSE]
NoSecret == [derived |-> FALSE]
Panic == [derived |-> TRUE, panic |-> TRUE]

Nothing == [obj |-> "nothing"]
\* The locals out (a zeroed u8) and out_length (32) of derive_shared_secret.
DeriveLocals == [obj |-> "derive_locals"]

\* wc_curve25519_init: an object with neither part set.
wc_curve25519_init == [priv |-> 0, pub |-> 0]

\* wc_curve25519_make_key: the next fresh pair, into both parts.
wc_curve25519_make_key(n) == [priv |-> n, pub |-> n]

\* Curve25519KeyObject::from_ptr and as_ptr: the object is the address of
\* one local, its frame's depth and the local's name.
Curve25519KeyObject(depth, local) == [ptr |-> <<depth, local>>]
as_ptr(object) == object.ptr

\* The key found through a pointer in memory mem.
Deref(mem, object) ==
    LET a == as_ptr(object)
    IN  IF mem[a[1]].obj = "kx_locals" THEN mem[a[1]][a[2]] ELSE wc_curve25519_init

(***************************************************************************)
(* wc_curve25519_shared_secret(private_key, public_key): wolfCrypt refuses *)
(* an object whose private part is unset, or computes with what is there; *)
(* which one depends on its version, so both outcomes are allowed.  The   *)
(* result lands in a single u8 (ex.rs:76), so only its first byte is      *)
(* returned, and the 31 bytes written past it overrun the frame, which    *)
(* may bring the call down as well.                                        *)
(***************************************************************************)
FirstByte(s) == [derived |-> TRUE, panic |-> FALSE, first_byte_of |-> s]

SharedSecretOutcomes(private_key, public_key) ==
    {FirstByte({private_key.priv, public_key.pub}), Panic}

Init ==
    /\ stack = [d \in Depths |-> Nothing]
    /\ kx = [p \in Parties |-> NoKx]
    /\ secret = [p \in Parties |-> NoSecret]
    /\ pairs = 0

\* KeyExchange::use_curve25519 at depth d: init both locals and the RNG,
\* then wc_curve25519_make_key twice, both times into public_key; the
\* KeyExchange keeps pointers to the two locals.
use_curve25519(p, d) ==
    /\ kx[p] = NoKx
    /\ pairs' = pairs + 2
    /\ stack' = [stack EXCEPT ![d] = [obj         |-> "kx_locals",
                                      public_key  |-> wc_curve25519_make_key(pairs + 2),
                                      private_key |-> wc_curve25519_init]]
    /\ kx' = [kx EXCEPT ![p] =
                [built       |-> TRUE,
                 public_key  |-> Curve25519KeyObject(d, "public_key"),
                 private_key |-> Curve25519KeyObject(d, "private_key")]]
    /\ UNCHANGED secret

\* KeyExchange::derive_shared_secret at depth g: its locals land at g,
\* then the shared secret of the keys found through the party's own two
\* pointers; a non-zero return panics.
derive_shared_secret(p, g) ==
    /\ kx[p] # NoKx
    /\ secret[p] = NoSecret
    /\ LET mem == [stack EXCEPT ![g] = DeriveLocals]
       IN  /\ stack' = mem
           /\ \E out \in SharedSecretOutcomes(Deref(mem, kx[p].private_key),
                                              Deref(mem, kx[p].public_key)) :
                 secret' = [secret EXCEPT ![p] = out]
    /\ UNCHANGED <<kx, pairs>>

Next ==
    \E p \in Parties, d \in Depths : use_curve25519(p, d) \/ derive_shared_secret(p, d)

Spec == Init /\ [][Next]_vars

---------------------------------------------------------------------------
(***************************************************************************)
(* Key agreement, as test_curve25519 asserts it: two parties that have    *)
(* both derived a shared secret derived the same one, and neither panicked.*)
(***************************************************************************)
SecretsAgree ==
    \A p, q \in Parties :
        secret[p] # NoSecret /\ secret[q] # NoSecret =>
            /\ secret[p] # Panic
            /\ secret[p] = secret[q]
=============================================================================
