-------------------------------- MODULE Hmac --------------------------------
(***************************************************************************)
(* src/hmac.rs: HMAC-SHA256.  with_key zeroes a C Hmac struct, a local of *)
(* its own stack frame, and boxes a WCHmacKey holding a copy of the key   *)
(* and an HmacObject that is only a pointer to that local.                *)
(* sign_concat(first, middle, last) then calls hmac_init (wc_HmacSetKey), *)
(* hmac_update (wc_HmacUpdate) once per chunk and hmac_final              *)
(* (wc_HmacFinal) through the pointer, with &self.  The key is Sync       *)
(* (HmacObject is declared Sync), so several threads may sign with it;    *)
(* each C call is one atomic step of its thread.                          *)
(*                                                                         *)
(* Memory: a frame is its thread and its depth on that thread's stack;    *)
(* two calls at the same depth of one thread use the same addresses.      *)
(* stack[a] is what lies at address a: nothing yet, an Hmac struct, or    *)
(* the zeroed digest of a sign_concat.  wolfCrypt working on what is not  *)
(* an Hmac struct is undefined: it returns an error (the call panics) or  *)
(* a tag of whatever it finds.                                            *)
(*                                                                         *)
(* Data: byte i of buffer b is the cell <<b, i>>; a read of len bytes at  *)
(* b is ReadAt(b, len), whose cells past the buffer's own length stand    *)
(* for whatever memory follows it.  HMAC itself is ideal: the tag of a    *)
(* key and a message is the pair of the two.                              *)
(***************************************************************************)
EXTENDS Naturals, Sequences, SequencesExt, FiniteSets

CONSTANTS
    Threads,    \* the threads that call sign_concat on the one key
    KeyLen,     \* the length of the key given to with_key
    Calls,      \* the calls a thread may make: the chunk lengths first, middle.., last
    MaxCalls,   \* bound on sign_concat calls per thread
    KeyDepths,  \* the stack depths with_key may run at
    CallDepths  \* the stack depths sign_concat may run at

ASSUME KeyLen \in Nat /\ MaxCalls \in Nat
ASSUME \A c \in Calls : Len(c) >= 2

\* mem::size_of_val(&self.key): the size of a Vec<u8> (pointer, capacity,
\* length), not the length of the bytes it holds.
VEC_SIZE == 24

KEY == "key"

ReadAt(b, len) == [i \in 1..len |-> <<b, i>>]

Mac(key, data) == [key |-> key, data |-> data]

\* The tags a Final on memory that holds no Hmac struct may give: one of
\* junk, or none at all because wc_HmacFinal failed and hmac_final panicked.
JunkTag == Mac(<<>>, <<<<"junk", 0>>>>)
PanicTag == Mac(<<>>, <<<<"panic", 0>>>>)

\* The buffer holding chunk j of call k of thread t.
Chunk(t, k, j) == <<t, k, j>>

\* The HMAC rustls asks for: of the whole key, over first || middle || last.
Expected(t, k, c) ==
    Mac(ReadAt(KEY, KeyLen),
        FlattenSeq([j \in DOMAIN c |-> ReadAt(Chunk(t, k, j), c[j])]))

Addresses == Threads \X (KeyDepths \cup CallDepths)

Nothing == [obj |-> "nothing"]
ZeroedHmac == [obj |-> "hmac", key |-> <<>>, data |-> <<>>]
\* The zeroed digest array of a sign_concat (hmac.rs:133).
Locals == [obj |-> "locals"]

NoKey == [built |-> FALSE]

\* HmacObject::from_ptr and as_ptr: the object is the address it wraps.
HmacObject(ptr) == [ptr |-> ptr]
as_ptr(object) == object.ptr

VARIABLES
    stack,    \* the memory at every address of every thread's stack
    wckey,    \* the boxed WCHmacKey: its hmac_object and key, once built
    pc,       \* per thread: "idle" or "update" (inside sign_concat)
    frame,    \* per thread: the depth of its current sign_concat
    call,     \* per thread: the chunk lengths of its current call
    next,     \* per thread: the chunk hmac_update takes next
    ncalls,   \* per thread: calls completed
    results   \* per thread: [expected, tag] of every completed call

vars == <<stack, wckey, pc, frame, call, next, ncalls, results>>

Init ==
    /\ stack = [a \in Addresses |-> Nothing]
    /\ wckey = NoKey
    /\ pc = [t \in Threads |-> "idle"]
    /\ frame = [t \in Threads |-> CHOOSE d \in CallDepths : TRUE]
    /\ call = [t \in Threads |-> <<>>]
    /\ next = [t \in Threads |-> 1]
    /\ ncalls = [t \in Threads |-> 0]
    /\ results = [t \in Threads |-> <<>>]

\* with_key on thread t at depth d: the zeroed struct at <<t, d>>, and the
\* boxed key pointing there with its own copy of the key bytes.
with_key(t, d) ==
    /\ wckey = NoKey
    /\ stack' = [stack EXCEPT ![<<t, d>>] = ZeroedHmac]
    /\ wckey' = [built |-> TRUE, hmac_object |-> HmacObject(<<t, d>>),
                 key |-> ReadAt(KEY, KeyLen)]
    /\ UNCHANGED <<pc, frame, call, next, ncalls, results>>

\* sign_concat starts, at depth e of thread t, with hmac_init:
\* wc_HmacSetKey with VEC_SIZE bytes of the key, which keys the struct
\* at the pointer afresh, whatever lay there.
hmac_init(t, c, e) ==
    /\ wckey # NoKey
    /\ pc[t] = "idle"
    /\ ncalls[t] < MaxCalls
    /\ stack' = [stack EXCEPT ![as_ptr(wckey.hmac_object)] =
                    [obj |-> "hmac", key |-> ReadAt(KEY, VEC_SIZE), data |-> <<>>]]
    /\ frame' = [frame EXCEPT ![t] = e]
    /\ call' = [call EXCEPT ![t] = c]
    /\ next' = [next EXCEPT ![t] = 1]
    /\ pc' = [pc EXCEPT ![t] = "update"]
    /\ UNCHANGED <<wckey, ncalls, results>>

\* hmac_update of the next chunk: wc_HmacUpdate with VEC_SIZE bytes; on
\* memory that is no Hmac struct it absorbs nothing meaningful.
hmac_update(t) ==
    /\ pc[t] = "update"
    /\ next[t] <= Len(call[t])
    /\ LET p == as_ptr(wckey.hmac_object)
       IN  stack' = IF stack[p].obj = "hmac"
                       THEN [stack EXCEPT ![p].data =
                               @ \o ReadAt(Chunk(t, ncalls[t], next[t]), VEC_SIZE)]
                       ELSE stack
    /\ next' = [next EXCEPT ![t] = @ + 1]
    /\ UNCHANGED <<wckey, pc, frame, call, ncalls, results>>

(***************************************************************************)
(* Once every chunk is in, sign_concat zeroes its digest array in its own *)
(* frame, then hmac_final: wc_HmacFinal through the pointer gives the tag *)
(* of the struct's key and data and leaves it keyed and empty.  If the    *)
(* digest array lies where the struct was, Final finds no struct.         *)
(***************************************************************************)
hmac_final(t) ==
    /\ pc[t] = "update"
    /\ next[t] > Len(call[t])
    /\ LET mem == [stack EXCEPT ![<<t, frame[t]>>] = Locals]
           p   == as_ptr(wckey.hmac_object)
           obj == mem[p]
       IN  /\ stack' = IF obj.obj = "hmac" THEN [mem EXCEPT ![p].data = <<>>] ELSE mem
           /\ \E tag \in IF obj.obj = "hmac" THEN {Mac(obj.key, obj.data)}
                                             ELSE {JunkTag, PanicTag} :
                 results' = [results EXCEPT ![t] =
                                Append(@, [expected |-> Expected(t, ncalls[t], call[t]),
                                           tag      |-> tag])]
    /\ ncalls' = [ncalls EXCEPT ![t] = @ + 1]
    /\ pc' = [pc EXCEPT ![t] = "idle"]
    /\ UNCHANGED <<wckey, frame, call, next>>

\* One step of sign_concat on thread t.
sign_concat(t) ==
    \/ \E c \in Calls, e \in CallDepths : hmac_init(t, c, e)
    \/ hmac_update(t)
    \/ hmac_final(t)

Next ==
    \/ \E t \in Threads, d \in KeyDepths : with_key(t, d)
    \/ \E t \in Threads : sign_concat(t)

Spec == Init /\ [][Next]_vars

---------------------------------------------------------------------------
(***************************************************************************)
(* The Key contract rustls relies on in its PRF and HKDF: every tag        *)
(* sign_concat returns is the HMAC, under the key given to with_key, of    *)
(* first || middle || last, whatever other thread signs with the same key *)
(* and whatever frame the call runs in.                                    *)
(***************************************************************************)
TagIsHmacOfConcat ==
    \A t \in Threads : \A i \in DOMAIN results[t] :
        results[t][i].tag = results[t][i].expected
=============================================================================
