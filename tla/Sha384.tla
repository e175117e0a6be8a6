------------------------------- MODULE Sha384 -------------------------------
(***************************************************************************)
(* src/hash/sha384.rs: the SHA-384 hash context.  A WCSha384Context owns  *)
(* a WCHasher384, which holds the C wc_Sha384 state by value and a digest *)
(* buffer; clone copies both.  The C state is abstracted to the data it   *)
(* has absorbed since wc_InitSha384; wc_Sha384Final returns the digest of *)
(* that data and resets the state, as the comment at line 63 says.        *)
(***************************************************************************)
EXTENDS Naturals, Sequences

CONSTANTS
    Contexts,  \* the boxed contexts rustls may hold at once
    Data,      \* the data given to update and hash
    MaxLen     \* bound on the updates a context absorbs

VARIABLES
    sha,   \* per context: its WCHasher384, or Free when there is none
    last   \* the hash::Output most recently returned

vars == <<sha, last>>

Free == [live |-> FALSE, data |-> <<>>]

HashOf(data) == [of |-> data]

NoDigest == [none |-> TRUE]

\* wchasher_init: wc_InitSha384 on the zeroed struct.
wchasher_init == [live |-> TRUE, data |-> <<>>]

\* wchasher_update: wc_Sha384Update absorbs the data.
wchasher_update(s, x) == [s EXCEPT !.data = Append(@, x)]

\* wchasher_final: the digest of the absorbed data, and the reset state.
wchasher_final(s) == [digest |-> HashOf(s.data), state |-> wchasher_init]

\* WCHasher384::clone: a copy of the C state and of the digest buffer.
clone(s) == [live |-> s.live, data |-> s.data]

Init ==
    /\ sha = [c \in Contexts |-> Free]
    /\ last = NoDigest

\* WCSha384::start: a new boxed context, initialised.
start(c) ==
    /\ ~sha[c].live
    /\ sha' = [sha EXCEPT ![c] = wchasher_init]
    /\ UNCHANGED last

\* WCSha384Context::update.
update(c, x) ==
    /\ sha[c].live
    /\ Len(sha[c].data) < MaxLen
    /\ sha' = [sha EXCEPT ![c] = wchasher_update(@, x)]
    /\ UNCHANGED last

\* WCSha384Context::fork: a new boxed context holding a clone.
fork(c, d) ==
    /\ sha[c].live /\ ~sha[d].live
    /\ sha' = [sha EXCEPT ![d] = clone(sha[c])]
    /\ UNCHANGED last

\* Mutant: the context's own hasher finalised, as if fork_finish took it by
\* reference instead of cloning it.
ForkFinishInPlace(c) ==
    /\ sha[c].live
    /\ last' = wchasher_final(sha[c]).digest
    /\ sha' = [sha EXCEPT ![c] = wchasher_final(sha[c]).state]

\* WCSha384Context::fork_finish: finalise a clone; the context is untouched.
fork_finish(c) ==
    /\ sha[c].live
    /\ last' = wchasher_final(clone(sha[c])).digest
    /\ UNCHANGED sha

\* WCSha384Context::finish: finalise the context's own hasher; the box is
\* consumed.
finish(c) ==
    /\ sha[c].live
    /\ last' = wchasher_final(sha[c]).digest
    /\ sha' = [sha EXCEPT ![c] = Free]

\* WCSha384::hash: start, update and finish of a temporary context.
hash(x) ==
    /\ last' = wchasher_final(wchasher_update(wchasher_init, x)).digest
    /\ UNCHANGED sha

Next ==
    \/ \E c \in Contexts : start(c) \/ fork_finish(c) \/ finish(c)
    \/ \E c \in Contexts, x \in Data : update(c, x)
    \/ \E c, d \in Contexts : fork(c, d)
    \/ \E x \in Data : hash(x)

Spec == Init /\ [][Next]_vars

---------------------------------------------------------------------------
Abstract == INSTANCE IncrementalHash
                WITH live <- {c \in Contexts : sha[c].live},
                     absorbed <- [c \in Contexts |-> sha[c].data],
                     last <- last

(***************************************************************************)
(* The transcript hash rustls keeps is correct: for any sequence of       *)
(* start, update, fork, fork_finish, finish and hash over several boxed    *)
(* contexts, every digest returned is the hash of exactly what that       *)
(* context (and the one it was forked from, up to the fork) absorbed, and *)
(* fork_finish leaves the context able to go on.                          *)
(***************************************************************************)
ImplementsIncrementalHash == Abstract!Spec
=============================================================================
