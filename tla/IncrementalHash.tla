--------------------------- MODULE IncrementalHash ---------------------------
(***************************************************************************)
(* What rustls's hash::Context promises: a context absorbs the data given  *)
(* to update; fork gives a second context that has absorbed the same;      *)
(* fork_finish and finish return the hash of all it has absorbed, and     *)
(* only finish ends the context.  hash(data) is the hash of data alone.    *)
(***************************************************************************)
EXTENDS Sequences

CONSTANTS Contexts, Data

VARIABLES
    live,      \* the contexts in use
    absorbed,  \* per context: the data absorbed, in order
    last       \* the digest most recently returned

vars == <<live, absorbed, last>>

HashOf(data) == [of |-> data]

NoDigest == [none |-> TRUE]

Init ==
    /\ live = {}
    /\ absorbed = [c \in Contexts |-> <<>>]
    /\ last = NoDigest

Start(c) ==
    /\ c \notin live
    /\ live' = live \cup {c}
    /\ absorbed' = [absorbed EXCEPT ![c] = <<>>]
    /\ UNCHANGED last

Update(c, x) ==
    /\ c \in live
    /\ absorbed' = [absorbed EXCEPT ![c] = Append(@, x)]
    /\ UNCHANGED <<live, last>>

Fork(c, d) ==
    /\ c \in live /\ d \notin live
    /\ live' = live \cup {d}
    /\ absorbed' = [absorbed EXCEPT ![d] = absorbed[c]]
    /\ UNCHANGED last

ForkFinish(c) ==
    /\ c \in live
    /\ last' = HashOf(absorbed[c])
    /\ UNCHANGED <<live, absorbed>>

Finish(c) ==
    /\ c \in live
    /\ live' = live \ {c}
    /\ absorbed' = [absorbed EXCEPT ![c] = <<>>]
    /\ last' = HashOf(absorbed[c])

OneShot(x) ==
    /\ last' = HashOf(<<x>>)
    /\ UNCHANGED <<live, absorbed>>

Next ==
    \/ \E c \in Contexts : Start(c) \/ ForkFinish(c) \/ Finish(c)
    \/ \E c \in Contexts, x \in Data : Update(c, x)
    \/ \E c, d \in Contexts : Fork(c, d)
    \/ \E x \in Data : OneShot(x)

Spec == Init /\ [][Next]_vars
=============================================================================
