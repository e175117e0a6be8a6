---------------------------- MODULE RecordStream ----------------------------
(***************************************************************************)
(* What the record protection layer promises one direction of a TLS       *)
(* connection: the receiver accepts exactly the messages the sender        *)
(* protected, in the order they were sent, each once, with their content  *)
(* type, until it stops.  Nothing is promised about delivery: an attacker *)
(* can always make the receiver stop.                                     *)
(***************************************************************************)
EXTENDS Sequences, SequencesExt

VARIABLES
    sent,       \* the messages the sender has protected, in order
    delivered,  \* the messages the receiver has accepted, in order
    open        \* whether the receiver still accepts records

vars == <<sent, delivered, open>>

Init ==
    /\ sent = <<>>
    /\ delivered = <<>>
    /\ open = TRUE

\* The sender protects one more message.
Send ==
    /\ Len(sent') = Len(sent) + 1
    /\ IsPrefix(sent, sent')
    /\ UNCHANGED <<delivered, open>>

\* The receiver accepts the next message in send order.
Deliver ==
    /\ open
    /\ Len(delivered) < Len(sent)
    /\ delivered' = Append(delivered, sent[Len(delivered) + 1])
    /\ UNCHANGED <<sent, open>>

\* The receiver stops: an error or a crash.
Close ==
    /\ open
    /\ open' = FALSE
    /\ UNCHANGED <<sent, delivered>>

Next == Send \/ Deliver \/ Close

Spec == Init /\ [][Next]_vars
=============================================================================
