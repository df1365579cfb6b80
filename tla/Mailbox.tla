------------------------------- MODULE Mailbox -------------------------------
(***************************************************************************)
(* What the connection promises the drone: the base station's messages     *)
(* arrive whole, once and in order, and all of them do unless the          *)
(* connection breaks; once it is broken, the rest may be lost.             *)
(***************************************************************************)
EXTENDS Naturals, Sequences

CONSTANT Messages

VARIABLES
    sent,       \* the messages sent so far
    delivered,  \* those handed over to the drone
    broken      \* has the connection broken?

vars == <<sent, delivered, broken>>

Init == sent = <<>> /\ delivered = <<>> /\ broken = FALSE

\* The base station need not know that the connection is broken.
Send ==
    /\ \E m \in Messages : sent' = Append(sent, m)
    /\ UNCHANGED <<delivered, broken>>

Deliver ==
    /\ Len(delivered) < Len(sent)
    /\ delivered' = Append(delivered, sent[Len(delivered) + 1])
    /\ UNCHANGED <<sent, broken>>

Break ==
    /\ broken' = TRUE
    /\ UNCHANGED <<sent, delivered>>

Next == Send \/ Deliver \/ Break

Spec == Init /\ [][Next]_vars

FairSpec == Spec /\ WF_vars(~broken /\ Deliver)
=============================================================================
