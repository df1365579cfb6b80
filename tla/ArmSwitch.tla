------------------------------ MODULE ArmSwitch ------------------------------
(***************************************************************************)
(* What the flight controller promises the board about the arm switch: the *)
(* pilot flips it at any time; the line to the board holds at most one     *)
(* sample of it, taken after the last one was delivered; every sample is   *)
(* delivered.                                                              *)
(***************************************************************************)
EXTENDS Sequences

VARIABLES
    switch,   \* the switch
    line,     \* the samples on their way, at most one
    seen      \* the last sample the board received

vars == <<switch, line, seen>>

Init == switch = FALSE /\ line = <<FALSE>> /\ seen = FALSE

Flip ==
    /\ switch' \in BOOLEAN
    /\ UNCHANGED <<line, seen>>

Sample ==
    /\ line = <<>>
    /\ line' = <<switch>>
    /\ UNCHANGED <<switch, seen>>

Deliver ==
    /\ line # <<>>
    /\ seen' = Head(line)
    /\ line' = Tail(line)
    /\ UNCHANGED switch

Next == Flip \/ Sample \/ Deliver

Spec == Init /\ [][Next]_vars

FairSpec == Spec /\ WF_vars(Sample) /\ WF_vars(Deliver)
=============================================================================
