------------------------- MODULE MCFlightController -------------------------
(* Instances of FlightController for TLC. *)
EXTENDS FlightController

\* What do_recv calls: CALIBRATE has no case there.
Deployed == Operations \ {"calibrate"}

\* Enough to arm, disarm and calibrate.
SomeCommands == {"arm", "disarm", "calibrate"}
=============================================================================
