-------------------------------- MODULE MCIO --------------------------------
(* Instances of IO for TLC. *)
EXTENDS IO

\* The heartbeat, a body that reads like lengths of zero, and the longest.
SomeMessages == {<<>>, <<0, 0>>, <<1, 0, 1>>}
=============================================================================
