------------------------------ MODULE MCCamera ------------------------------
(* An instance of Camera for TLC. *)
EXTENDS Camera

BothAxes == <<"X", "Y">>
=============================================================================
