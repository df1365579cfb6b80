------------------------------- MODULE MCBase -------------------------------
(* An instance of Base for TLC. *)
EXTENDS Base
=============================================================================
