-------------------------- MODULE MCVariableLogger --------------------------
(* An instance of VariableLogger for TLC. *)
EXTENDS VariableLogger

SomeSize == [l \in Loggers |-> IF l \in Static THEN 1 ELSE 2]
=============================================================================
