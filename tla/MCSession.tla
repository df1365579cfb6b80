------------------------------ MODULE MCSession ------------------------------
(* Instances of Session for TLC. *)
EXTENDS Session

\* Of what gobase sends: modes, the heartbeat, and DISCONNECT, with a mode in
\* the same message.  The disarm is the one that ends a session.
SomeUpdates ==
    {Empty,
     [mode |-> "arm", command |-> "NO_COMMAND"],
     [mode |-> "takeoff", command |-> "NO_COMMAND"],
     [mode |-> "arm", command |-> "DISCONNECT"]}
=============================================================================
