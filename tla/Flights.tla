------------------------------- MODULE Flights -------------------------------
(***************************************************************************)
(* Two views of the controller and the updater thread: Control has what    *)
(* they store between flights, Observations what an estimate is made of.   *)
(* Both have the mode and its operations, and nothing else in common, so   *)
(* that a behaviour is one of either, not of their product.                *)
(***************************************************************************)
EXTENDS Control

CONSTANTS Fields, MaxSamples, MaxRequests

VARIABLES
    view,  \* "setpoints" or "estimates"
    sample, storing, samples, flightMode, request, keeping, initial,
    requests, begun, switching, stage, todo, loaded, round

O == INSTANCE Observations WITH mode <- flightMode, held <- loaded

estimates ==
    <<sample, storing, samples, flightMode, request, keeping, initial,
      requests, begun, switching, stage, todo, loaded, round>>

ASSUME FieldsAssumption == O!FieldsKnown

InitFlights == Init /\ O!Init /\ view \in {"setpoints", "estimates"}

NextFlights ==
    /\ UNCHANGED view
    /\ \/ view = "setpoints" /\ Next /\ UNCHANGED estimates
       \/ view = "estimates" /\ O!Next /\ UNCHANGED vars

SpecFlights == InitFlights /\ [][NextFlights]_<<view, vars, estimates>>

-----------------------------------------------------------------------------
(* Properties, which Observations describes.                               *)

\* What is rotated is never newer than what rotates it (VRPN::callback,
\* velocity, position).
RotatedByTheNewest == O!RotatedByTheNewest

\* No round of position control measures from the start of an earlier flight
\* (positionControl, position).
MeasuredFromItsStart == O!MeasuredFromItsStart
=============================================================================
