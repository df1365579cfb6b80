---------------------------- MODULE Observations ----------------------------
(***************************************************************************)
(* The observations that the threads of cdrone share (misc/Observations.h) *)
(* field by field: VRPN's callback stores them (position/VRPN.cpp), the    *)
(* updater computes velocity() and position() from them, and the           *)
(* controller thread keeps an initial position when position control       *)
(* begins (controller/FlightController.cpp).  cdrone() gives the camera an *)
(* object of its own (Camera).                                             *)
(*                                                                         *)
(* A number is abstracted to its age: which sample of VRPN it comes from,  *)
(* 0 for the constructor's, or which positionControl kept it.              *)
(***************************************************************************)
EXTENDS FlightOperations, Naturals

CONSTANTS
    Fields,      \* the fields considered
    MaxSamples,  \* bound: calls of VRPN's callback
    MaxRequests  \* bound: how often the controller asks for PositionControl

Orientation == {"quat0", "quat1", "quat2", "quat3"}
Velocity == {"velocityX", "velocityY", "velocityZ"}
Position == {"positionX", "positionY", "positionZ"}
Initial ==
    [positionX |-> "initialPositionX", positionY |-> "initialPositionY",
     positionZ |-> "initialPositionZ"]

FieldsKnown == Fields \subseteq Orientation \cup Velocity \cup Position

Positions == Position \cap Fields

VARIABLES
    sample,     \* by field: the sample its value comes from
    storing,    \* VRPN's callback: the fields it still has to store,
    samples,    \*   and its number
    mode,       \* m_mode
    request,    \* the controller's operation, or "none",
    keeping,    \*   and the positions it still has to keep
    initial,    \* by position: the positionControl that kept it
    requests,   \* how many there were,
    begun,      \*   and which of them was the last to store the mode
    switching,  \* the velocityControl of TakeOff: "no", "getMode", "setMode"
    stage,      \* the updater: the part of its estimates it is at,
    todo,       \*   the fields it still has to load there,
    held,       \*   what it has loaded for this estimate,
    round       \*   and the positionControl its round began after, or 0

vrpn == <<sample, storing, samples>>
controller == <<request, keeping, initial, requests, begun>>
updater == <<switching, stage, todo, held, round>>
vars == <<vrpn, mode, controller, updater>>

Nothing == [f \in {} |-> 0]

Init ==
    /\ sample = [f \in Fields |-> 0] /\ storing = {} /\ samples = 0
    /\ mode = "Disarmed" /\ request = "none" /\ keeping = {}
    /\ initial = [p \in Positions |-> 0] /\ requests = 0 /\ begun = 0
    /\ switching = "no" /\ stage = 0 /\ todo = {} /\ held = Nothing
    /\ round = 0

\* The statements for X, Y and Z are in this order.
Axis ==
    [velocityX |-> 1, velocityY |-> 2, velocityZ |-> 3,
     positionX |-> 1, positionY |-> 2, positionZ |-> 3,
     initialPositionX |-> 1, initialPositionY |-> 2, initialPositionZ |-> 3,
     quat0 |-> 1, quat1 |-> 1, quat2 |-> 1, quat3 |-> 1]
FirstOf(set, order) == {f \in set : \A g \in set : order[f] <= order[g]}

-----------------------------------------------------------------------------
(* VRPN::callback.                                                         *)

\* It stores the orientation, then the velocity, then the position.
PositionFirst ==
    [positionX |-> 1, positionY |-> 2, positionZ |-> 3,
     velocityX |-> 4, velocityY |-> 5, velocityZ |-> 6,
     quat0 |-> 7, quat1 |-> 8, quat2 |-> 9, quat3 |-> 10]
StoreOrder ==
    [quat0 |-> 1, quat1 |-> 2, quat2 |-> 3, quat3 |-> 4,
     velocityX |-> 5, velocityY |-> 6, velocityZ |-> 7,
     positionX |-> 8, positionY |-> 9, positionZ |-> 10]

Callback ==
    /\ storing = {} /\ samples < MaxSamples
    /\ samples' = samples + 1 /\ storing' = Fields
    /\ UNCHANGED <<sample, mode, controller, updater>>
Store ==
    /\ \E f \in FirstOf(storing, StoreOrder) :
          /\ sample' = [sample EXCEPT ![f] = samples]
          /\ storing' = storing \ {f}
    /\ UNCHANGED <<samples, mode, controller, updater>>

-----------------------------------------------------------------------------
(* FlightController, in the controller thread.                             *)

Request(o) ==
    /\ request = "none"
    /\ mode \in From[o] /\ mode # Target[o]
    /\ request' = o
    /\ IF o = "positionControl"
       THEN /\ requests < MaxRequests /\ requests' = requests + 1
            /\ keeping' = Positions
       ELSE UNCHANGED <<requests, keeping>>
    /\ UNCHANGED <<vrpn, mode, initial, begun, updater>>

\* positionControl() keeps the position, axis by axis, and stores the mode.
Keep ==
    /\ \E p \in FirstOf(keeping, Axis) :
          /\ initial' = [initial EXCEPT ![p] = requests]
          /\ keeping' = keeping \ {p}
    /\ UNCHANGED <<vrpn, mode, request, requests, begun, updater>>
AtOnce == request # "none"
WhenKept == request # "none" /\ keeping = {}
SetMode ==
    /\ WhenKept
    /\ mode' = Target[request]
    /\ begun' = IF request = "positionControl" THEN requests ELSE begun
    /\ request' = "none"
    /\ UNCHANGED <<vrpn, keeping, initial, requests, updater>>

-----------------------------------------------------------------------------
(* FlightController::updateController, in the updater thread.              *)

\* velocity() loads a velocity, and an orientation to rotate it by, and
\* position() a position, relative to the initial one, and an orientation.
Loads ==
    <<Velocity \cap Fields, Orientation \cap Fields,
      Positions \cup {Initial[p] : p \in Positions}, Orientation \cap Fields>>

Idle == stage = 0 /\ switching = "no"
Fly ==
    /\ Idle /\ mode \in {"VelocityControl", "PositionControl"}
    /\ stage' = 1 /\ todo' = Loads[1] /\ held' = Nothing
    /\ round' = IF mode = "PositionControl" THEN begun ELSE 0
    /\ UNCHANGED <<vrpn, mode, controller, switching>>

\* The order of loads within an expression is open.
Holding(f, value) ==
    [g \in DOMAIN held \cup {f} |-> IF g = f THEN value ELSE held[g]]
Load ==
    /\ \E f \in FirstOf(todo, Axis) :
          /\ \/ f \in Fields /\ held' = Holding(f, sample[f])
             \/ \E p \in Positions :
                   Initial[p] = f /\ held' = Holding(f, initial[p])
          /\ todo' = todo \ {f}
    /\ UNCHANGED <<vrpn, mode, controller, switching, stage, round>>
NextPart ==
    /\ stage \in 1 .. 3 /\ todo = {}
    /\ stage' = stage + 1 /\ todo' = Loads[stage + 1]
    /\ held' = IF stage = 2 THEN Nothing ELSE held
    /\ UNCHANGED <<vrpn, mode, controller, switching, round>>
SetRC ==
    /\ stage = 4 /\ todo = {}
    /\ stage' = 0 /\ held' = Nothing
    /\ UNCHANGED <<vrpn, mode, controller, switching, todo, round>>

\* TakeOff calls velocityControl(), which loads the mode again.
TakeOff ==
    /\ Idle /\ mode = "TakeOff"
    /\ switching' = "getMode"
    /\ UNCHANGED <<vrpn, mode, controller, stage, todo, held, round>>
GetMode ==
    /\ switching = "getMode"
    /\ switching' =
           IF mode \in From["velocityControl"] THEN "setMode" ELSE "no"
    /\ UNCHANGED <<vrpn, mode, controller, stage, todo, held, round>>
StoreMode ==
    /\ switching = "setMode" /\ switching' = "no"
    /\ mode' = "VelocityControl"
    /\ UNCHANGED <<vrpn, controller, stage, todo, held, round>>

-----------------------------------------------------------------------------
Next ==
    \/ Callback \/ Store
    \/ \E o \in Operations \ {"calibrate"} : Request(o)
    \/ Keep \/ SetMode
    \/ Fly \/ Load \/ NextPart \/ SetRC \/ TakeOff \/ GetMode \/ StoreMode

Spec == Init /\ [][Next]_vars

-----------------------------------------------------------------------------
(* Properties.                                                             *)

\* A velocity or a position is rotated by an orientation that is at least as
\* recent, however many samples come while they are loaded: the callback
\* stores in the opposite order (VRPN::callback, velocity, position).
RotatedByTheNewest ==
    \A f \in DOMAIN held \cap (Velocity \cup Position) :
        \A q \in DOMAIN held \cap Orientation : held[f] <= held[q]

\* A round that found PositionControl measures its position from the one
\* kept by the positionControl that stored this mode, or by a later one:
\* never from that of an earlier flight (positionControl, position).
MeasuredFromItsStart ==
    \A p \in Positions :
        Initial[p] \in DOMAIN held => held[Initial[p]] >= round
=============================================================================
