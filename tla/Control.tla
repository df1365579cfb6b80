------------------------------ MODULE Control ------------------------------
(***************************************************************************)
(* What the drone flies by: the setpoints that do_recv takes from messages *)
(* (program/cdrone.cpp) and the PID controllers (controller/PID.cpp) that  *)
(* FlightController::updateController steps in the updater thread and      *)
(* resetPIDs resets in either thread.  FlightController has the modes and  *)
(* the arm switch access by access; here an operation is its load of the   *)
(* mode, the resets, and its store.                                        *)
(*                                                                         *)
(* Numbers are abstracted to their age: is a setpoint from before the last *)
(* DISARM, does what a controller remembers (its integral, its last error  *)
(* and its last output) come from errors of an earlier flight?             *)
(***************************************************************************)
EXTENDS FlightOperations, Naturals, Sequences, FiniteSets

CONSTANTS
    Setpoints,      \* the io fields of Observations that are ever read
    MessageFields,  \* by message: the setpoints it sets, in order
    PIDs,
    ResetOrder,     \* the PIDs resetPIDs resets, in order
    Work            \* by flight mode: what updateController does, in order

\* A piece of its work loads a setpoint, or steps a PID.
WorkItems == [load : Setpoints] \cup [step : PIDs]

ASSUME SetpointsAssumption ==
    /\ IsFiniteSet(Setpoints) /\ Setpoints # {}
    /\ \A m \in DOMAIN MessageFields : MessageFields[m] \in Seq(Setpoints)
ASSUME ResetOrderAssumption == ResetOrder \in Seq(PIDs) /\ ResetOrder # <<>>
ASSUME WorkAssumption == Work \in [FlightModes -> Seq(WorkItems)]

Threads == {"controller", "updater"}
Covered == {ResetOrder[i] : i \in DOMAIN ResetOrder}

VARIABLES
    mode,       \* m_mode
    setpoint,   \* by setpoint: is it from before the last DISARM?
    memory,     \* by PID, m_integral, m_lastErr and m_lastOut, by the oldest:
                \*   "zero", "this" flight's errors, or also an "earlier"
    pc, op, i,  \* per thread: where it is, in which operation, at which item
    fields,     \* do_recv: the setpoints it still has to store
    flying,     \* the mode updateController works for
    usesOld,    \* has it loaded a setpoint from before the last DISARM?
    held,       \* what PID::step is going to store in them
    torn,       \* history: the PIDs reset while a step of theirs was under way
    oldRounds   \* history: setRC calls with old setpoints since that DISARM

threads == <<pc, op, i>>
work == <<flying, usesOld, held>>
vars == <<mode, setpoint, memory, threads, fields, work, torn, oldRounds>>

Old == TRUE
Fresh == FALSE
Ages == {"zero", "this", "earlier"}

Init ==
    /\ mode = "Disarmed"
    /\ setpoint = [s \in Setpoints |-> Fresh]
    /\ memory = [p \in PIDs |-> "zero"]
    /\ pc = [t \in Threads |-> "ready"] /\ op = [t \in Threads |-> "disarm"]
    /\ i = [t \in Threads |-> 1] /\ fields = <<>>
    /\ flying = "RawControl" /\ usesOld = FALSE /\ held = "zero"
    /\ torn = {} /\ oldRounds = 0

Goto(t, place) == pc' = [pc EXCEPT ![t] = place]
At(t, place) == pc[t] = place

-----------------------------------------------------------------------------
(* PID.                                                                    *)

\* The updater is between the first load and the last store of PID::step.
Stepping(p) ==
    /\ At("updater", "store")
    /\ Work[flying][i["updater"]] = [step |-> p]

\* PID::reset stores all three; a step under way stores some of them after it.
Reset(p) ==
    /\ memory' = [memory EXCEPT ![p] = "zero"]
    /\ torn' = IF Stepping(p) THEN torn \cup {p} ELSE torn \ {p}

\* PID::step computes with what there is and the error ...
Added(age) == IF age = "earlier" THEN "earlier" ELSE "this"
StepLoads(p) ==
    /\ held' = Added(memory[p])
    /\ Goto("updater", "store")
    /\ UNCHANGED i

\* ... or, called again within the delay, returns the last output.
StepSkips ==
    /\ Goto("updater", "work") /\ i' = [i EXCEPT !["updater"] = @ + 1]
    /\ UNCHANGED held

-----------------------------------------------------------------------------
(* The operations of FlightController, in the controller thread and, for   *)
(* TakeOff's velocityControl, in the updater.                              *)

\* A lost connection and a DISCONNECT disarm, too.
Operation(t) == IF op[t] = "disconnect" THEN "disarm" ELSE op[t]

\* Only these two reset the controllers before they store the mode.
Resets(o) == o \in {"velocityControl", "positionControl"}

\* Where the caller goes on.
Return(t) ==
    IF t = "updater" \/ op[t] = "disconnect" THEN "ready"
    ELSE IF op[t] = "disarm" THEN "resetIO" ELSE "command"

\* A thread loads the mode; the operation may not be for it, or may have
\* nothing to change.
Proceeds(o) == mode \in From[o] /\ mode # Target[o]
GetMode(t) ==
    /\ At(t, "getMode")
    /\ Goto(t, IF ~Proceeds(Operation(t)) THEN Return(t)
               ELSE IF Resets(op[t]) THEN "resetPIDs" ELSE "setMode")
    /\ i' = [i EXCEPT ![t] = 1]
    /\ UNCHANGED <<mode, setpoint, memory, op, fields, work, torn,
                   oldRounds>>

LastResetSkipped == Len(ResetOrder) - 1
LastReset == Len(ResetOrder)
ResetPIDs(t) ==
    /\ At(t, "resetPIDs")
    /\ Reset(ResetOrder[i[t]])
    /\ i' = [i EXCEPT ![t] = IF @ = LastReset THEN 1 ELSE @ + 1]
    /\ IF i[t] = LastReset THEN Goto(t, "setMode") ELSE UNCHANGED pc
    /\ UNCHANGED <<mode, setpoint, op, fields, work, oldRounds>>

\* The store; arming begins a flight.
Aged(age) == IF age = "this" THEN "earlier" ELSE age
SetMode(t) ==
    /\ At(t, "setMode")
    /\ mode' = Target[Operation(t)]
    /\ IF op[t] = "arm"
       THEN /\ memory' = [p \in PIDs |-> Aged(memory[p])]
            /\ held' = Aged(held)
       ELSE UNCHANGED <<memory, held>>
    /\ Goto(t, Return(t))
    /\ UNCHANGED <<setpoint, op, i, fields, flying, usesOld, torn, oldRounds>>

Operates(t) == GetMode(t) \/ ResetPIDs(t) \/ SetMode(t)

-----------------------------------------------------------------------------
(* do_recv, in the controller thread.                                      *)

\* The mode of a message comes first.  DISARM makes all setpoints old.
Message(o) ==
    /\ At("controller", "ready")
    /\ Goto("controller", "getMode")
    /\ op' = [op EXCEPT !["controller"] = o]
    /\ IF o = "disarm"
       THEN /\ setpoint' = [s \in Setpoints |-> Old]
            /\ usesOld' = TRUE
            /\ oldRounds' = 0
       ELSE UNCHANGED <<setpoint, usesOld, oldRounds>>
    /\ UNCHANGED <<mode, memory, i, fields, flying, held, torn>>

NoMode ==
    /\ At("controller", "ready") /\ Goto("controller", "command")
    /\ UNCHANGED <<mode, setpoint, memory, op, i, fields, work, torn,
                   oldRounds>>

\* Observations::resetIO stores the defaults.
DefaultsButOne == Setpoints \ {CHOOSE s \in Setpoints : TRUE}
Defaults == Setpoints
ResetIO ==
    /\ At("controller", "resetIO") /\ Goto("controller", "command")
    /\ setpoint' = [s \in Setpoints |->
                       IF s \in Defaults THEN Fresh ELSE setpoint[s]]
    /\ UNCHANGED <<mode, memory, op, i, fields, work, torn, oldRounds>>

\* Then its command.  DISCONNECT disarms and leaves, and so does a connection
\* that fails; the messages of the next session follow.
Disconnect ==
    /\ At("controller", "command") \/ At("controller", "ready")
    /\ Goto("controller", "getMode")
    /\ op' = [op EXCEPT !["controller"] = "disconnect"]
    /\ UNCHANGED <<mode, setpoint, memory, i, fields, work, torn, oldRounds>>

\* Then its setpoints, field by field.
HasFields(m) ==
    /\ At("controller", "command") /\ Goto("controller", "fields")
    /\ fields' = MessageFields[m]
    /\ UNCHANGED <<mode, setpoint, memory, op, i, work, torn, oldRounds>>
StoreField ==
    /\ At("controller", "fields") /\ fields # <<>>
    /\ setpoint' = [setpoint EXCEPT ![Head(fields)] = Fresh]
    /\ fields' = Tail(fields)
    /\ UNCHANGED <<mode, memory, threads, work, torn, oldRounds>>
NextMessage ==
    /\ \/ At("controller", "command")
       \/ At("controller", "fields") /\ fields = <<>>
    /\ Goto("controller", "ready")
    /\ UNCHANGED <<mode, setpoint, memory, op, i, fields, work, torn,
                   oldRounds>>

-----------------------------------------------------------------------------
(* FlightController::updateController, in the updater thread.              *)

TakeOff ==
    /\ At("updater", "ready") /\ mode = "TakeOff"
    /\ Goto("updater", "getMode")
    /\ op' = [op EXCEPT !["updater"] = "velocityControl"]
    /\ UNCHANGED <<mode, setpoint, memory, i, fields, work, torn, oldRounds>>

Fly ==
    /\ At("updater", "ready") /\ mode \in FlightModes
    /\ Goto("updater", "work")
    /\ flying' = mode /\ usesOld' = FALSE
    /\ i' = [i EXCEPT !["updater"] = 1]
    /\ UNCHANGED <<mode, setpoint, memory, op, fields, held, torn,
                   oldRounds>>

Item == Work[flying][i["updater"]]
Working == At("updater", "work") /\ i["updater"] <= Len(Work[flying])

LoadSetpoint ==
    /\ Working
    /\ \E s \in Setpoints :
          Item = [load |-> s] /\ usesOld' = (usesOld \/ setpoint[s])
    /\ i' = [i EXCEPT !["updater"] = @ + 1]
    /\ UNCHANGED <<mode, setpoint, memory, pc, op, fields, flying, held,
                   torn, oldRounds>>

StepPID ==
    /\ Working
    /\ \E p \in PIDs : Item = [step |-> p] /\ (StepLoads(p) \/ StepSkips)
    /\ UNCHANGED <<mode, setpoint, memory, op, fields, flying, usesOld,
                   torn, oldRounds>>

StoreMemory ==
    /\ At("updater", "store")
    /\ memory' = [memory EXCEPT ![Item.step] = held]
    /\ Goto("updater", "work") /\ i' = [i EXCEPT !["updater"] = @ + 1]
    /\ UNCHANGED <<mode, setpoint, op, fields, work, torn, oldRounds>>

\* setRC.  Rounds are counted once do_recv is done with the DISARM.
Disarming == op["controller"] = "disarm" /\
             (At("controller", "getMode") \/ At("controller", "setMode") \/
              At("controller", "resetIO"))
SetRC ==
    /\ At("updater", "work") /\ i["updater"] > Len(Work[flying])
    /\ oldRounds' = IF usesOld /\ ~Disarming THEN oldRounds + 1 ELSE oldRounds
    /\ Goto("updater", "ready")
    /\ UNCHANGED <<mode, setpoint, memory, op, i, fields, work, torn>>

-----------------------------------------------------------------------------
Controller ==
    \/ \E o \in Operations \ {"calibrate"} : Message(o)
    \/ NoMode \/ Operates("controller") \/ ResetIO \/ Disconnect
    \/ \E m \in DOMAIN MessageFields : HasFields(m)
    \/ StoreField \/ NextMessage
Updater ==
    \/ TakeOff \/ Operates("updater")
    \/ Fly \/ LoadSetpoint \/ StepPID \/ StoreMemory \/ SetRC

Next == Controller \/ Updater

Spec == Init /\ [][Next]_vars

-----------------------------------------------------------------------------
\* However a flight came about and whichever thread reset them, the
\* controllers that resetPIDs covers carry no errors of an earlier flight
\* into one that uses them; only a reset that met a step under way is lost.
FreshControllers ==
    mode \in {"VelocityControl", "PositionControl"} =>
        \A p \in Covered \ torn : memory[p] # "earlier"

\* Once do_recv is done with a DISARM, at most one setRC, of an updater that
\* was in the middle of its work, is computed from a setpoint before it.
OneOldRound == oldRounds <= 1
=============================================================================
