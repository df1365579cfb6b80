------------------------------ MODULE Programs ------------------------------
(***************************************************************************)
(* main() runs cdrone(), which is Program, or a program of its own for a   *)
(* piece of hardware, of which "infrared" is modelled (Infrared).  Which   *)
(* one is an argument: a behaviour is of either, never of both.            *)
(***************************************************************************)
EXTENDS Program

CONSTANTS Conversions, PowerOn, K, B, Tenths, MaxRuns

VARIABLES
    program,  \* "cdrone" or "infrared"
    step, reading, warming, pointer, register, saved, height, watched,
    interrupted, waiting, over, runs, found

I == INSTANCE Infrared WITH
         at <- step, config <- register, shutdown <- interrupted,
         stuck <- waiting, ending <- over

infrared ==
    <<step, reading, warming, pointer, register, saved, height, watched,
      interrupted, waiting, over, runs, found>>

ASSUME InfraredAssumption == I!ConstantsKnown

InitPrograms == Init /\ I!Init /\ program \in {"cdrone", "infrared"}

NextPrograms ==
    /\ UNCHANGED program
    /\ \/ program = "cdrone" /\ Next /\ UNCHANGED infrared
       \/ program = "infrared" /\ I!Next /\ UNCHANGED vars

\* The threads of cdrone() are scheduled if it is cdrone() that runs.
AsCdrone(A) == program = "cdrone" /\ A
FairnessPrograms ==
    /\ WF_vars(AsCdrone(MainNext)) /\ WF_vars(AsCdrone(CheckThread))
    /\ WF_vars(AsCdrone(TrackVRPN)) /\ WF_vars(AsCdrone(Update))
    /\ WF_vars(AsCdrone(Serve)) /\ WF_vars(AsCdrone(SessionEnds))

SpecPrograms ==
    /\ InitPrograms /\ [][NextPrograms]_<<program, vars, infrared>>
    /\ FairnessPrograms

-----------------------------------------------------------------------------
(* Properties, which Infrared describes.                                   *)

\* When Infrared is gone, the converter is as this run found it
\* (Infrared::~Infrared).
RestoresWhatItFound == I!RestoresWhatItFound
=============================================================================
