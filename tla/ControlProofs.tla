---------------------------- MODULE ControlProofs ----------------------------
(***************************************************************************)
(* Theorems about Control, for every set of setpoints, messages and        *)
(* controllers, every order of the resets and whatever updateController    *)
(* does in a mode: how long setpoints and errors can survive a             *)
(* DISARM.  Then theorems about Observations, for every set of fields: how *)
(* old the numbers of an estimate can be.                                  *)
(***************************************************************************)
EXTENDS Flights, TLAPS

Places == {"ready", "getMode", "resetPIDs", "setMode", "resetIO", "command",
           "fields", "work", "store"}

\* Types, and what the threads' places say about their operations: the
\* updater calls only velocityControl, and steps a controller when it is
\* about to store what it remembers.
Typed ==
    /\ mode \in Modes
    /\ pc \in [Threads -> Places]
    /\ op \in [Threads -> Operations \cup {"disconnect"}]
    /\ i \in [Threads -> Nat] /\ i["controller"] \in DOMAIN ResetOrder
    /\ At("updater", "resetPIDs") => i["updater"] \in DOMAIN ResetOrder
    /\ pc["updater"] \in {"getMode", "resetPIDs", "setMode"} =>
           op["updater"] = "velocityControl"
    /\ \A t \in Threads : At(t, "resetPIDs") => Resets(op[t])
    /\ At("updater", "store") => \E p \in PIDs : Stepping(p)
    /\ memory \in [PIDs -> Ages] /\ held \in Ages

-----------------------------------------------------------------------------
(* The setpoints.                                                          *)

\* The updater is at work on a round.
InRound == pc["updater"] \in {"work", "store"}

\* Outside a DISARM no setpoint is old, and a setRC that used one was the
\* last to do so.
SetpointInv ==
    /\ setpoint \in [Setpoints -> {Old, Fresh}]
    /\ Disarming \/ \A s \in Setpoints : setpoint[s] = Fresh
    /\ Disarming => oldRounds = 0
    /\ oldRounds \in {0, 1}
    /\ oldRounds = 1 /\ InRound => ~usesOld

-----------------------------------------------------------------------------
(* What the controllers remember.                                          *)

\* Controller p has no errors of an earlier flight and gets none.
Clean(p) ==
    /\ memory[p] # "earlier"
    /\ Stepping(p) => held # "earlier"

\* The controllers thread t has already reset.
ResetBy(t) ==
    IF At(t, "resetPIDs") THEN {ResetOrder[j] : j \in 1 .. i[t] - 1}
    ELSE IF At(t, "setMode") /\ Resets(Operation(t)) THEN Covered
    ELSE {}

Flying == mode \in {"VelocityControl", "PositionControl"}
MemoryInv ==
    /\ \A p \in ResetBy("updater") : memory[p] = "zero"
    /\ \A p \in ResetBy("controller") \ torn : Clean(p)
    /\ Flying => \A p \in Covered \ torn : Clean(p)

-----------------------------------------------------------------------------
(* Types.                                                                  *)

\* The place in the table of resets is in it, and so are the controllers.
LEMMA ResetOrderFacts ==
  /\ 1 \in DOMAIN ResetOrder /\ LastReset \in DOMAIN ResetOrder
  /\ DOMAIN ResetOrder = 1 .. LastReset /\ LastReset \in Nat \ {0}
  /\ \A j \in DOMAIN ResetOrder : ResetOrder[j] \in PIDs
  BY ResetOrderAssumption DEF LastReset

\* The initial state.
LEMMA InitInv == Init => Typed /\ SetpointInv /\ MemoryInv
<1> SUFFICES ASSUME Init PROVE Typed /\ SetpointInv /\ MemoryInv
  OBVIOUS
<1> USE DEF Init, At, Threads
<1>1. Typed
  BY ResetOrderFacts DEF Typed, Modes, Places, Operations, Ages
<1>2. SetpointInv
  BY DEF SetpointInv, Disarming, InRound, Fresh, Old
<1>3. MemoryInv
  BY DEF MemoryInv, ResetBy, Flying
<1>4. QED
  BY <1>1, <1>2, <1>3

\* Every step keeps the types.
LEMMA NextTyped ==
  ASSUME Typed, [Next]_vars
  PROVE  Typed'
<1> USE ResetOrderFacts DEF Typed, At, Goto, Threads, Places, threads, work,
                           Stepping, Ages
<1>1. ASSUME NEW o \in Operations \ {"calibrate"}, Message(o) PROVE Typed'
  BY <1>1 DEF Message
<1>2. CASE NoMode
  BY <1>2 DEF NoMode
<1>3. ASSUME NEW t \in Threads, GetMode(t) PROVE Typed'
  BY <1>3 DEF GetMode, Return, Operation
<1>4. ASSUME NEW t \in Threads, ResetPIDs(t) PROVE Typed'
  <2>1. ResetOrder[i[t]] \in PIDs /\ i[t] \in DOMAIN ResetOrder
    BY <1>4 DEF ResetPIDs
  <2>2. memory' \in [PIDs -> Ages]
    BY <1>4, <2>1 DEF ResetPIDs, Reset
  <2>3. /\ i' \in [Threads -> Nat] /\ i'[t] \in DOMAIN ResetOrder
        /\ \A u \in Threads \ {t} : i'[u] = i[u]
    BY <1>4, <2>1 DEF ResetPIDs
  <2>4. /\ pc' \in [Threads -> Places] /\ pc'[t] \in {"resetPIDs", "setMode"}
        /\ \A u \in Threads \ {t} : pc'[u] = pc[u]
    BY <1>4 DEF ResetPIDs
  <2>5. At("updater", "store")' => \E p \in PIDs : Stepping(p)'
    BY <1>4, <2>3, <2>4 DEF ResetPIDs
  <2>6. QED
    BY <1>4, <2>2, <2>3, <2>4, <2>5 DEF ResetPIDs, Resets
<1>5. ASSUME NEW t \in Threads, SetMode(t) PROVE Typed'
  <2>1. memory' \in [PIDs -> Ages] /\ held' \in Ages
    BY <1>5 DEF SetMode, Aged
  <2>2. Operation(t) \in Operations
    BY <1>5 DEF SetMode, Operation, Operations
  <2>3. mode' \in Modes
    BY <1>5, <2>2 DEF SetMode, Target, Modes, Operations
  <2>4. /\ pc' = [pc EXCEPT ![t] = Return(t)] /\ UNCHANGED <<op, i, flying>>
        /\ Return(t) \in {"ready", "resetIO", "command"}
    BY <1>5 DEF SetMode, Return
  <2>5. Return("updater") = "ready"
    BY DEF Return
  <2>6. QED
    BY <2>1, <2>3, <2>4, <2>5
<1>6. CASE ResetIO
  BY <1>6 DEF ResetIO
<1>7. CASE Disconnect
  BY <1>7 DEF Disconnect
<1>8. ASSUME NEW m \in DOMAIN MessageFields, HasFields(m) PROVE Typed'
  BY <1>8 DEF HasFields
<1>9. CASE StoreField
  BY <1>9 DEF StoreField
<1>10. CASE NextMessage
  BY <1>10 DEF NextMessage
<1>11. CASE TakeOff
  BY <1>11 DEF TakeOff, Operations
<1>12. CASE Fly
  BY <1>12 DEF Fly, FlightModes
<1>13. CASE LoadSetpoint
  <2>1. /\ i' = [i EXCEPT !["updater"] = @ + 1] /\ At("updater", "work")
        /\ UNCHANGED <<mode, memory, pc, op, held>>
    BY <1>13 DEF LoadSetpoint, Working
  <2>2. QED
    BY <2>1
<1>14. CASE StepPID
  <2>1. /\ UNCHANGED <<mode, memory, op, flying>> /\ At("updater", "work")
    BY <1>14 DEF StepPID, Working
  <2>2. PICK p \in PIDs : Item = [step |-> p] /\ (StepLoads(p) \/ StepSkips)
    BY <1>14 DEF StepPID
  <2>3. CASE StepLoads(p)
    <3>1. held' \in Ages
      BY <2>3 DEF StepLoads, Added
    <3>2. pc' = [pc EXCEPT !["updater"] = "store"] /\ i' = i
      BY <2>3 DEF StepLoads
    <3>3. Stepping(p)'
      BY <2>1, <2>2, <3>2 DEF Item
    <3>4. QED
      BY <2>1, <3>1, <3>2, <3>3
  <2>4. CASE StepSkips
    <3>1. /\ pc' = [pc EXCEPT !["updater"] = "work"] /\ held' = held
          /\ i' = [i EXCEPT !["updater"] = @ + 1]
      BY <2>4 DEF StepSkips
    <3>2. QED
      BY <2>1, <3>1
  <2>5. QED
    BY <2>2, <2>3, <2>4
<1>15. CASE StoreMemory
  <2>1. PICK p \in PIDs : Stepping(p)
    BY <1>15 DEF StoreMemory
  <2>2. Item.step = p
    BY <2>1 DEF Item
  <2>3. /\ memory' = [memory EXCEPT ![p] = held]
        /\ pc' = [pc EXCEPT !["updater"] = "work"]
        /\ i' = [i EXCEPT !["updater"] = @ + 1]
        /\ UNCHANGED <<mode, op, held>>
    BY <1>15, <2>2 DEF StoreMemory
  <2>4. memory' \in [PIDs -> Ages]
    BY <2>3
  <2>5. QED
    BY <2>3, <2>4
<1>16. CASE SetRC
  BY <1>16 DEF SetRC
<1>17. CASE UNCHANGED vars
  BY <1>17 DEF vars, threads, work
<1>18. QED
  BY <1>1, <1>2, <1>3, <1>4, <1>5, <1>6, <1>7, <1>8,
     <1>9, <1>10, <1>11, <1>12, <1>13, <1>14, <1>15, <1>16, <1>17
  DEF Next, Controller, Updater, Operates, Threads

-----------------------------------------------------------------------------
(* The setpoints survive a DISARM for one round.                           *)

\* Every step keeps the invariant of the setpoints.
LEMMA NextSetpoint ==
  ASSUME Typed, SetpointInv, [Next]_vars
  PROVE  SetpointInv'
<1> USE ResetOrderFacts DEF Typed, SetpointInv, At, Goto, Threads, Places,
                           threads, work, Disarming, InRound, Old, Fresh
<1>1. ASSUME NEW o \in Operations \ {"calibrate"}, Message(o)
      PROVE  SetpointInv'
  <2>1. /\ pc' = [pc EXCEPT !["controller"] = "getMode"]
        /\ op' = [op EXCEPT !["controller"] = o]
        /\ At("controller", "ready")
    BY <1>1 DEF Message
  <2>2. CASE o = "disarm"
    <3>1. /\ oldRounds' = 0
          /\ setpoint' = [s \in Setpoints |-> Old]
      BY <1>1, <2>2 DEF Message
    <3>2. Disarming'
      BY <2>1, <2>2
    <3>3. usesOld' \in BOOLEAN
      BY <1>1, <2>2, Zenon DEF Message
    <3>4. QED
      BY <3>1, <3>2, <3>3
  <2>3. CASE o # "disarm"
    <3>1. UNCHANGED <<setpoint, usesOld, oldRounds>>
      BY <1>1, <2>3 DEF Message
    <3>2. ~Disarming /\ ~Disarming'
      BY <2>1, <2>3
    <3>3. InRound' <=> InRound
      BY <2>1
    <3>4. QED
      BY <3>1, <3>2, <3>3
  <2>4. QED
    BY <2>2, <2>3
<1>2. CASE NoMode
  BY <1>2 DEF NoMode
<1>3. ASSUME NEW t \in Threads, GetMode(t) PROVE SetpointInv'
  BY <1>3 DEF GetMode, Return, Operation, Proceeds, Resets
<1>4. ASSUME NEW t \in Threads, ResetPIDs(t) PROVE SetpointInv'
  BY <1>4 DEF ResetPIDs, Resets
<1>5. ASSUME NEW t \in Threads, SetMode(t) PROVE SetpointInv'
  BY <1>5 DEF SetMode, Return, Operation
<1>6. CASE ResetIO
  BY <1>6 DEF ResetIO, Defaults
<1>7. CASE Disconnect
  BY <1>7 DEF Disconnect
<1>8. ASSUME NEW m \in DOMAIN MessageFields, HasFields(m) PROVE SetpointInv'
  BY <1>8 DEF HasFields
<1>9. CASE StoreField
  BY <1>9 DEF StoreField
<1>10. CASE NextMessage
  BY <1>10 DEF NextMessage
<1>11. CASE TakeOff
  BY <1>11 DEF TakeOff
<1>12. CASE Fly
  BY <1>12 DEF Fly
<1>13. CASE LoadSetpoint
  <2>1. PICK s \in Setpoints : usesOld' = (usesOld \/ setpoint[s])
    BY <1>13 DEF LoadSetpoint
  <2>2. /\ UNCHANGED <<pc, op, setpoint, oldRounds>> /\ At("updater", "work")
    BY <1>13 DEF LoadSetpoint, Working
  <2>3. CASE Disarming
    <3>1. Disarming' /\ oldRounds' = 0 /\ setpoint' = setpoint
      BY <2>2, <2>3
    <3>2. ~(oldRounds' = 1 /\ InRound')
      BY <3>1
    <3>3. QED
      BY <3>1, <3>2, Zenon
  <2>4. CASE ~Disarming /\ oldRounds = 1
    <3>1. setpoint[s] = FALSE /\ usesOld = FALSE
      BY <2>2, <2>4
    <3>2. usesOld' = FALSE
      BY <2>1, <3>1
    <3>3. QED
      BY <2>2, <2>4, <3>2
  <2>5. CASE ~Disarming /\ oldRounds = 0
    BY <2>1, <2>2, <2>5
  <2>6. QED
    BY <2>3, <2>4, <2>5
<1>14. CASE StepPID
  BY <1>14 DEF StepPID, StepLoads, StepSkips, Working
<1>15. CASE StoreMemory
  BY <1>15 DEF StoreMemory
<1>16. CASE SetRC
  <2>1. /\ UNCHANGED <<op, setpoint, usesOld>> /\ At("updater", "work")
        /\ pc' = [pc EXCEPT !["updater"] = "ready"]
    BY <1>16 DEF SetRC
  <2>2. (Disarming' <=> Disarming) /\ ~InRound'
    BY <2>1
  <2>3. CASE usesOld /\ ~Disarming
    <3>1. oldRounds = 0
      BY <2>1, <2>3
    <3>2. oldRounds' = 1
      BY <1>16, <2>3, <3>1 DEF SetRC
    <3>3. QED
      BY <2>1, <2>2, <2>3, <3>2
  <2>4. CASE ~(usesOld /\ ~Disarming)
    <3>1. oldRounds' = oldRounds
      BY <1>16, <2>4 DEF SetRC
    <3>2. QED
      BY <2>1, <2>2, <3>1
  <2>5. QED
    BY <2>3, <2>4
<1>17. CASE UNCHANGED vars
  BY <1>17 DEF vars, threads, work
<1>18. QED
  BY <1>1, <1>2, <1>3, <1>4, <1>5, <1>6, <1>7, <1>8,
     <1>9, <1>10, <1>11, <1>12, <1>13, <1>14, <1>15, <1>16, <1>17
  DEF Next, Controller, Updater, Operates, Threads

\* Once do_recv is done with a DISARM, at most one setRC is computed from a
\* setpoint before it, for every set of messages and setpoints and whatever
\* updateController does (the order of resetIO after the disarm in do_recv).
THEOREM OldSetpointsEnd == Spec => []OneOldRound
<1>1. Typed /\ SetpointInv /\ [Next]_vars => (Typed /\ SetpointInv)'
  BY NextTyped, NextSetpoint
<1>2. SetpointInv => OneOldRound
  BY DEF SetpointInv, OneOldRound
<1>3. QED
  BY <1>1, <1>2, InitInv, PTL DEF Spec

-----------------------------------------------------------------------------
(* The controllers are reset before a flight uses them.                    *)

\* A thread has reset only controllers that resetPIDs covers.
LEMMA ResetWithin ==
  ASSUME Typed
  PROVE  /\ Covered \subseteq PIDs
         /\ \A t \in Threads : ResetBy(t) \subseteq Covered
<1>1. Covered \subseteq PIDs
  BY ResetOrderFacts DEF Covered
<1>2. ASSUME NEW t \in Threads PROVE ResetBy(t) \subseteq Covered
  <2>1. At(t, "resetPIDs") => i[t] \in 1 .. LastReset
    BY ResetOrderFacts DEF Typed, Threads
  <2>2. CASE At(t, "resetPIDs")
    BY <2>1, <2>2, ResetOrderFacts DEF ResetBy, Covered
  <2>3. CASE ~At(t, "resetPIDs")
    BY <2>3 DEF ResetBy
  <2>4. QED
    BY <2>2, <2>3
<1>3. QED
  BY <1>1, <1>2

\* Every step keeps the invariant of what the controllers remember.
LEMMA NextMemory ==
  ASSUME Typed, MemoryInv, [Next]_vars
  PROVE  MemoryInv'
<1> USE ResetOrderFacts DEF Typed, MemoryInv, At, Goto, Threads, Places,
                           threads, work, Stepping, ResetBy, Clean, Flying,
                           Operation
<1>1. ASSUME NEW o \in Operations \ {"calibrate"}, Message(o)
      PROVE  MemoryInv'
  BY <1>1 DEF Message
<1>2. CASE NoMode
  BY <1>2 DEF NoMode
<1>3. ASSUME NEW t \in Threads, GetMode(t) PROVE MemoryInv'
  BY <1>3 DEF GetMode, Return, Operation, Proceeds, Resets
<1>4. ASSUME NEW t \in Threads, ResetPIDs(t) PROVE MemoryInv'
  <2> DEFINE p == ResetOrder[i[t]]
  <2>1. p \in PIDs /\ i[t] \in DOMAIN ResetOrder
    BY <1>4 DEF ResetPIDs
  <2>2. /\ memory' = [memory EXCEPT ![p] = "zero"]
        /\ torn' = IF Stepping(p) THEN torn \cup {p} ELSE torn \ {p}
        /\ i' = [i EXCEPT ![t] = IF @ = LastReset THEN 1 ELSE @ + 1]
        /\ pc' = [pc EXCEPT ![t] = IF i[t] = LastReset THEN "setMode"
                                                      ELSE "resetPIDs"]
        /\ At(t, "resetPIDs") /\ UNCHANGED <<mode, op, flying, held>>
    BY <1>4 DEF ResetPIDs, Reset
  <2>3. \A q : Stepping(q)' <=> Stepping(q)
    <3>1. pc'["updater"] = "store" <=> pc["updater"] = "store"
      BY <2>2
    <3>2. pc["updater"] = "store" => i'["updater"] = i["updater"]
      BY <2>2
    <3>3. QED
      BY <2>2, <3>1, <3>2
  <2>4. \A q \in PIDs :
           q \notin torn' /\ (q = p \/ (q \notin torn => Clean(q)))
               => Clean(q)'
    BY <2>1, <2>2, <2>3
  <2>5. \A q \in PIDs : memory[q] = "zero" \/ q = p => memory'[q] = "zero"
    BY <2>1, <2>2
  <2>6. ResetBy(t)' \subseteq ResetBy(t) \cup {p}
    <3>1. CASE i[t] = LastReset
      <4>1. ResetBy(t)' \subseteq Covered
        BY <2>2, <3>1
      <4>2. Covered \subseteq ResetBy(t) \cup {p}
        BY <2>1, <2>2, <3>1 DEF Covered
      <4>3. QED
        BY <4>1, <4>2
    <3>2. CASE i[t] # LastReset
      BY <2>1, <2>2, <3>2
    <3>3. QED
      BY <3>1, <3>2
  <2>7. \A u \in Threads \ {t} : ResetBy(u)' = ResetBy(u)
    BY <2>2
  <2>8. Covered \subseteq PIDs
    BY DEF Covered
  <2> HIDE DEF p
  <2>9. \A q \in ResetBy("updater")' : memory'[q] = "zero"
    <3>1. ResetBy("updater")' \subseteq ResetBy("updater") \cup {p}
      BY <2>6, <2>7
    <3>2. QED
      BY ONLY <2>1, <2>5, <3>1, ResetWithin, Typed, MemoryInv
         DEF MemoryInv, Threads
  <2>10. \A q \in ResetBy("controller")' \ torn' : Clean(q)'
    <3>1. ResetBy("controller")' \subseteq ResetBy("controller") \cup {p}
      BY <2>6, <2>7
    <3>2. QED
      BY ONLY <2>1, <2>4, <3>1, ResetWithin, Typed, MemoryInv
         DEF MemoryInv, Threads
  <2>11. Flying' => \A q \in Covered \ torn' : Clean(q)'
    BY ONLY <2>2, <2>4, <2>8, MemoryInv DEF MemoryInv, Flying
  <2>12. QED
    BY ONLY <2>9, <2>10, <2>11 DEF MemoryInv
<1>5. ASSUME NEW t \in Threads, SetMode(t) PROVE MemoryInv'
  <2>1. /\ pc' = [pc EXCEPT ![t] = Return(t)]
        /\ UNCHANGED <<op, i, flying, torn>> /\ At(t, "setMode")
        /\ mode' = Target[Operation(t)]
        /\ Return(t) \in {"ready", "resetIO", "command"}
        /\ op[t] # "arm" => UNCHANGED <<memory, held>>
    BY <1>5 DEF SetMode, Return
  <2>2. ResetBy(t)' = {} /\ \A u \in Threads \ {t} : ResetBy(u)' = ResetBy(u)
    BY <2>1
  <2>3. Flying' => Resets(Operation(t)) /\ op[t] # "arm"
    <3>1. Operation(t) \in Operations
      BY DEF Operations
    <3>2. QED
      BY <2>1, <3>1 DEF Target, Operations, Resets
  <2>4. Resets(Operation(t)) => ResetBy(t) = Covered
    BY <2>1
  <2>5. CASE t = "updater"
    <3>1. Operation(t) = "velocityControl" /\ op[t] # "arm"
      BY <2>1, <2>5
    <3>2. ResetBy(t) = Covered
      BY <2>4, <3>1 DEF Resets
    <3>3. \A q : ~Stepping(q)'
      BY <2>1, <2>5
    <3>4. UNCHANGED <<memory, held>>
      BY <2>1, <3>1
    <3>5. /\ \A q \in Covered : Clean(q)'
          /\ \A q : Clean(q) => Clean(q)'
      BY <2>5, <3>2, <3>3, <3>4
    <3>6. QED
      BY <2>1, <2>2, <2>5, <3>5
  <2>6. CASE t = "controller" /\ op[t] = "arm"
    <3>1. \A p \in PIDs : memory[p] = "zero" => memory'[p] = "zero"
      BY <1>5, <2>6 DEF SetMode, Aged
    <3>2. ~Flying'
      BY <2>3, <2>6
    <3>3. QED
      BY <2>2, <2>6, <3>1, <3>2, ResetWithin
  <2>7. CASE t = "controller" /\ op[t] # "arm"
    <3>1. /\ UNCHANGED <<memory, held, torn>>
          /\ \A q : Stepping(q)' => Stepping(q)
      BY <2>1, <2>7
    <3>2. \A q : Clean(q) => Clean(q)'
      BY <3>1
    <3>3. QED
      BY <2>2, <2>3, <2>4, <2>7, <3>1, <3>2
  <2>8. QED
    BY <2>5, <2>6, <2>7
<1>6. CASE ResetIO
  BY <1>6 DEF ResetIO
<1>7. CASE Disconnect
  BY <1>7 DEF Disconnect
<1>8. ASSUME NEW m \in DOMAIN MessageFields, HasFields(m) PROVE MemoryInv'
  BY <1>8 DEF HasFields
<1>9. CASE StoreField
  BY <1>9 DEF StoreField
<1>10. CASE NextMessage
  BY <1>10 DEF NextMessage
<1>11. CASE TakeOff
  BY <1>11 DEF TakeOff
<1>12. CASE Fly
  BY <1>12 DEF Fly
<1>13. CASE LoadSetpoint
  <2>1. /\ UNCHANGED <<mode, memory, pc, op, held, torn>>
        /\ i' = [i EXCEPT !["updater"] = @ + 1] /\ At("updater", "work")
    BY <1>13 DEF LoadSetpoint, Working
  <2>2. \A p : ~Stepping(p)'
    BY <2>1
  <2>3. /\ ResetBy("updater")' = {}
        /\ ResetBy("controller")' = ResetBy("controller")
    BY <2>1
  <2>4. QED
    BY <2>1, <2>2, <2>3
<1>14. CASE StepPID
  <2>1. /\ UNCHANGED <<mode, memory, op, flying, torn>>
        /\ At("updater", "work")
    BY <1>14 DEF StepPID, Working
  <2>2. PICK p \in PIDs : Item = [step |-> p] /\ (StepLoads(p) \/ StepSkips)
    BY <1>14 DEF StepPID
  <2>3. CASE StepLoads(p)
    <3>1. /\ pc' = [pc EXCEPT !["updater"] = "store"] /\ i' = i
          /\ held' = Added(memory[p])
      BY <2>3 DEF StepLoads
    <3>2. memory[p] # "earlier" => held' # "earlier"
      BY <3>1 DEF Added
    <3>3. \A q : Stepping(q)' => q = p
      <4>1. Work[flying][i["updater"]] = [step |-> p]
        BY <2>2 DEF Item
      <4>2. QED
        BY <2>1, <3>1, <4>1
    <3>4. \A q : Clean(q) => Clean(q)'
      BY <2>1, <3>2, <3>3
    <3>5. /\ ResetBy("updater")' = {}
          /\ ResetBy("controller")' = ResetBy("controller")
      BY <2>1, <3>1
    <3>6. QED
      BY <2>1, <3>4, <3>5
  <2>4. CASE StepSkips
    <3>1. /\ pc' = [pc EXCEPT !["updater"] = "work"]
          /\ i' = [i EXCEPT !["updater"] = @ + 1]
      BY <2>4 DEF StepSkips
    <3>2. \A q : Clean(q) => Clean(q)'
      BY <2>1, <3>1
    <3>3. /\ ResetBy("updater")' = {}
          /\ ResetBy("controller")' = ResetBy("controller")
      BY <2>1, <3>1
    <3>4. QED
      BY <2>1, <3>2, <3>3
  <2>5. QED
    BY <2>2, <2>3, <2>4
<1>15. CASE StoreMemory
  <2>1. PICK p \in PIDs : Stepping(p)
    BY <1>15 DEF StoreMemory
  <2>2. Item.step = p
    BY <2>1 DEF Item
  <2>3. /\ memory' = [memory EXCEPT ![p] = held]
        /\ pc' = [pc EXCEPT !["updater"] = "work"]
        /\ i' = [i EXCEPT !["updater"] = @ + 1]
        /\ UNCHANGED <<mode, op, held, torn>>
    BY <1>15, <2>2 DEF StoreMemory
  <2>4. \A q \in PIDs : Clean(q) => Clean(q)'
    BY <2>1, <2>3
  <2>5. /\ ResetBy("updater")' = {}
        /\ ResetBy("controller")' = ResetBy("controller")
    BY <2>3
  <2>6. QED
    BY <2>3, <2>4, <2>5, ResetWithin
<1>16. CASE SetRC
  BY <1>16 DEF SetRC
<1>17. CASE UNCHANGED vars
  BY <1>17 DEF vars, threads, work
<1>18. QED
  BY <1>1, <1>2, <1>3, <1>4, <1>5, <1>6, <1>7, <1>8,
     <1>9, <1>10, <1>11, <1>12, <1>13, <1>14, <1>15, <1>16, <1>17
  DEF Next, Controller, Updater, Operates, Threads

\* However a flight came about and whichever thread reset them, the
\* controllers that resetPIDs covers carry no errors of an earlier flight into
\* one that uses them, for every set of controllers and order of the resets
\* (resetPIDs before setMode in velocityControl and positionControl).
THEOREM ControllersAreFresh == Spec => []FreshControllers
<1>1. Typed /\ MemoryInv /\ [Next]_vars => (Typed /\ MemoryInv)'
  BY NextTyped, NextMemory
<1>2. MemoryInv => FreshControllers
  BY DEF MemoryInv, FreshControllers, Flying, Clean
<1>3. QED
  BY <1>1, <1>2, InitInv, PTL DEF Spec
-----------------------------------------------------------------------------
(* The estimates: theorems about Observations.                             *)

\* Types, and what each part of an estimate loads.
ObservationsTyped ==
    /\ samples \in Nat /\ requests \in Nat /\ begun \in Nat /\ round \in Nat
    /\ sample \in [Fields -> Nat] /\ storing \subseteq Fields
    /\ initial \in [O!Positions -> Nat] /\ keeping \subseteq O!Positions
    /\ stage \in 0 .. 4
    /\ todo \subseteq IF stage = 0 THEN {} ELSE O!Loads[stage]

\* The fields that the callback still has to store are of the sample before,
\* and among them are all numbers if there is a part of the orientation.
Numbers == (O!Velocity \cup O!Position) \cap Fields
InStoreOrder ==
    /\ \A f \in Fields :
          sample[f] = IF f \in storing THEN samples - 1 ELSE samples
    /\ storing # {} => samples > 0
    /\ storing \cap O!Orientation # {} => Numbers \subseteq storing

\* What has been loaded is not newer than the orientation is now, which is
\* loaded after the numbers.
LoadedInOrder ==
    /\ \A f \in DOMAIN loaded \cap Numbers :
          \A q \in O!Orientation \cap Fields : loaded[f] <= sample[q]
    /\ stage \in {1, 3} => DOMAIN loaded \cap O!Orientation = {}
    /\ DOMAIN loaded \cap (O!Velocity \cup O!Position) \subseteq Fields
    /\ DOMAIN loaded \cap O!Orientation \subseteq Fields
    /\ \A f \in DOMAIN loaded : loaded[f] \in Nat
    /\ O!RotatedByTheNewest

\* The positions kept are from the positionControl that stored the mode, or
\* from one that has not stored it yet.
KeptInOrder ==
    /\ begun <= requests /\ round <= begun
    /\ \A p \in O!Positions : initial[p] >= begun /\ initial[p] <= requests
    /\ request = "positionControl" =>
          \A p \in O!Positions \ keeping : initial[p] = requests
    /\ keeping # {} => request = "positionControl"
    /\ \A p \in O!Positions : O!Initial[p] \in DOMAIN loaded =>
          loaded[O!Initial[p]] \in Nat /\ loaded[O!Initial[p]] >= round

ObservationsInv ==
    ObservationsTyped /\ InStoreOrder /\ LoadedInOrder /\ KeptInOrder

LEMMA ObservationsInit == O!Init => ObservationsInv
BY DEF O!Init, ObservationsInv, ObservationsTyped, InStoreOrder,
       LoadedInOrder, KeptInOrder, O!RotatedByTheNewest, O!Nothing, Numbers

LEMMA CallbackKeeps ==
    ObservationsInv /\ (O!Callback \/ O!Store) => ObservationsInv'
<1> SUFFICES ASSUME ObservationsInv, O!Callback \/ O!Store
             PROVE  ObservationsInv'
  OBVIOUS
<1> USE DEF ObservationsInv, O!controller, O!updater
<1>1. ObservationsTyped'
  BY DEF ObservationsTyped, O!Callback, O!Store, O!FirstOf
<1>2. InStoreOrder'
  BY DEF ObservationsTyped, InStoreOrder, O!Callback, O!Store, O!FirstOf,
         Numbers, O!StoreOrder, O!Orientation, O!Velocity, O!Position
<1>3. \A q \in Fields : sample[q] <= sample'[q]
  BY DEF ObservationsTyped, InStoreOrder, O!Callback, O!Store, O!FirstOf
<1>4. LoadedInOrder'
  BY <1>1, <1>3
  DEF ObservationsTyped, LoadedInOrder, O!RotatedByTheNewest, O!Callback,
      O!Store, Numbers
<1>5. KeptInOrder'
  BY DEF KeptInOrder, O!Callback, O!Store, O!Positions
<1> QED
  BY <1>1, <1>2, <1>4, <1>5

LEMMA RequestKeeps ==
    ASSUME ObservationsInv,
           (\E o \in O!Operations \ {"calibrate"} : O!Request(o))
               \/ O!Keep \/ O!SetMode
    PROVE  ObservationsInv'
<1> USE DEF ObservationsInv, O!vrpn, O!updater
<1>1. ObservationsTyped'
  BY DEF ObservationsTyped, O!Request, O!Keep, O!SetMode, O!WhenKept,
         O!FirstOf, O!Loads, O!Positions
<1>2. InStoreOrder' /\ LoadedInOrder'
  BY DEF InStoreOrder, LoadedInOrder, O!RotatedByTheNewest, O!Request,
         O!Keep, O!SetMode, Numbers
<1>3. KeptInOrder'
  BY DEF ObservationsTyped, KeptInOrder, O!Request, O!Keep, O!SetMode,
         O!WhenKept, O!FirstOf, O!Positions
<1> QED
  BY <1>1, <1>2, <1>3

LEMMA LoadKeeps == ObservationsInv /\ O!Load => ObservationsInv'
<1> SUFFICES ASSUME ObservationsInv, O!Load PROVE ObservationsInv'
  OBVIOUS
<1> USE DEF ObservationsInv, O!vrpn, O!controller
<1>1. PICK f \in O!FirstOf(todo, O!Axis) :
         /\ \/ f \in Fields /\ loaded' = O!Holding(f, sample[f])
            \/ \E p \in O!Positions :
                  O!Initial[p] = f /\ loaded' = O!Holding(f, initial[p])
         /\ todo' = todo \ {f}
  BY DEF O!Load
<1>2. PICK v \in Nat :
         /\ loaded' = O!Holding(f, v)
         /\ \/ f \in Fields /\ v = sample[f]
            \/ \E p \in O!Positions : O!Initial[p] = f /\ v = initial[p]
  BY <1>1 DEF ObservationsTyped
<1>3. f \in todo
  BY <1>1 DEF O!FirstOf
<1>4. ObservationsTyped' /\ InStoreOrder'
  BY <1>1
  DEF ObservationsTyped, InStoreOrder, O!Load, O!Loads, O!Positions, Numbers
<1>5. \A q \in O!Orientation \cap Fields : \A g \in Numbers :
         sample[g] <= sample[q]
  BY DEF ObservationsTyped, InStoreOrder, Numbers, O!Orientation,
         O!Velocity, O!Position
<1>6. /\ DOMAIN loaded' = DOMAIN loaded \cup {f}
      /\ \A g \in DOMAIN loaded' :
            loaded'[g] = IF g = f THEN v ELSE loaded[g]
  BY <1>2 DEF O!Holding
<1>7. /\ f \in O!Velocity \cup O!Position \cup O!Orientation =>
            f \in Fields /\ v = sample[f]
      /\ \A p \in O!Positions : f = O!Initial[p] => v = initial[p]
  <2>1. \A p \in O!Positions :
           O!Initial[p] \notin O!Velocity \cup O!Position \cup O!Orientation
    BY DEF O!Positions, O!Initial, O!Velocity, O!Position, O!Orientation
  <2>2. \A p, q \in O!Positions : O!Initial[p] = O!Initial[q] => p = q
    BY DEF O!Positions, O!Initial, O!Position
  <2>3. QED
    BY <1>2, <2>1, <2>2, FieldsAssumption DEF ObservationsTyped, O!FieldsKnown
<1>8. f \in O!Orientation => stage \notin {1, 3}
  <2>1. \A p \in O!Positions : O!Initial[p] \notin O!Orientation
    BY DEF O!Positions, O!Initial, O!Position, O!Orientation
  <2>2. f \notin O!Orientation \/ f \notin O!Velocity
    BY DEF O!Orientation, O!Velocity
  <2>3. f \notin O!Orientation \/ f \notin O!Positions
    BY DEF O!Orientation, O!Positions, O!Position
  <2>4. stage = 1 => todo \subseteq O!Velocity
    BY DEF ObservationsTyped, O!Loads
  <2>5. stage = 3 =>
           todo \subseteq
              O!Positions \cup {O!Initial[p] : p \in O!Positions}
    BY DEF ObservationsTyped, O!Loads
  <2>6. QED
    BY <1>3, <2>1, <2>2, <2>3, <2>4, <2>5
<1>9. f \in O!Velocity \cup O!Position => stage \in {1, 3}
  <2>1. f \in O!Velocity \cup O!Position => f \notin O!Orientation
    BY DEF O!Velocity, O!Position, O!Orientation
  <2>2. stage = 2 => todo \subseteq O!Orientation
    BY DEF ObservationsTyped, O!Loads
  <2>3. stage = 0 => todo = {}
    BY DEF ObservationsTyped
  <2>4. stage = 4 => todo \subseteq O!Orientation
    BY DEF ObservationsTyped, O!Loads
  <2>5. stage \in {0, 1, 2, 3, 4}
    BY DEF ObservationsTyped
  <2>6. QED
    BY <1>3, <2>1, <2>2, <2>5, <2>4, <2>3
<1>10. UNCHANGED <<sample, stage, initial, requests, begun, round, request,
                  keeping>>
  BY DEF O!Load
<1>11. LoadedInOrder'
  <2>1. \A g \in DOMAIN loaded' \cap Numbers :
           \A q \in O!Orientation \cap Fields : loaded'[g] <= sample[q]
    BY <1>5, <1>6, <1>7 DEF LoadedInOrder, Numbers
  <2>2. O!RotatedByTheNewest'
    <3> SUFFICES ASSUME NEW g \in DOMAIN loaded'
                                 \cap (O!Velocity \cup O!Position),
                        NEW q \in DOMAIN loaded' \cap O!Orientation
                 PROVE  loaded'[g] <= loaded'[q]
      BY DEF O!RotatedByTheNewest
    <3>1. g # q
      BY DEF O!Velocity, O!Position, O!Orientation
    <3>2. CASE q = f
      BY <1>6, <1>7, <2>1, <3>2 DEF LoadedInOrder, Numbers
    <3>3. CASE q # f /\ g # f
      BY <1>6, <3>3 DEF LoadedInOrder, O!RotatedByTheNewest
    <3>4. CASE g = f
      <4>1. stage \notin {1, 3}
        BY <1>6, <3>1, <3>4 DEF LoadedInOrder
      <4> QED
        BY <1>3, <1>9, <3>4, <4>1
    <3> QED
      BY <3>2, <3>3, <3>4
  <2> QED
    BY <1>2, <1>6, <1>7, <1>8, <1>10, <2>1, <2>2
    DEF LoadedInOrder, Numbers
<1>12. KeptInOrder'
  BY <1>2, <1>6, <1>7, <1>10 DEF ObservationsTyped, KeptInOrder, O!Positions
<1> QED
  BY <1>4, <1>11, <1>12

LEMMA RoundKeeps ==
    ObservationsInv /\ (O!Fly \/ O!NextPart \/ O!SetRC) => ObservationsInv'
<1> SUFFICES ASSUME ObservationsInv, O!Fly \/ O!NextPart \/ O!SetRC
             PROVE  ObservationsInv'
  OBVIOUS
<1> USE DEF ObservationsInv, O!vrpn, O!controller
<1>1. ObservationsTyped' /\ InStoreOrder'
  BY DEF ObservationsTyped, InStoreOrder, O!Fly, O!Idle, O!NextPart,
         O!SetRC, O!Loads, O!Positions, Numbers
<1>2. LoadedInOrder'
  BY DEF ObservationsTyped, LoadedInOrder, O!RotatedByTheNewest, O!Fly,
         O!Idle, O!NextPart, O!SetRC, O!Nothing, Numbers
<1>3. KeptInOrder'
  BY DEF ObservationsTyped, KeptInOrder, O!Fly, O!NextPart, O!SetRC,
         O!Nothing, O!Positions
<1> QED
  BY <1>1, <1>2, <1>3

LEMMA OthersKeep ==
    ASSUME ObservationsInv,
           O!TakeOff \/ O!GetMode \/ O!StoreMode \/ UNCHANGED O!vars
    PROVE  ObservationsInv'
BY DEF ObservationsInv, ObservationsTyped, InStoreOrder, LoadedInOrder,
       KeptInOrder, O!RotatedByTheNewest, O!TakeOff, O!GetMode, O!StoreMode,
       O!vars, O!vrpn, O!controller, O!updater, O!Loads, O!Positions, Numbers

LEMMA ObservationsKept == O!Spec => []ObservationsInv
<1>1. ObservationsInv /\ [O!Next]_O!vars => ObservationsInv'
  BY CallbackKeeps, RequestKeeps, LoadKeeps, RoundKeeps, OthersKeep
  DEF O!Next
<1> QED
  BY ObservationsInit, <1>1, PTL DEF O!Spec

\* However samples, requests and rounds interleave, a velocity or a position
\* is rotated by an orientation that is at least as recent, for every set of
\* fields (VRPN::callback, velocity, position).
THEOREM RotatedByNewer == O!Spec => []RotatedByTheNewest
<1>1. ObservationsInv => RotatedByTheNewest
  BY DEF ObservationsInv, LoadedInOrder, RotatedByTheNewest
<1> QED
  BY ObservationsKept, <1>1, PTL

\* A round of position control measures from the position that its
\* positionControl kept or a later one, never from an earlier flight's
\* (positionControl stores the mode last).
THEOREM NoEarlierStart == O!Spec => []MeasuredFromItsStart
<1>1. ObservationsInv => MeasuredFromItsStart
  BY DEF MeasuredFromItsStart, O!MeasuredFromItsStart, ObservationsInv,
         KeptInOrder
<1> QED
  BY ObservationsKept, <1>1, PTL
-----------------------------------------------------------------------------
(* Both views.                                                             *)

LEMMA EitherView == SpecFlights => Spec /\ O!Spec
<1>1. InitFlights => Init /\ O!Init
  BY DEF InitFlights
<1>2. [NextFlights]_<<view, vars, estimates>> => [Next]_vars /\ [O!Next]_O!vars
  BY DEF NextFlights, estimates, O!vars, O!vrpn, O!controller, O!updater
<1> QED
  BY <1>1, <1>2, PTL DEF SpecFlights, Spec, O!Spec

\* In either view of the two threads, nothing of an earlier flight is used in
\* a later one but what the properties say, and no estimate is rotated by an
\* older orientation (do_recv, do_update, VRPN::callback).
THEOREM FlightsAreFresh ==
  SpecFlights => [](/\ FreshControllers /\ OneOldRound
                    /\ RotatedByTheNewest /\ MeasuredFromItsStart)
BY EitherView, ControllersAreFresh, OldSetpointsEnd, RotatedByNewer,
   NoEarlierStart, PTL
=============================================================================
