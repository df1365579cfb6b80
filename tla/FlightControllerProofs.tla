----------------------- MODULE FlightControllerProofs -----------------------
(***************************************************************************)
(* Theorems about FlightController, for every number of channels and of    *)
(* replies, every set of commands and every interleaving.                  *)
(***************************************************************************)
EXTENDS FlightController, TLAPS

StepPCs == {"getMode", "storeArmed", "setRC", "stamp", "storeMode", "settle",
            "sendCalibrate"}

\* Which operation a thread can be in at which access, and which accesses
\* each thread makes.
Control ==
    /\ op["controller"] \in Operations
    /\ pc["controller"] \in StepPCs \cup {"ready"}
    /\ pc["updater"] # "ready"
    /\ \A t \in Threads :
          /\ pc[t] \in {"getMode", "stamp", "storeMode"}
                => op[t] \in Operations
          /\ pc[t] = "storeArmed" => op[t] \in {"arm", "disarm"}
          /\ pc[t] = "setRC" => op[t] \in {"arm", "disarm", "setRC"}
          /\ pc[t] = "settle" => op[t] = "arm"
          /\ pc[t] = "sendCalibrate" => op[t] = "calibrate"

\* The typing invariant has to carry Control: GetMode and StoreMode look the
\* operation up in tables that have no entry for setRC.
Typed == TypeOK /\ Control

\* The variables start with their types.
LEMMA InitTyped == Init => Typed
<1> SUFFICES ASSUME Init PROVE Typed
  OBVIOUS
<1>1. NoFrame \in Frames /\ rc \in [Channel -> Levels]
  BY DEF Init, Start, NoFrame, Frames, Idle, Levels
<1>2. rcWire \in Seq(Frames)
  BY <1>1 DEF Init, Start
<1>3. /\ pc \in [Threads -> PCs] /\ ch \in [Threads -> Channel]
      /\ op \in [Threads -> Operations \cup {"setRC"}]
      /\ stores \in [Threads -> BOOLEAN]
  BY ChannelsAssumption
     DEF Init, Home, PCs, Channel, Operations, Threads
<1>4. TypeOK
  <2>1. /\ mode \in Modes /\ armed \in BOOLEAN /\ calibrateFlag \in BOOLEAN
        /\ overdue \in BOOLEAN /\ late \in BOOLEAN
    BY DEF Init, Start, Modes
  <2>2. left \in 0 .. MaxReplies
    BY MaxRepliesAssumption DEF Init, Start
  <2>3. snapshot \in Frames /\ board \in Frames
    BY <1>1 DEF Init, Start
  <2>4. rcReplies \in Nat /\ calRequests \in Nat /\ calReplies \in Nat
        /\ staleFrames \in Nat
    BY DEF Init, Start
  <2>5. QED
    BY <1>1, <1>2, <1>3, <2>1, <2>2, <2>3, <2>4 DEF TypeOK
<1>5. Control
  BY DEF Init, Start, Control, Threads, Home, Operations, StepPCs
<1>6. QED
  BY <1>4, <1>5 DEF Typed

\* Every access inside an operation keeps them.
LEMMA StepTyped ==
  ASSUME Typed, NEW t \in Threads, Step(t)
  PROVE  Typed'
<1> USE ChannelsAssumption
    DEF Typed, TypeOK, Control, Threads, Home, Operations, Modes, StepPCs,
        PCs, shared, wires
<1>1. CASE GetMode(t)
  BY <1>1 DEF GetMode, From, AfterLoad
<1>2. CASE StoreArmed(t)
  BY <1>2 DEF StoreArmed, SwitchOf, Channel
<1>3. CASE StoreChannel(t)
  <2>1. rc' \in [Channel -> Levels]
    BY <1>3 DEF StoreChannel, LastChannel, Levels
  <2>2. /\ ch' \in [Threads -> Channel]
        /\ pc' \in [Threads -> PCs]
    BY <1>3 DEF StoreChannel, LastChannel, AfterSetRC, Channel
  <2>3. Control'
    BY <1>3 DEF StoreChannel, LastChannel, AfterSetRC
  <2>4. QED
    BY <1>3, <2>1, <2>2, <2>3 DEF StoreChannel, LastChannel
<1>4. CASE StampMode(t)
  <2>1. overdue' \in BOOLEAN
    BY <1>4 DEF StampMode
  <2>2. pc' \in [Threads -> PCs] /\ Control'
    BY <1>4 DEF StampMode
  <2>3. QED
    BY <1>4, <2>1, <2>2 DEF StampMode
<1>5. CASE StoreMode(t)
  <2>1. mode' \in Modes
    BY <1>5 DEF StoreMode, Target
  <2>2. /\ ch' \in [Threads -> Channel]
        /\ pc' \in [Threads -> PCs]
    BY <1>5 DEF StoreMode, Channel
  <2>3. Control'
    BY <1>5 DEF StoreMode
  <2>4. QED
    BY <1>5, <2>1, <2>2, <2>3 DEF StoreMode
<1>6. CASE SendCalibrate(t)
  BY <1>6 DEF SendCalibrate
<1>7. QED
  BY <1>1, <1>2, <1>3, <1>4, <1>5, <1>6 DEF Step

\* Every access of the updater's loop keeps them.
LEMMA UpdaterTyped == Typed /\ Updater => Typed'
<1> SUFFICES ASSUME Typed, Updater PROVE Typed'
  OBVIOUS
<1> USE ChannelsAssumption, MaxRepliesAssumption
    DEF Typed, TypeOK, Control, Threads, Operations, Modes, StepPCs, PCs,
        shared, wires
<1>1. CASE RecvRC
  BY <1>1 DEF RecvRC, Channel
<1>2. CASE RecvCalibration
  <2>1. calibrateFlag' \in BOOLEAN
    BY <1>2 DEF RecvCalibration
  <2>2. left' \in 0 .. MaxReplies /\ calReplies' \in Nat
    BY <1>2 DEF RecvCalibration
  <2>3. QED
    BY <1>2, <2>1, <2>2 DEF RecvCalibration
<1>3. CASE LoadChannel
  <2>1. snapshot' \in Frames
    BY <1>3 DEF LoadChannel, LastChannel, Frames
  <2>2. ch' \in [Threads -> Channel] /\ pc' \in [Threads -> PCs] /\ Control'
    BY <1>3 DEF LoadChannel, LastChannel, Channel
  <2>3. QED
    BY <1>3, <2>1, <2>2 DEF LoadChannel, LastChannel
<1>4. CASE LoadArmed
  BY <1>4 DEF LoadArmed, SwitchSample, Frames
<1>5. CASE SendRC
  <2>1. NoFrame \in Frames
    BY DEF NoFrame, Frames, Idle, Levels
  <2>2. rcWire' \in Seq(Frames) /\ staleFrames' \in Nat
    BY <1>5 DEF SendRC
  <2>3. QED
    BY <1>5, <2>1, <2>2 DEF SendRC
<1>6. CASE UpdateController
  <2>1. left' \in 0 .. MaxReplies /\ ch' \in [Threads -> Channel]
    BY <1>6 DEF UpdateController, Quiet, Channel
  <2>2. op' \in [Threads -> Operations \cup {"setRC"}]
        /\ pc' \in [Threads -> PCs] /\ Control'
    BY <1>6 DEF UpdateController, Quiet
  <2>3. QED
    BY <1>6, <2>1, <2>2 DEF UpdateController, Quiet
<1>7. CASE LoadThen
  BY <1>7 DEF LoadThen
<1>8. CASE CalibrateDone
  BY <1>8 DEF CalibrateDone
<1>9. CASE Step("updater")
  BY <1>9, StepTyped
<1>10. QED
  BY <1>1, <1>2, <1>3, <1>4, <1>5, <1>6, <1>7, <1>8, <1>9 DEF Updater

\* So do the controller's calls and the environment.
LEMMA NextTyped == Typed /\ [Next]_vars => Typed'
<1> SUFFICES ASSUME Typed, [Next]_vars PROVE Typed'
  OBVIOUS
<1> USE DEF Typed, TypeOK, Control, shared, locals, wires
<1>1. ASSUME NEW o \in Commands, Call(o) PROVE Typed'
  BY <1>1, CommandsAssumption DEF Call, Threads, PCs, StepPCs
<1>2. CASE Step("controller")
  BY <1>2, StepTyped DEF Threads
<1>3. CASE Updater
  BY <1>3, UpdaterTyped
<1>4. CASE TenSeconds
  BY <1>4 DEF TenSeconds
<1>5. CASE BoardRC
  BY <1>5 DEF BoardRC
<1>6. CASE BoardCalibrate
  BY <1>6 DEF BoardCalibrate
<1>7. CASE Lose
  <2>1. rcWire' \in Seq(Frames)
    <3>1. rcWire' = rcWire \/ (rcWire # <<>> /\ rcWire' = Tail(rcWire))
      BY <1>7 DEF Lose
    <3>2. QED
      BY <3>1
  <2>2. rcReplies' \in Nat /\ calRequests' \in Nat /\ calReplies' \in Nat
    BY <1>7 DEF Lose
  <2>3. QED
    BY <1>7, <2>1, <2>2 DEF Lose
<1>8. CASE UNCHANGED vars
  BY <1>8 DEF vars
<1>9. QED
  BY <1>1, <1>2, <1>3, <1>4, <1>5, <1>6, <1>7, <1>8
     DEF Next, Controller, Board

\* Every variable keeps its type; m_mode only ever holds one of the modes
\* updateController has a case for, so its throw is dead code.
THEOREM TypeCorrect == Spec => [](TypeOK /\ Control)
<1>1. Init => Typed
  BY InitTyped
<1>2. Typed /\ [Next]_vars => Typed'
  BY NextTyped
<1>3. Typed => TypeOK /\ Control
  BY DEF Typed
<1>4. QED
  BY <1>1, <1>2, <1>3, PTL DEF Spec

-----------------------------------------------------------------------------
(* The arm switch and the mode, for the operations do_recv calls.          *)

\* DisarmedMeansUnarmed and ArmedModesAreArmed are not inductive: they need
\* what the switch is at each access of arm, disarm and takeoff (the last two
\* of whose loads of m_mode may be stale), and that the updater, which leaves
\* TakeOff with velocityControl, runs no operation that touches the switch.
SwitchInv ==
    LET p == pc["controller"]
        o == op["controller"]
        u == pc["updater"]
    IN  /\ DisarmedMeansUnarmed
        /\ ArmedModesAreArmed
        /\ mode # "Calibrating" /\ o # "calibrate"
        /\ o = "arm" /\ p \in {"setRC", "stamp", "storeMode", "settle"}
               => armed
        /\ o = "arm" /\ p = "settle" => mode # "Disarmed"
        /\ o = "takeoff" /\ p \in {"stamp", "storeMode"} => armed
        /\ o = "disarm" /\ p \in {"setRC", "stamp", "storeMode"} => ~armed
        /\ o = "disarm" /\ p \in {"storeArmed", "setRC"}
         /\ ~stores["controller"]
               => mode \notin {"Armed", "TakeOff"}
        /\ u \notin {"storeArmed", "settle", "sendCalibrate", "loadThen",
                      "calibrateDone"}
        /\ u \in {"getMode", "stamp", "storeMode"}
               => op["updater"] = "velocityControl"
        /\ u = "setRC" => op["updater"] = "setRC"

\* Before main is called nothing is armed, and no thread is inside disarm.
LEMMA InitSwitch == Init => SwitchInv
  BY DEF Init, Start, SwitchInv, DisarmedMeansUnarmed, ArmedModesAreArmed,
         InOp, Home,
         Threads

\* A step inside one of the controller's operations.
LEMMA ControllerSwitch ==
  ASSUME Typed, SwitchInv, Step("controller")
  PROVE  SwitchInv'
<1> USE DEF Typed, TypeOK, Control, Threads, Home, Operations, Modes,
            SwitchInv, DisarmedMeansUnarmed, ArmedModesAreArmed, InOp, StepPCs
<1>1. CASE GetMode("controller")
  <2>1. /\ UNCHANGED <<shared, op>> /\ pc["controller"] = "getMode"
        /\ pc'["updater"] = pc["updater"]
    BY <1>1 DEF GetMode
  <2>2. CASE op["controller"] = "arm"
    <3>1. pc'["controller"] =
            IF mode = "Disarmed" THEN "storeArmed" ELSE "ready"
      BY <1>1, <2>2 DEF GetMode, From, AfterLoad
    <3>2. QED
      BY <2>1, <2>2, <3>1 DEF shared
  <2>3. CASE op["controller"] = "disarm"
    <3>1. /\ pc'["controller"] = "storeArmed"
          /\ stores'["controller"] = (mode # "Disarmed")
      BY <1>1, <2>3 DEF GetMode, From, AfterLoad
    <3>2. QED
      BY <2>1, <2>3, <3>1 DEF shared
  <2>4. CASE op["controller"] = "takeoff"
    <3>1. pc'["controller"] = IF mode = "Armed" THEN "stamp" ELSE "ready"
      BY <1>1, <2>4 DEF GetMode, From, AfterLoad
    <3>2. QED
      BY <2>1, <2>4, <3>1 DEF shared
  <2>5. CASE op["controller"] \notin {"arm", "disarm", "takeoff"}
    BY <2>1, <2>5 DEF shared
  <2>6. QED
    BY <2>2, <2>3, <2>4, <2>5
<1>2. CASE StoreArmed("controller")
  BY <1>2 DEF StoreArmed, SwitchOf
<1>3. CASE StoreChannel("controller")
  BY <1>3 DEF StoreChannel, LastChannel, AfterSetRC
<1>4. CASE StampMode("controller")
  BY <1>4 DEF StampMode
<1>5. CASE StoreMode("controller")
  BY <1>5 DEF StoreMode, Target
<1>6. CASE SendCalibrate("controller")
  BY <1>6 DEF SendCalibrate
<1>7. QED
  BY <1>1, <1>2, <1>3, <1>4, <1>5, <1>6 DEF Step

\* A step of the updater: the only mode it stores is VelocityControl.
LEMMA UpdaterSwitch == Typed /\ SwitchInv /\ Updater => SwitchInv'
<1> SUFFICES ASSUME Typed, SwitchInv, Updater PROVE SwitchInv'
  OBVIOUS
<1> USE DEF Typed, TypeOK, Control, Threads, Home, Operations, Modes,
            SwitchInv, DisarmedMeansUnarmed, ArmedModesAreArmed, InOp, StepPCs,
            shared
<1>1. CASE RecvRC
  BY <1>1 DEF RecvRC
<1>2. CASE RecvCalibration
  BY <1>2 DEF RecvCalibration
<1>3. CASE LoadChannel
  BY <1>3 DEF LoadChannel, LastChannel
<1>4. CASE LoadArmed
  BY <1>4 DEF LoadArmed, SwitchSample
<1>5. CASE SendRC
  BY <1>5 DEF SendRC
<1>6. CASE UpdateController
  BY <1>6 DEF UpdateController, Quiet
<1>7. CASE LoadThen \/ CalibrateDone
  BY <1>7 DEF LoadThen, CalibrateDone
<1>8. CASE Step("updater")
  <2>1. CASE GetMode("updater")
    BY <1>8, <2>1 DEF GetMode, From, AfterLoad
  <2>2. CASE StoreArmed("updater") \/ SendCalibrate("updater")
    BY <1>8, <2>2 DEF StoreArmed, SendCalibrate
  <2>3. CASE StoreChannel("updater")
    BY <1>8, <2>3 DEF StoreChannel, LastChannel, AfterSetRC
  <2>4. CASE StampMode("updater")
    BY <1>8, <2>4 DEF StampMode
  <2>5. CASE StoreMode("updater")
    BY <1>8, <2>5 DEF StoreMode, Target
  <2>6. QED
    BY <1>8, <2>1, <2>2, <2>3, <2>4, <2>5 DEF Step
<1>9. QED
  BY <1>1, <1>2, <1>3, <1>4, <1>5, <1>6, <1>7, <1>8 DEF Updater

\* As do_recv uses the flight controller (it never calls calibrate), the arm
\* switch follows the mode through every interleaving with the updater: off
\* in Disarmed, on in Armed and TakeOff, but for the inside of arm and disarm.
THEOREM SwitchFollowsMode ==
  ASSUME "calibrate" \notin Commands
  PROVE  Spec => []ModeMatchesSwitch
<1>1. Typed /\ SwitchInv /\ [Next]_vars => SwitchInv'
  <2> SUFFICES ASSUME Typed, SwitchInv, [Next]_vars PROVE SwitchInv'
    OBVIOUS
  <2> USE DEF SwitchInv, DisarmedMeansUnarmed, ArmedModesAreArmed, InOp, Home,
              shared, locals
  <2>1. ASSUME NEW o \in Commands, Call(o) PROVE SwitchInv'
    BY <2>1, CommandsAssumption DEF Call, Typed, TypeOK, Control, Threads
  <2>2. CASE Step("controller")
    BY <2>2, ControllerSwitch
  <2>3. CASE Updater
    BY <2>3, UpdaterSwitch
  <2>4. CASE TenSeconds
    BY <2>4 DEF TenSeconds
  <2>5. CASE Board
    BY <2>5 DEF Board, BoardRC, BoardCalibrate
  <2>6. CASE Lose
    BY <2>6 DEF Lose
  <2>7. CASE UNCHANGED vars
    BY <2>7 DEF vars
  <2>8. QED
    BY <2>1, <2>2, <2>3, <2>4, <2>5, <2>6, <2>7 DEF Next, Controller
<1>2. SwitchInv => ModeMatchesSwitch
  BY DEF SwitchInv, ModeMatchesSwitch
<1>3. QED
  BY <1>1, <1>2, InitTyped, NextTyped, InitSwitch, PTL DEF Spec

-----------------------------------------------------------------------------
(* The RC frame that goes round, and what it carries.                      *)

\* A step inside an operation leaves the frames alone.
LEMMA StepWires ==
  ASSUME Typed, NEW t \in Threads, Step(t)
  PROVE  /\ UNCHANGED <<rcWire, rcReplies, snapshot>>
         /\ Composing' = Composing
         /\ pc["updater"] = "sendCMD" <=> pc'["updater"] = "sendCMD"
  BY DEF Step, GetMode, StoreArmed, StoreChannel, StampMode, StoreMode,
         SendCalibrate, From, AfterLoad, AfterSetRC, Home, Composing, wires,
         Typed, TypeOK, Control, Threads, Operations

\* RC frames composed, on the line or acknowledged.
RCFrames == Len(rcWire) + rcReplies + Composing

\* No step adds an RC frame to the round; only a loss takes one away.
LEMMA RCFramesStep ==
  ASSUME Typed, [Next]_vars
  PROVE  /\ RCFrames' <= RCFrames
         /\ ~Lossy => RCFrames' = RCFrames
<1> USE DEF RCFrames, Composing, Typed, TypeOK, Threads, wires, locals
<1>1. ASSUME NEW o \in Commands, Call(o) PROVE RCFrames' = RCFrames
  BY <1>1 DEF Call
<1>2. ASSUME NEW t \in Threads, Step(t) PROVE RCFrames' = RCFrames
  BY <1>2, StepWires
<1>3. CASE RecvRC
  BY <1>3 DEF RecvRC
<1>4. CASE LoadChannel \/ LoadArmed
  BY <1>4 DEF LoadChannel, LastChannel, LoadArmed
<1>5. CASE SendRC
  <2>1. Len(rcWire') = Len(rcWire) + 1
    BY <1>5 DEF SendRC
  <2>2. QED
    BY <1>5, <2>1 DEF SendRC
<1>6. CASE RecvCalibration \/ UpdateController \/ LoadThen \/ CalibrateDone
  BY <1>6 DEF RecvCalibration, UpdateController, LoadThen, CalibrateDone
<1>7. CASE BoardRC
  BY <1>7 DEF BoardRC
<1>8. CASE TenSeconds \/ BoardCalibrate \/ UNCHANGED vars
  BY <1>8 DEF TenSeconds, BoardCalibrate, vars
<1>9. CASE Lose
  <2>1. rcWire # <<>> => Len(Tail(rcWire)) = Len(rcWire) - 1
    OBVIOUS
  <2>2. QED
    BY <1>9, <2>1 DEF Lose
<1>10. QED
  BY <1>1, <1>2, <1>3, <1>4, <1>5, <1>6, <1>7, <1>8, <1>9
     DEF Next, Controller, Updater, Board

\* At most one RC frame goes round, whatever the line loses: sendRC answers a
\* reply and nothing else, and Skyline::start sends the first.
THEOREM RCFrameBound == Spec => []AtMostOneRCFrame
<1>1. Init => RCFrames = 1
  BY DEF Init, Start, RCFrames, Composing, Threads, Home
<1>2. Typed /\ RCFrames <= 1 /\ [Next]_vars => (RCFrames <= 1)'
  <2> SUFFICES ASSUME Typed, RCFrames <= 1, [Next]_vars PROVE RCFrames' <= 1
    OBVIOUS
  <2>1. Typed' /\ RCFrames' <= RCFrames
    BY NextTyped, RCFramesStep
  <2>2. RCFrames \in Nat /\ RCFrames' \in Nat
    BY <2>1 DEF RCFrames, Composing, Typed, TypeOK
  <2>3. QED
    BY <2>1, <2>2
<1>3. RCFrames = 1 => RCFrames <= 1
  OBVIOUS
<1>4. RCFrames <= 1 => AtMostOneRCFrame
  BY DEF RCFrames, AtMostOneRCFrame
<1>5. QED
  BY <1>1, <1>2, <1>3, <1>4, InitTyped, NextTyped, PTL DEF Spec

\* On a line that loses nothing the round never stops: there is always exactly
\* one RC frame, so the board's copy of the switch keeps being refreshed.
THEOREM RCFrameConserved == ASSUME ~Lossy PROVE Spec => []OneRCFrame
<1>1. Init => OneRCFrame
  BY DEF Init, Start, OneRCFrame, Composing, Threads, Home
<1>2. Typed /\ OneRCFrame /\ [Next]_vars => OneRCFrame'
  BY RCFramesStep DEF RCFrames, OneRCFrame
<1>3. QED
  BY <1>1, <1>2, InitTyped, NextTyped, PTL DEF Spec

\* AtMostOneStaleFrame is not inductive: it needs that no stale frame is
\* counted while the switch is on, and that a frame holding a stale load of
\* m_armed but not yet written counts as the one.
StaleInv ==
    /\ armed => staleFrames = 0
    /\ ~armed => staleFrames + (IF pc["updater"] = "sendCMD" /\ snapshot.armed
                                THEN 1 ELSE 0) <= 1

\* At most one frame that still says armed is written after m_armed has been
\* cleared, by whichever thread and in whichever order.
THEOREM StaleFrameBound == Spec => []AtMostOneStaleFrame
<1>1. Init => StaleInv
  BY DEF Init, Start, StaleInv, Threads, Home
<1>2. Typed /\ StaleInv /\ [Next]_vars => StaleInv'
  <2> SUFFICES ASSUME Typed, StaleInv, [Next]_vars PROVE StaleInv'
    OBVIOUS
  <2> USE DEF StaleInv, Typed, TypeOK, Threads, shared, locals, wires
  <2>1. ASSUME NEW o \in Commands, Call(o) PROVE StaleInv'
    BY <2>1 DEF Call
  <2>2. ASSUME NEW t \in Threads, Step(t) PROVE StaleInv'
    <3>1. /\ snapshot' = snapshot
          /\ pc["updater"] = "sendCMD" <=> pc'["updater"] = "sendCMD"
      BY <2>2, StepWires
    <3>2. CASE StoreArmed(t)
      <4>1. staleFrames' = IF armed' = armed THEN staleFrames ELSE 0
        BY <3>2 DEF StoreArmed, SwitchOf
      <4>2. QED
        BY <3>1, <4>1, NextTyped
    <3>3. CASE ~StoreArmed(t)
      BY <2>2, <3>1, <3>3 DEF Step, GetMode, StoreChannel, StampMode,
                              StoreMode, SendCalibrate
    <3>4. QED
      BY <3>2, <3>3
  <2>3. CASE LoadArmed
    BY <2>3 DEF LoadArmed, SwitchSample
  <2>4. CASE SendRC
    BY <2>4 DEF SendRC
  <2>5. CASE RecvRC \/ RecvCalibration \/ LoadChannel
    BY <2>5 DEF RecvRC, RecvCalibration, LoadChannel
  <2>6. CASE UpdateController \/ LoadThen \/ CalibrateDone
    BY <2>6 DEF UpdateController, Quiet, LoadThen, CalibrateDone
  <2>7. CASE TenSeconds \/ Board \/ Lose \/ UNCHANGED vars
    BY <2>7 DEF TenSeconds, Board, BoardRC, BoardCalibrate, Lose, vars
  <2>8. QED
    BY <2>1, <2>2, <2>3, <2>4, <2>5, <2>6, <2>7 DEF Next, Controller, Updater
<1>3. Typed /\ StaleInv => AtMostOneStaleFrame
  BY DEF StaleInv, AtMostOneStaleFrame, Typed, TypeOK
<1>4. QED
  BY <1>1, <1>2, <1>3, InitTyped, NextTyped, PTL DEF Spec

-----------------------------------------------------------------------------
(* The flight controller implements the sampled arm switch (safety part).  *)

\* The line of the abstract switch, as the refinement mapping draws it.
Line == IF pc["updater"] = "sendCMD" THEN <<snapshot.armed>>
        ELSE [i \in DOMAIN rcWire |-> rcWire[i].armed]

\* While the frame is being composed the serial line is empty; otherwise it
\* holds a frame exactly when no reply is on its way.
LEMMA LineShape ==
  ASSUME Typed, OneRCFrame
  PROVE  /\ Composing = 1 => rcWire = <<>> /\ rcReplies = 0
         /\ rcWire = <<>> \/ Len(rcWire) = 1
         /\ rcReplies > 0 => rcWire = <<>>
<1>1. rcWire \in Seq(Frames) /\ Len(rcWire) \in Nat /\ rcReplies \in Nat
  BY DEF Typed, TypeOK
<1>2. Len(rcWire) = 0 => rcWire = <<>>
  BY <1>1
<1>3. Composing \in {0, 1}
  BY DEF Composing
<1>4. Len(rcWire) + rcReplies + Composing = 1
  BY DEF OneRCFrame
<1>5. Composing = 1 \/ rcReplies > 0 => Len(rcWire) = 0
  BY <1>1, <1>3, <1>4
<1>6. Composing = 1 => rcReplies = 0
  BY <1>1, <1>3, <1>4
<1>7. Len(rcWire) = 0 \/ Len(rcWire) = 1
  <2>1. ASSUME NEW a \in Nat, NEW b \in Nat, NEW c \in {0, 1}, a + b + c = 1
        PROVE  a = 0 \/ a = 1
    BY <2>1
  <2>2. QED
    BY <1>1, <1>3, <1>4, <2>1
<1>8. QED
  BY <1>2, <1>5, <1>6, <1>7

\* A frame on the line is one sample; an empty line is none.
LEMMA LineSample ==
  ASSUME pc["updater"] # "sendCMD"
  PROVE  /\ rcWire = <<>> => Line = <<>>
         /\ rcWire \in Seq(Frames) /\ Len(rcWire) = 1
               => Line = <<rcWire[1].armed>>
  BY DEF Line

\* Every step of the controller is a step of the switch, or leaves it alone.
THEOREM SwitchRefinement == ASSUME ~Lossy PROVE Spec => Switch!Spec
<1> USE DEF Line
<1>1. Init => Switch!Init
  <2> SUFFICES ASSUME Init PROVE Switch!Init
    OBVIOUS
  <2>1. pc["updater"] # "sendCMD" /\ rcWire = <<NoFrame>>
    BY DEF Init, Start, Threads, Home
  <2>2. Line = <<FALSE>>
    <3>1. NoFrame \in Frames
      BY DEF NoFrame, Frames, Idle, Levels
    <3>2. Line = <<rcWire[1].armed>>
      BY <2>1, <3>1, LineSample
    <3>3. QED
      BY <2>1, <3>2 DEF NoFrame
  <2>3. QED
    BY <2>2 DEF Init, Switch!Init, NoFrame
<1>2. Typed /\ OneRCFrame /\ Typed' /\ OneRCFrame' /\ [Next]_vars
         => [Switch!Next]_(Switch!vars)
  <2> SUFFICES ASSUME Typed, OneRCFrame, Typed', OneRCFrame', [Next]_vars
               PROVE  [Switch!Next]_(Switch!vars)
    OBVIOUS
  <2>1. ASSUME NEW t \in Threads, Step(t) PROVE Switch!Flip
    <3>1. Line' = Line
      BY <2>1, StepWires
    <3>2. armed' \in BOOLEAN /\ board' = board
      BY <2>1 DEF Step, GetMode, StoreArmed, StoreChannel, StampMode,
                  StoreMode, SendCalibrate, wires, Typed, TypeOK
    <3>3. QED
      BY <3>1, <3>2 DEF Switch!Flip
  <2>2. CASE LoadArmed
    <3>1. rcWire = <<>> /\ Line = <<>>
      BY <2>2, LineShape, LineSample DEF LoadArmed, SwitchSample, Composing
    <3>2. Line' = <<armed>>
      BY <2>2 DEF LoadArmed, SwitchSample, Typed, TypeOK, Threads, Frames
    <3>3. QED
      BY <2>2, <3>1, <3>2
      DEF LoadArmed, SwitchSample, Switch!Next, Switch!Sample, shared, wires
  <2>3. CASE SendRC
    <3>1. rcWire = <<>> /\ rcWire' = <<snapshot>>
      BY <2>3, LineShape DEF SendRC, Composing
    <3>2. Line = <<snapshot.armed>>
      BY <2>3 DEF SendRC
    <3>3. pc'["updater"] = "recv"
      BY <2>3 DEF SendRC, Typed, TypeOK, Threads
    <3>4. Line' = <<snapshot.armed>>
      BY <3>1, <3>3
    <3>5. QED
      BY <2>3, <3>2, <3>4 DEF SendRC, Switch!vars, shared
  <2>4. CASE BoardRC
    <3>1. pc["updater"] # "sendCMD" /\ Len(rcWire) = 1 /\ rcWire' = <<>>
      BY <2>4, LineShape DEF BoardRC, Composing, Typed, TypeOK
    <3>2. Line = <<rcWire[1].armed>> /\ Line' = <<>>
      BY <2>4, <3>1, LineSample DEF BoardRC, locals, Typed, TypeOK
    <3>3. QED
      BY <2>4, <3>1, <3>2 DEF BoardRC, Switch!Next, Switch!Deliver, shared
  <2>5. CASE RecvRC \/ RecvCalibration \/ LoadChannel
    BY <2>5 DEF RecvRC, RecvCalibration, LoadChannel, Switch!vars, shared,
                wires, Typed, TypeOK, Threads
  <2>6. CASE UpdateController \/ LoadThen \/ CalibrateDone
    BY <2>6 DEF UpdateController, Quiet, LoadThen, CalibrateDone, Switch!vars,
                shared, wires, Typed, TypeOK, Threads
  <2>7. CASE TenSeconds \/ BoardCalibrate \/ Lose \/ UNCHANGED vars
    BY <2>7 DEF TenSeconds, BoardCalibrate, Lose, vars, Switch!vars, shared,
                wires, locals
  <2>8. ASSUME NEW o \in Commands, Call(o) PROVE UNCHANGED Switch!vars
    BY <2>8 DEF Call, Switch!vars, shared, wires, Typed, TypeOK, Threads
  <2>9. QED
    BY <2>1, <2>2, <2>3, <2>4, <2>5, <2>6, <2>7, <2>8
       DEF Next, Controller, Updater, Board, Switch!Next, Threads
<1>3. QED
  BY <1>1, <1>2, TypeCorrect, RCFrameConserved, InitTyped, NextTyped, PTL
     DEF Spec, Switch!Spec, Typed
=============================================================================
