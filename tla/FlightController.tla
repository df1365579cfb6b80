-------------------------- MODULE FlightController --------------------------
(***************************************************************************)
(* The flight controller of cdrone (controller/FlightController.cpp) with  *)
(* the RC half of the Skyline driver below it (hardware/Skyline.cpp).      *)
(*                                                                         *)
(* Two threads share the object without a lock.  The controller thread     *)
(* (do_recv) calls arm, disarm, takeoff, rawControl, velocityControl,      *)
(* positionControl and calibrate; the updater thread (do_update) runs      *)
(*     while (!shutdown) { updateRC(); updateController(); }               *)
(* A step is one access to a shared atomic, so every interleaving of the   *)
(* two threads is a behaviour.  The board (a MultiWii behind a serial      *)
(* line) is external: it answers every RC frame with one reply, and the    *)
(* driver sends the next RC frame only on such a reply.                    *)
(*                                                                         *)
(* Abstracted: the value of a channel is only "idle" (what setIdle writes) *)
(* or "flight" (anything else); setpoints and PID outputs are inputs.      *)
(***************************************************************************)
EXTENDS FlightOperations, Integers, Sequences

CONSTANTS
    Commands,         \* the operations the controller thread calls
    Channels,         \* number of RC channels of setRC; 4 in the code
    MaxReplies,       \* replies one Skyline::update handles; 4 in the code
    MaxCalibrations,  \* bound on calibration requests outstanding at once
    Lossy             \* may the serial line lose a frame?

ASSUME CommandsAssumption == Commands \subseteq Operations
ASSUME ChannelsAssumption == Channels \in Nat \ {0}
ASSUME MaxRepliesAssumption == MaxReplies \in Nat \ {0}
ASSUME MaxCalibrationsAssumption == MaxCalibrations \in Nat
ASSUME LossyAssumption == Lossy \in BOOLEAN

Threads == {"controller", "updater"}
Channel == 1 .. Channels
Levels == {"idle", "flight"}
Idle == [c \in Channel |-> "idle"]

\* What MSP_SET_RAW_RC carries: the channels, and aux1 as the arm switch.
Frames == [rc : [Channel -> Levels], armed : BOOLEAN]
NoFrame == [rc |-> Idle, armed |-> FALSE]

VARIABLES
    mode,             \* m_mode
    armed,            \* Skyline::m_armed
    rc,               \* Skyline::m_roll, m_pitch, m_yaw, m_throttle
    calibrateFlag,    \* Skyline::m_calibrateFlag
    overdue,          \* is m_lastModeChange more than ten seconds old?
    pc,               \* pc[t]: the access thread t makes next
    op,               \* op[t]: the operation t runs, or ran last
    stores,           \* stores[t]: does t's operation go on to setMode?
    ch,               \* ch[t]: the channel t accesses next
    late,             \* the updater's now - then > 10 s
    snapshot,         \* the rc frame sendRC is filling in
    left,             \* replies this Skyline::update may still handle
    rcWire,           \* RC frames on their way to the board
    rcReplies,        \* MSP_SET_RAW_RC replies on their way back
    calRequests,      \* MSP_ACC_CALIBRATION requests on their way
    calReplies,       \* and their replies
    board,            \* the last RC frame the board received
    staleFrames       \* history: armed frames written since m_armed cleared

shared == <<mode, armed, rc, calibrateFlag, overdue>>
locals == <<pc, op, stores, ch, late, snapshot, left>>
wires == <<rcWire, rcReplies, calRequests, calReplies, board>>
vars == <<shared, locals, wires, staleFrames>>

-----------------------------------------------------------------------------
\* The access that follows an operation's load of m_mode.
AfterLoad == [arm             |-> "storeArmed",
              disarm          |-> "storeArmed",
              takeoff         |-> "stamp",
              rawControl      |-> "stamp",
              velocityControl |-> "stamp",
              positionControl |-> "stamp",
              calibrate       |-> "sendCalibrate"]

\* Where a thread is between two operations.
Home(t) == IF t = "controller" THEN "ready" ELSE "recv"

InOp(t, o) == pc[t] # Home(t) /\ op[t] = o

\* Skyline::start sends one RC frame, which starts the call and response.
StartTwice == <<NoFrame, NoFrame>>
Start == <<NoFrame>>

Init ==
    /\ mode = "Disarmed" /\ armed = FALSE /\ rc = Idle
    /\ calibrateFlag = FALSE /\ overdue = FALSE
    /\ pc = [t \in Threads |-> Home(t)]
    /\ op = [t \in Threads |-> "disarm"]
    /\ stores = [t \in Threads |-> FALSE]
    /\ ch = [t \in Threads |-> 1]
    /\ late = FALSE
    /\ snapshot = NoFrame
    /\ left = MaxReplies
    /\ rcWire = Start
    /\ rcReplies = 0 /\ calRequests = 0 /\ calReplies = 0
    /\ board = NoFrame
    /\ staleFrames = 0

-----------------------------------------------------------------------------
(* The accesses an operation makes, in either thread.                      *)

\* getMode() at the head of an operation, and its early return.  A disarm in
\* a disarmed mode still runs setDisarm, but stores no mode.
GetMode(t) ==
    /\ pc[t] = "getMode"
    /\ stores' = [stores EXCEPT ![t] =
                     mode \in From[op[t]]
                        /\ (op[t] = "disarm" => mode # "Disarmed")]
    /\ pc' = [pc EXCEPT ![t] = IF mode \in From[op[t]] THEN AfterLoad[op[t]]
                                                      ELSE Home(t)]
    /\ UNCHANGED <<shared, op, ch, late, snapshot, left, wires,
                   staleFrames>>

\* What setArm and setDisarm store to m_armed.
SwitchOfNoClear(o) == TRUE
SwitchOf(o) == o = "arm"

\* That store.
StoreArmed(t) ==
    /\ pc[t] = "storeArmed"
    /\ armed' = SwitchOf(op[t])
    /\ staleFrames' = IF armed' = armed THEN staleFrames ELSE 0
    /\ pc' = [pc EXCEPT ![t] = "setRC"]
    /\ ch' = [ch EXCEPT ![t] = 1]
    /\ UNCHANGED <<mode, rc, calibrateFlag, overdue, op, stores, late,
                   snapshot, left, wires>>

\* What follows the setRC call of an operation: arm and a disarm that must
\* change the mode go on to setMode, the others return.
AfterSetRC(t) ==
    IF \/ op[t] = "arm" /\ pc[t] = "setRC"
       \/ op[t] = "disarm" /\ stores[t]
    THEN "stamp" ELSE Home(t)

\* The last channel of a frame, the throttle.
LastChannel == Channels

\* One of the channel stores of setRC ("settle": the setIdle that ends arm).
\* The updater's arguments, setpoints or PID outputs, are inputs.
StoreChannel(t) ==
    /\ pc[t] \in {"setRC", "settle"}
    /\ \E level \in IF op[t] = "setRC" THEN Levels ELSE {"idle"} :
          rc' = [rc EXCEPT ![ch[t]] = level]
    /\ \/ /\ ch[t] < LastChannel
          /\ ch' = [ch EXCEPT ![t] = @ + 1]
          /\ UNCHANGED pc
       \/ /\ ch[t] = LastChannel
          /\ ch' = [ch EXCEPT ![t] = 1]
          /\ pc' = [pc EXCEPT ![t] = AfterSetRC(t)]
    /\ UNCHANGED <<mode, armed, calibrateFlag, overdue, op, stores,
                   late, snapshot, left, wires, staleFrames>>

\* setMode: m_lastModeChange first ...
StampMode(t) ==
    /\ pc[t] = "stamp"
    /\ overdue' = FALSE
    /\ pc' = [pc EXCEPT ![t] = "storeMode"]
    /\ UNCHANGED <<mode, armed, rc, calibrateFlag, op, stores, ch,
                   late, snapshot, left, wires, staleFrames>>

\* ... then m_mode.
StoreMode(t) ==
    /\ pc[t] = "storeMode"
    /\ mode' = Target[op[t]]
    /\ pc' = [pc EXCEPT ![t] = IF op[t] = "arm" THEN "settle" ELSE Home(t)]
    /\ ch' = [ch EXCEPT ![t] = 1]
    /\ UNCHANGED <<armed, rc, calibrateFlag, overdue, op, stores,
                   late, snapshot, left, wires, staleFrames>>

\* Skyline::sendCalibrate: the flag, and the request on the serial line.
SendCalibrate(t) ==
    /\ pc[t] = "sendCalibrate"
    /\ calibrateFlag' = TRUE
    /\ calRequests' = calRequests + 1
    /\ pc' = [pc EXCEPT ![t] = "stamp"]
    /\ UNCHANGED <<mode, armed, rc, overdue, op, stores, ch, late,
                   snapshot, left, rcWire, rcReplies, calReplies, board,
                   staleFrames>>

-----------------------------------------------------------------------------
(* The controller thread starts an operation.                              *)

Call(o) ==
    /\ pc["controller"] = "ready"
    /\ o = "calibrate" => calRequests + calReplies < MaxCalibrations
    /\ op' = [op EXCEPT !["controller"] = o]
    /\ pc' = [pc EXCEPT !["controller"] = "getMode"]
    /\ UNCHANGED <<shared, stores, ch, late, snapshot, left, wires,
                   staleFrames>>

-----------------------------------------------------------------------------
(* The updater thread: updateRC, that is Skyline::update ...               *)

\* m_multiwii.recv returned an MSP_SET_RAW_RC reply: sendRC starts.
RecvRC ==
    /\ pc["updater"] = "recv" /\ left > 0 /\ rcReplies > 0
    /\ rcReplies' = rcReplies - 1
    /\ left' = left - 1
    /\ pc' = [pc EXCEPT !["updater"] = "loadRC"]
    /\ ch' = [ch EXCEPT !["updater"] = 1]
    /\ UNCHANGED <<shared, op, stores, late, snapshot, rcWire,
                   calRequests, calReplies, board, staleFrames>>

\* It returned the reply to a calibration request.
RecvCalibration ==
    /\ pc["updater"] = "recv" /\ left > 0 /\ calReplies > 0
    /\ calReplies' = calReplies - 1
    /\ left' = left - 1
    /\ calibrateFlag' = FALSE
    /\ UNCHANGED <<mode, armed, rc, overdue, pc, op, stores, ch, late,
                   snapshot, rcWire, rcReplies, calRequests, board,
                   staleFrames>>

\* sendRC: the loads of the channels in order ...
LoadChannel ==
    LET c == ch["updater"] IN
    /\ pc["updater"] = "loadRC"
    /\ snapshot' = [snapshot EXCEPT !.rc[c] = rc[c]]
    /\ \/ /\ c < LastChannel
          /\ ch' = [ch EXCEPT !["updater"] = @ + 1]
          /\ UNCHANGED pc
       \/ /\ c = LastChannel
          /\ ch' = [ch EXCEPT !["updater"] = 1]
          /\ pc' = [pc EXCEPT !["updater"] = "loadArmed"]
    /\ UNCHANGED <<shared, op, stores, late, left, wires, staleFrames>>

\* ... of m_armed, for aux1 ...
SwitchSampleSticky == armed \/ board.armed
SwitchSample == armed

LoadArmedSkips ==
    /\ pc["updater"] = "loadArmed"
    /\ snapshot' = [snapshot EXCEPT !.armed = SwitchSample]
    /\ pc' = [pc EXCEPT !["updater"] = IF armed THEN "sendCMD" ELSE "recv"]
    /\ UNCHANGED <<shared, op, stores, ch, late, left, wires,
                   staleFrames>>

LoadArmed ==
    /\ pc["updater"] = "loadArmed"
    /\ snapshot' = [snapshot EXCEPT !.armed = SwitchSample]
    /\ pc' = [pc EXCEPT !["updater"] = "sendCMD"]
    /\ UNCHANGED <<shared, op, stores, ch, late, left, wires,
                   staleFrames>>

\* ... and the write of the frame to the serial line.
SendRC ==
    /\ pc["updater"] = "sendCMD"
    /\ rcWire' = Append(rcWire, snapshot)
    /\ staleFrames' = IF snapshot.armed /\ ~armed THEN staleFrames + 1
                                                  ELSE staleFrames
    /\ snapshot' = NoFrame   \* rc goes out of scope
    /\ pc' = [pc EXCEPT !["updater"] = "recv"]
    /\ UNCHANGED <<shared, op, stores, ch, late, left, rcReplies,
                   calRequests, calReplies, board>>

-----------------------------------------------------------------------------
(* ... and then updateController.                                          *)

\* The modes whose case does nothing.
Quiet == {"Disarmed", "Armed"}

\* Skyline::update returns (no reply is complete, or MaxReplies were
\* handled) and updateController loads the mode and branches on it.
UpdateController ==
    /\ pc["updater"] = "recv"
    /\ left = 0 \/ rcReplies + calReplies = 0
    /\ left' = MaxReplies
    /\ \/ /\ mode \in Quiet
          /\ UNCHANGED <<pc, op, ch>>
       \/ /\ mode = "Calibrating"
          /\ pc' = [pc EXCEPT !["updater"] = "loadThen"]
          /\ UNCHANGED <<op, ch>>
       \/ /\ mode = "TakeOff"
          /\ op' = [op EXCEPT !["updater"] = "velocityControl"]
          /\ pc' = [pc EXCEPT !["updater"] = "getMode"]
          /\ UNCHANGED <<ch>>
       \/ /\ mode \in FlightModes
          /\ op' = [op EXCEPT !["updater"] = "setRC"]
          /\ pc' = [pc EXCEPT !["updater"] = "setRC"]
          /\ ch' = [ch EXCEPT !["updater"] = 1]
    /\ UNCHANGED <<shared, stores, late, snapshot, wires, staleFrames>>

\* case Calibrating: then = m_lastModeChange, compared with now.
LoadThen ==
    /\ pc["updater"] = "loadThen"
    /\ late' = overdue
    /\ pc' = [pc EXCEPT !["updater"] = "calibrateDone"]
    /\ UNCHANGED <<shared, op, stores, ch, snapshot, left, wires,
                   staleFrames>>

\* The board has answered, or ten seconds have gone by.
CalibrationOverNoTimeout == ~calibrateFlag
CalibrationOver == ~calibrateFlag \/ late

\* Then disarm().
CalibrateDone ==
    /\ pc["updater"] = "calibrateDone"
    /\ \/ /\ CalibrationOver
          /\ op' = [op EXCEPT !["updater"] = "disarm"]
          /\ pc' = [pc EXCEPT !["updater"] = "getMode"]
       \/ /\ ~CalibrationOver
          /\ pc' = [pc EXCEPT !["updater"] = "recv"]
          /\ UNCHANGED op
    /\ UNCHANGED <<shared, stores, ch, late, snapshot, left, wires,
                   staleFrames>>

-----------------------------------------------------------------------------
(* The environment: time, the serial line and the board.                   *)

\* More than ten seconds pass in one mode.  Only the Calibrating branch looks.
TenSeconds ==
    /\ mode = "Calibrating" /\ ~overdue
    /\ overdue' = TRUE
    /\ UNCHANGED <<mode, armed, rc, calibrateFlag, locals, wires, staleFrames>>

\* The board takes an RC frame over and answers it.
BoardRC ==
    /\ rcWire # <<>>
    /\ board' = Head(rcWire)
    /\ rcWire' = Tail(rcWire)
    /\ rcReplies' = rcReplies + 1
    /\ UNCHANGED <<shared, locals, calRequests, calReplies, staleFrames>>

BoardCalibrate ==
    /\ calRequests > 0
    /\ calRequests' = calRequests - 1
    /\ calReplies' = calReplies + 1
    /\ UNCHANGED <<shared, locals, rcWire, rcReplies, board, staleFrames>>

\* A frame, or the reply to one, is corrupted on the line and dropped.
Lose ==
    /\ Lossy
    /\ \/ /\ rcWire # <<>> /\ rcWire' = Tail(rcWire)
          /\ UNCHANGED <<rcReplies, calRequests, calReplies>>
       \/ /\ rcReplies > 0 /\ rcReplies' = rcReplies - 1
          /\ UNCHANGED <<rcWire, calRequests, calReplies>>
       \/ /\ calRequests > 0 /\ calRequests' = calRequests - 1
          /\ UNCHANGED <<rcWire, rcReplies, calReplies>>
       \/ /\ calReplies > 0 /\ calReplies' = calReplies - 1
          /\ UNCHANGED <<rcWire, rcReplies, calRequests>>
    /\ UNCHANGED <<shared, locals, board, staleFrames>>

-----------------------------------------------------------------------------
\* A step inside an operation, whichever thread runs it.
Step(t) ==
    GetMode(t) \/ StoreArmed(t) \/ StoreChannel(t) \/ StampMode(t)
    \/ StoreMode(t) \/ SendCalibrate(t)

Updater ==
    \/ RecvRC \/ RecvCalibration \/ LoadChannel \/ LoadArmed \/ SendRC
    \/ UpdateController \/ LoadThen \/ CalibrateDone
    \/ Step("updater")

Controller == (\E o \in Commands : Call(o)) \/ Step("controller")

Board == BoardRC \/ BoardCalibrate

Next == Controller \/ Updater \/ TenSeconds \/ Board \/ Lose

Spec == Init /\ [][Next]_vars

(* Fairness.  do_update loops without blocking, so the updater thread keeps *)
(* taking steps; an operation the controller thread has begun never blocks, *)
(* but it need not begin another; time passes; the board answers.           *)
Fairness ==
    /\ WF_vars(Updater)
    /\ WF_vars(Step("controller"))
    /\ WF_vars(TenSeconds)
    /\ WF_vars(BoardRC)
    /\ WF_vars(BoardCalibrate)

FairSpec == Spec /\ Fairness

-----------------------------------------------------------------------------
(* Properties.                                                             *)

PCs == {"ready", "recv", "getMode", "storeArmed", "setRC", "stamp",
        "storeMode", "settle", "sendCalibrate", "loadRC", "loadArmed",
        "sendCMD", "loadThen", "calibrateDone"}

\* Every variable has its type; in particular m_mode only ever holds a mode
\* that updateController handles, so its "got into a bad mode" is never thrown.
TypeOK ==
    /\ mode \in Modes
    /\ armed \in BOOLEAN
    /\ rc \in [Channel -> Levels]
    /\ calibrateFlag \in BOOLEAN
    /\ overdue \in BOOLEAN
    /\ pc \in [Threads -> PCs]
    /\ op \in [Threads -> Operations \cup {"setRC"}]
    /\ stores \in [Threads -> BOOLEAN]
    /\ ch \in [Threads -> Channel]
    /\ late \in BOOLEAN
    /\ snapshot \in Frames
    /\ left \in 0 .. MaxReplies
    /\ rcWire \in Seq(Frames)
    /\ rcReplies \in Nat
    /\ calRequests \in Nat
    /\ calReplies \in Nat
    /\ board \in Frames
    /\ staleFrames \in Nat

\* While m_mode is Disarmed the arm switch is off, except inside arm() itself,
\* which turns it on before it stores Armed; and while it is Armed or TakeOff
\* the switch is on, except inside disarm(): no store of the updater can leave
\* the drone in an armed mode with the switch off (FlightController::arm,
\* disarm, updateController).
DisarmedMeansUnarmed ==
    mode = "Disarmed" /\ ~InOp("controller", "arm") => ~armed
ArmedModesAreArmed ==
    mode \in {"Armed", "TakeOff"} /\ ~InOp("controller", "disarm") => armed
ModeMatchesSwitch == DisarmedMeansUnarmed /\ ArmedModesAreArmed

\* The RC frame the updater is composing, if any.
Composing == IF pc["updater"] \in {"loadRC", "loadArmed", "sendCMD"}
             THEN 1 ELSE 0

\* The call and response of Skyline::start and Skyline::update keeps exactly
\* one RC frame going round: composed, on the line, or as the board's reply.
OneRCFrame == Len(rcWire) + rcReplies + Composing = 1

\* On a lossy line there is never more than one.
AtMostOneRCFrame == Len(rcWire) + rcReplies + Composing <= 1

\* After setDisarm has cleared m_armed, at most one frame that still says
\* armed is written: the one whose load of m_armed came before the store.
AtMostOneStaleFrame == staleFrames <= 1

\* A drone whose switch stays off is off at the board for good: disarm does
\* not write a frame, it relies on the updater and on the call and response.
DisarmReachesBoard == <>[](~armed) => <>[](~board.armed)

\* When the controller stops asking for calibrations the mode leaves
\* Calibrating for good, by the board's answer or by the ten-second timeout.
CalibrationEnds ==
    <>[](~InOp("controller", "calibrate")) => <>[](mode # "Calibrating")

\* What the board is promised: a switch it samples through a one-place line.
Switch == INSTANCE ArmSwitch WITH
    switch <- armed,
    line <- IF pc["updater"] = "sendCMD" THEN <<snapshot.armed>>
            ELSE [i \in DOMAIN rcWire |-> rcWire[i].armed],
    seen <- board.armed

\* The flight controller implements the sampled arm switch.
ImplementsArmSwitch == Switch!FairSpec

(* What comments of the code say, and the code does not keep.              *)

\* FlightController.h says disarm() is available in any state; so once it has
\* returned, and nothing else was called, the mode is Disarmed.
DisarmSticks ==
    pc["controller"] = "ready" /\ op["controller"] = "disarm"
        => mode = "Disarmed"
=============================================================================
