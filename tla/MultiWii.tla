------------------------------ MODULE MultiWii ------------------------------
(***************************************************************************)
(* The serial line to the MultiWii board, byte by byte: MultiWii::sendCMD  *)
(* and recv (wire/MultiWii.cpp) over Serial::read and writeFull            *)
(* (wire/Serial.cpp), and the conversation that Skyline::update keeps on   *)
(* it (hardware/Skyline.cpp).  FlightController has whole frames where     *)
(* this module has bytes.                                                  *)
(*                                                                         *)
(* A frame is a preamble, the number of data bytes, the command, the data  *)
(* and the xor of all but the preamble.  Every sendCMD fills the one       *)
(* buffer m_send and writes it out; the updater sends, and in the class,   *)
(* though not from do_recv, so does the controller (sendCalibrate).        *)
(***************************************************************************)
EXTENDS Integers, SequencesExt, FiniteSetsExt

CONSTANTS
    Preamble,          \* "$M<"; any sequence that is not empty
    Code,              \* the number of a command: MSP_SET_RAW_RC ...
    Data,              \* the data a request carries, by command
    Answers,           \* the data the board may answer, by command
    LineSize,          \* bytes the line to the board holds
    ReadSize,          \* bytes the kernel keeps for read(2); 4096
    ResponsesPerUpdate,   \* 4 in the code
    MaxAnalog,         \* bound: battery requests in circulation
    MaxCalibrations    \* bound: calls of sendCalibrate

Commands == DOMAIN Code
Threads == {"updater", "controller"}
Octets == 0 .. 255
FrameSpace == 256   \* of m_send and of m_recv

\* Where recv learns the length, and the length of the whole frame.
LengthAt == Len(Preamble) + 1
FrameLen(n) == LengthAt + n + 2

LineKnown ==
    /\ Preamble \in Seq(Octets) /\ Preamble # <<>>
    /\ Code \in [{"RC", "IMU", "ANALOG", "CALIBRATION"} -> Octets]
    /\ IsInjective(Code)
    /\ \A c \in Commands : \A d \in Data[c] \cup Answers[c] :
           d \in Seq(Octets) /\ FrameLen(Len(d)) <= FrameSpace
    /\ <<>> \in Data["CALIBRATION"]
ASSUME LineAssumption == LineKnown

VARIABLES
    send,         \* m_send behind the preamble
    work,         \* per thread: the sendCMD it is in, and where
    todo,         \* the requests the updater makes next
    left,         \* responses that this call of update may still handle
    toBoard, fromBoard,     \* the line
    answer,       \* what the board has still to write
    recv,         \* m_recv up to m_idx
    observed,     \* what update stored in Observations, by command
    calibrations, \* calls of sendCalibrate
    asked, answered,   \* history: the frames on their way, oldest first
    overlapped    \* history: two threads were in sendCMD at once

sending == <<send, work, asked, overlapped>>
receiving == <<recv, observed, answered>>
lineVars == <<sending, todo, left, toBoard, fromBoard, answer, receiving,
          calibrations>>

-----------------------------------------------------------------------------
\* The xor of the bytes: one bit of it is 1 if an odd number of theirs are.
Bit(byte, k) == (byte \div 2 ^ k) % 2
Checksum(bytes) ==
    MapThenSumSet(
        LAMBDA k : 2 ^ k * (Quantify(DOMAIN bytes,
                                     LAMBDA i : Bit(bytes[i], k) = 1) % 2),
        0 .. 7)

\* The bytes of every frame there is.
Frames ==
    UNION {[cmd : {c}, data : Data[c] \cup Answers[c]] : c \in Commands}
FrameBytes ==
    [f \in Frames |->
        LET body == <<Len(f.data), Code[f.cmd]>> \o f.data
        IN  Preamble \o body \o <<Checksum(body)>>]

Idle == [at |-> "idle", frame |-> [cmd |-> "RC", data |-> <<>>], written |-> 0]
Begin(frame) == [at |-> "header", frame |-> frame, written |-> 0]
Sends(t) == work[t].at # "idle"

\* Skyline::start makes one request of each kind.
LineInit ==
    /\ send = <<>> /\ work = [t \in Threads |-> Idle]
    /\ todo = <<"RC", "IMU", "ANALOG">> /\ left = 0
    /\ toBoard = <<>> /\ fromBoard = <<>> /\ answer = <<>> /\ recv = <<>>
    /\ observed = [c \in {} |-> <<>>] /\ calibrations = 0
    /\ asked = <<>> /\ answered = <<>> /\ overlapped = FALSE

-----------------------------------------------------------------------------
(* MultiWii::sendCMD.                                                      *)

Send(t, frame) ==
    /\ ~Sends(t)
    /\ work' = [work EXCEPT ![t] = Begin(frame)]
    /\ overlapped' = \E u \in Threads : Sends(u)
    /\ asked' = Append(asked, frame)
    /\ UNCHANGED send

\* The buffer with the bytes from place k on replaced.
Put(k, bytes) ==
    [i \in 1 .. Max({Len(send), k + Len(bytes) - 1}) |->
        IF i >= k /\ i < k + Len(bytes) THEN bytes[i - k + 1]
        ELSE IF i <= Len(send) THEN send[i] ELSE 0]

\* The stores of sendCMD into the buffer: header, data, checksum.
SumPlace(t) == Len(work[t].frame.data) + 3
SummedTooLittle(t) == SubSeq(send, 2, SumPlace(t) - 1)
Summed(t) == SubSeq(send, 1, SumPlace(t) - 1)
FillBuffer(t) ==
    LET frame == work[t].frame
        Store(at, k, bytes, then) ==
            /\ work[t].at = at
            /\ send' = Put(k, bytes)
            /\ work' = [work EXCEPT ![t].at = then]
    IN  /\ \/ Store("header", 1, <<Len(frame.data), Code[frame.cmd]>>, "data")
           \/ Store("data", 3, frame.data, "sum")
           \/ Store("sum", SumPlace(t), <<Checksum(Summed(t))>>, "write")
        /\ UNCHANGED <<asked, overlapped, todo, left, toBoard, fromBoard,
                       answer, receiving, calibrations>>

\* Serial::writeFull: a write takes some of the bytes, from the buffer as it
\* is by now, and blocks while the line is full.
WriteFull(t) ==
    LET total == FrameLen(Len(work[t].frame.data))
        bytes == Preamble \o send
    IN  /\ work[t].at = "write"
        /\ \E n \in 1 .. total - work[t].written :
              LET written == work[t].written + n IN
              /\ Len(toBoard) + n <= LineSize
              /\ toBoard' = toBoard \o
                            SubSeq(bytes, work[t].written + 1, written)
              /\ work' = [work EXCEPT ![t] = IF written = total THEN Idle
                                  ELSE [@ EXCEPT !.written = written]]
        /\ UNCHANGED <<send, asked, overlapped, todo, left, fromBoard,
                       answer, receiving, calibrations>>

-----------------------------------------------------------------------------
(* Skyline, in the updater: start and update.                              *)

\* It makes the request that is next.
Request ==
    /\ todo # <<>>
    /\ \E d \in Data[todo[1]] :
          Send("updater", [cmd |-> todo[1], data |-> d])
    /\ todo' = Tail(todo)
    /\ UNCHANGED <<left, toBoard, fromBoard, answer, receiving, calibrations>>

\* The frames of a command that are on their way, and those about to be.
InCirculation(c) ==
    Quantify(DOMAIN todo, LAMBDA i : todo[i] = c) +
    Quantify(DOMAIN asked, LAMBDA i : asked[i].cmd = c) +
    Quantify(DOMAIN answered, LAMBDA i : answered[i].cmd = c)

\* update begins.  Three seconds after the last time it asks for the battery.
\* (InCirculation only bounds how slow the board may be.)
Update ==
    /\ todo = <<>> /\ left = 0 /\ ~Sends("updater")
    /\ left' = ResponsesPerUpdate
    /\ \/ UNCHANGED todo
       \/ InCirculation("ANALOG") < MaxAnalog /\ todo' = <<"ANALOG">>
    /\ UNCHANGED <<sending, toBoard, fromBoard, answer, receiving,
                   calibrations>>

Receives == left > 0 /\ todo = <<>> /\ ~Sends("updater")

\* read(2): what is there, at most n bytes.
Got(n) == SubSeq(fromBoard, 1, Min({n, Len(fromBoard)}))
Rest(n) == SubSeq(fromBoard, Len(Got(n)) + 1, Len(fromBoard))

\* recv reads up to the length; without it, it returns false, and so does
\* update, which starts again later.
HeaderWanted == LengthAt - Len(recv)
ReadHeader ==
    /\ Receives /\ Len(recv) < LengthAt
    /\ recv' = recv \o Got(HeaderWanted)
    /\ fromBoard' = Rest(HeaderWanted)
    /\ left' = IF Len(recv') < LengthAt THEN 0 ELSE left
    /\ UNCHANGED <<sending, todo, toBoard, answer, observed, answered,
                   calibrations>>

\* What update does with a response: RC and IMU are asked for again.
AskAgainForIMU(c) == IF c = "IMU" THEN <<c>> ELSE <<>>
AskAgain(c) == IF c \in {"RC", "IMU"} THEN <<c>> ELSE <<>>
Dispatch(code, data) ==
    LET c == CHOOSE k \in Commands : Code[k] = code IN
    IF code \notin {Code[k] : k \in Commands}
    THEN UNCHANGED <<todo, observed>>   \* "unexpected m_type"
    ELSE /\ todo' = AskAgain(c)
         /\ observed' = [k \in DOMAIN observed \cup {c} |->
                             IF k = c THEN data ELSE observed[k]]

\* recv reads the rest of the frame, and hands it over when it is complete.
\* Neither the preamble nor the checksum is looked at.
ResponseLenNoSum(n) == LengthAt + n + 1
ResponseLen(n) == LengthAt + n + 2
RestWanted == ResponseLen(recv[LengthAt]) - Len(recv)
ReadRest ==
    /\ Receives /\ Len(recv) >= LengthAt
    /\ LET have == recv \o Got(RestWanted) IN
       /\ fromBoard' = Rest(RestWanted)
       /\ IF Len(have) # ResponseLen(recv[LengthAt])
          THEN /\ recv' = have /\ left' = 0
               /\ UNCHANGED <<todo, observed, answered>>
          ELSE /\ recv' = <<>> /\ left' = left - 1
               /\ Dispatch(have[LengthAt + 1],
                           SubSeq(have, LengthAt + 2, Len(have) - 1))
               /\ answered' = Tail(answered)
    /\ UNCHANGED <<sending, toBoard, answer, calibrations>>

\* Skyline::sendCalibrate, in the controller thread.
Calibrate ==
    /\ calibrations < MaxCalibrations
    /\ calibrations' = calibrations + 1
    /\ Send("controller", [cmd |-> "CALIBRATION", data |-> <<>>])
    /\ UNCHANGED <<todo, left, toBoard, fromBoard, answer, receiving>>

-----------------------------------------------------------------------------
(* The board.  Its firmware looks for a preamble, checks the checksum, and *)
(* answers the frames it accepts.                                          *)

\* The frame at the start of the line, when it is complete.
Aligned == IsPrefix(Preamble, toBoard)
Incoming == FrameLen(toBoard[LengthAt])
Complete ==
    Aligned /\ Len(toBoard) >= LengthAt /\ Len(toBoard) >= Incoming
Sound == Checksum(SubSeq(toBoard, LengthAt, Incoming)) = 0
AcceptedCode == toBoard[LengthAt + 1]
Accepts(c) == Complete /\ Sound /\ AcceptedCode = Code[c]

BoardAnswers ==
    /\ Complete /\ Sound /\ answer = <<>>
    /\ toBoard' = SubSeq(toBoard, Incoming + 1, Len(toBoard))
    /\ \E c \in Commands : \E d \in Answers[c] :
          LET frame == [cmd |-> c, data |-> d] IN
          /\ AcceptedCode = Code[c]
          /\ answer' = FrameBytes[frame]
          /\ answered' = Append(answered, frame)
    /\ asked' = Tail(asked)
    /\ UNCHANGED <<send, work, overlapped, todo, left, fromBoard, recv,
                   observed, calibrations>>

BoardWrites ==
    /\ \E n \in 1 .. Len(answer) :
          /\ Len(fromBoard) + n <= ReadSize
          /\ fromBoard' = fromBoard \o SubSeq(answer, 1, n)
          /\ answer' = SubSeq(answer, n + 1, Len(answer))
    /\ UNCHANGED <<sending, todo, left, toBoard, receiving, calibrations>>

-----------------------------------------------------------------------------
SendCMD(t) == FillBuffer(t) \/ WriteFull(t)
Updater == Request \/ Update \/ ReadHeader \/ ReadRest \/ SendCMD("updater")
Controller == Calibrate \/ SendCMD("controller")
Board == BoardAnswers \/ BoardWrites

\* The model ends where two threads are in sendCMD at once: what is in m_send
\* from then on belongs to neither, and nothing is claimed of it.
Overlap == overlapped /\ UNCHANGED lineVars

LineNext == (~overlapped /\ (Updater \/ Controller \/ Board)) \/ Overlap

LineSpec == LineInit /\ [][LineNext]_lineVars

\* The updater loops, a request that was begun is finished, the board works.
LineFairSpec ==
    /\ LineSpec /\ WF_lineVars(Updater) /\ WF_lineVars(SendCMD("controller"))
    /\ WF_lineVars(BoardAnswers) /\ WF_lineVars(BoardWrites)

-----------------------------------------------------------------------------
\* What a thread in sendCMD has still to write.
Unwritten ==
    FlattenSeq([i \in 1 .. Len(asked) |->
        IF \E t \in Threads : Sends(t) /\ i = Len(asked)
        THEN LET t == CHOOSE u \in Threads : Sends(u)
             IN  SubSeq(FrameBytes[asked[i]], work[t].written + 1,
                        Len(FrameBytes[asked[i]]))
        ELSE <<>>])

\* As long as no two threads were in sendCMD at once, the bytes on their way
\* to the board are those of the frames requested, whole, in order, with
\* their checksums: nothing of an earlier frame in m_send is sent again.
SentWhole ==
    ~overlapped =>
        toBoard \o Unwritten =
            FlattenSeq([i \in DOMAIN asked |-> FrameBytes[asked[i]]])

\* However the answers are cut up by read(2), recv keeps its place: what it
\* has, what is on the line and what the board has still to write are the
\* answers not handed over, so each is handed over whole, once, in order.
ReceivedWhole ==
    recv \o fromBoard \o answer =
        FlattenSeq([i \in DOMAIN answered |-> FrameBytes[answered[i]]])

\* The board, whose failsafe waits for it, is sent RC frames for ever: no
\* other request starves them and the line never blocks both sides.
RCFlows == []<>(Accepts("RC") \/ overlapped)
=============================================================================
