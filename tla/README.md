# cdrone in TLA+

Specifications of [cdrone](../src/README.md), a small quadcopter: a C++ program
that runs on the drone (`src/cdrone`), a Go library and shell for the base
station (`src/gobase`) and Python scripts that plot the logs (`src/data`). The
modules are translated from the source; TLC checks them on small instances and
TLAPS proves the most important invariants for every value of the constants.

1. [The system](#1-the-system) – inventory
2. [The modules](#2-the-modules) – what models what
3. [The runs](#3-the-runs) – what is checked, with which bounds
4. [Fairness](#4-fairness)
5. [What the code does not keep](#5-what-the-code-does-not-keep)
6. [The proofs](#6-the-proofs)
7. [What is not modelled](#7-what-is-not-modelled)
8. [Plan](#8-plan)

## 1. The system

`main` (main.cpp) installs a SIGINT handler that sets `global::shutdown`,
ignores SIGPIPE and runs `cdrone` (program/cdrone.cpp). That builds the hardware
objects and starts four threads:

| thread | loop | shares with the others |
|---|---|---|
| updater, `do_update` | `updateRC(); updateController();` until shutdown | `m_mode`, the RC channels and switch, PIDs, watchdog 1 |
| serve, `do_serve` | accept a client, start recv and send, join both | the `IO` object, the io watchdog |
| recv, `do_recv` | receive an update, apply its mode, command and setpoints | `FlightController`, `IO`, camera, setpoints |
| send, `do_send` | write an observation, sleep | `IO::m_connected`, observations |

with, below them, the check thread of `Watchdog`, the callbacks of MMAL
(`Camera`), and the tracker's thread (`VRPN`). Almost nothing is protected by
a lock: the design (FlightController.h:19-21) is that single atomics suffice
when one thread calls the operations and another one updates.

| component | state | operations | hard behaviour | what makes it correct |
|---|---|---|---|---|
| FlightController | `m_mode`, `m_lastModeChange`, PIDs | `arm`, `disarm`, `takeoff`, `rawControl`, `velocityControl`, `positionControl`, `calibrate`, `updateController` | each operation is a load, a few stores elsewhere and a store; two threads run them | mode and arm switch agree; TakeOff and Calibrating are left; disarm is final |
| Skyline (RC) | `m_armed`, four channels, `m_calibrateFlag`, the MSP conversation | `setArm`, `setDisarm`, `setRC`, `setIdle`, `sendCalibrate`, `update` | RC frames are sent only on the reply to the last one, from several loads | one frame in circulation; a disarm reaches the board; at most one stale armed frame |
| MultiWii, Serial | send and receive buffer, parser position | `sendCMD`, `recv` | partial reads, corrupted bytes, two threads on the send buffer | frames are not torn |
| Watchdog | `m_counts`, `m_maxes`, the check thread's `extra` | `start`, `ok`, `stop`, `destroy`, `check_thread` | late wakes, carries, owner and checker unsynchronised | time is conserved; a hang is noticed in bounded time; who speaks is not killed |
| Sessions (`do_serve`, `do_recv`, `do_send`) | threads, current client, io watchdog | accept, apply an update, leave | a socket may fail under either thread; EOF looks like silence; SIGINT at any time | unarmed without a session; nothing applied twice; a client that is gone is left; shutdown ends |
| IO | buffer, `m_recvLen`, `m_connected` | `sendMessage`, `recvMessage` | partial reads, time-outs, messages of length zero | the messages received are those sent, in order |
| PID | integral, last error, last output, time | `step`, `reset`, `set` | reset and step in two threads | errors of one flight do not survive into the next, but for a reset that meets a step |
| Camera | MMAL components, ports, connections, pools and buffers; the first frame, position sums, reset flag | constructor, `start`, `stop`, destructor, `resetPosition`, two callbacks | callbacks of MMAL run until the ports are disabled; the reset comes in the middle of one | nothing is used after its release; no buffer is lost; a reset that meets no callback under way is not lost |
| Variable logger | buffer, file, number; the map of names | constructor, `log`, `flush`, destructor, archive | partial and failing writes, a kill at any point, loggers that come and go | what is on disk is whole; an archive reads back as what was logged |
| Program (`main`, `cdrone`) | what has been built, the threads, the signal mask | construction, joins, destruction | a failure at any step; SIGINT in any thread | nobody uses what is gone; SIGINT ends the program |
| jsoncpp (the reader), Config | the values being read, the error list | `readValue` and what it calls; `Config::Config` | recovery from errors in nested values, integers at their limit | accepts and gives what its grammar says |
| Observations, VRPN | records of atomics; VRPN's thread | loads and stores, `callback`, `resetIO` | reads and stores of several fields that belong together; the end of the thread | setpoints of before a DISARM die out; nothing is rotated by an older orientation, or measured from an earlier flight's start |
| gobase | three goroutines, one channel, one connection | `New`, the keys, `Close` | `Close` waits for goroutines blocked on the connection; sends on a closed channel | DISCONNECT is sent last; `Close` returns; no panic |
| Infrared, ADS1115, I2C | the converter's configuration and register pointer, the height | constructor, `update`, destructor; `readRegister`, `writeRegister` | a transfer fails, or the process dies, between any two; the converter outlives the process | the height stays in reach; the converter is left as it was found |
| generator, data tools, other test programs | – | – | none, or not in the deployed program | – |

`PROJECT.json` lists all of them under `components`, and under `hazards` each
place in the code where one of the hard behaviours bites, with the properties
that cover it or the reason why none does.

## 2. The modules

```
FlightOperations                modes, and the From / Target tables
  FlightController              controller and updater thread, RC link, board
    -> ArmSwitch                  what the board is promised (abstract)
    FlightControllerProofs
    MCFlightController
  Observations                  VRPN's samples, the estimates made of them
  Control                       setpoints and PID controllers over flights
    Flights                       Control or Observations, of the same threads
      ControlProofs
      MCControl
  Session                       serve, recv, send, updater; clients; SIGINT
    SessionProofs
    MCSession
MultiWii                        the serial line to the board, byte by byte
  MCMultiWii
IO                              the socket's byte stream and recvMessage
  -> Mailbox                      what the connection promises (abstract)
  StreamProofs                    of IO, VariableLogger and MultiWii
  MCIO
Watchdog                        owners, check thread, the clock
  WatchdogProofs
Camera                          resources, buffers, callbacks, the position
  CameraProofs
  MCCamera
VariableLogger                  buffers, files, map, archive and its reader
  MCVariableLogger
Base                            gobase: the keys, three goroutines, Close
  BaseProofs
  MCBase
JsonText                        tokens, numbers and strings of jsoncpp
  Config                        what the constructor of Config takes from them
  JsonReader                    OurReader as a machine, one token a step
    JsonGrammar                   what it reads, as a grammar (abstract)
  Program                       main() and cdrone() (JsonReader and Config)
    Programs                      Program or Infrared, as main() is asked
      ProgramProofs
      MCProgram                     Programs against JsonGrammar
Infrared                        the program "infrared" and its converter
```

The components meet where the code makes them meet, and each module has at its
border what the other one promises: FlightController has whole frames where
MultiWii has bytes; Session has one step for an operation of FlightController
and the socket as IO's promise; Program has one state of the serve thread for a
session and one of the update thread for a flight; Base sends over a link whose
other end is Session's `do_send`.

**FlightOperations** tabulates FlightController.cpp:30-96: from which modes an
operation proceeds and which mode it stores. Four modes of the enumeration,
Disarming, Arming, TouchDown and Hover, are stored by no line of the code, so
their branches in `updateController` are dead and left out; `TypeOK`, proved in
general, confirms that the mode never leaves the set.

**FlightController** has one step per access to a shared atomic. `pc[t]`
says which access thread `t` makes next, `op[t]` in which operation. `Call` is
the controller thread entering an operation; `GetMode`, `StoreArmed`,
`StoreChannel`, `StampMode`, `StoreMode`, `SendCalibrate` are the accesses of an
operation and run in both threads, because the updater calls `velocityControl`
(in TakeOff), `setRC` and `disarm` (at the end of a calibration) itself.
`RecvRC`, `LoadChannel`, `LoadArmed`, `SendRC`, `UpdateController`, `LoadThen`,
`CalibrateDone` are the updater's own. The board is external: `BoardRC` and
`BoardCalibrate` take a request and answer it, `Lose` drops a frame where the
line may. A channel's value is only "idle" or "flight"; `m_lastModeChange` is
only whether it is more than ten seconds old, and `TenSeconds` ages it.

**ArmSwitch** is what the board is promised: a switch flipped at any time, a
line that holds at most one sample, taken after the last one was delivered, and
every sample delivered. `FlightController!Switch` maps it: `m_armed` is the
switch, the frame being sent or on the wire is the sample. `ImplementsArmSwitch`
checks the implementation with its fairness, `SwitchRefinement` proves the
safety part.

**Watchdog** has the owners' stores one by one (`Start` then `SetMax`, `Ok`,
`Stop`), `Destroy`, and the check thread load by load: `Wake` computes `addCount`
and `extra` with the code's truncations, `Increment` is one `+=`, `Test`,
`LoadCount` and `Compare` are the three loads of the condition. `m_maxes` is a
plain integer shared by two threads, so what `Compare` compares with is the
tested value or a second load: the race is undefined, and both are outcomes a
build can have. `Tick` passes time in any state. `age`, `credit` and `prompt` are
history variables.

**Session** has the three threads of a session step by step, the updater's
TakeOff case in two, the socket with its half-closed states (`link`, `refused`)
and SIGINT. An operation of the flight controller is one step here:
FlightController has its interleavings. A heartbeat is `Empty`, the message of
length zero that `recvMessage` accepts without parsing, so that what
`update.Clear()` left is what is applied. `CheckThread` finds the limit of the io
watchdog set, and kills or goes on in a later step, even if the watchdog has been
stopped meanwhile; when it does is left open, which includes everything Watchdog
allows.

**IO** is one direction of the socket, gobase's `SendMessage` to
`IO::recvMessage`. A message is its serialised bytes behind a length of
`HeaderLen` bytes; `Write` puts any number of bytes into the socket, and
`ReadLength` and `ReadBody` take any number out, up to what the code asks for.
`ReadNothing` is the 100 ms time-out and the end of file, which the code does not
tell apart. `rpc` is where `do_recv` is in its call; `buffer` and `recvLen` are
what `recvMessage` keeps between calls. The peer may close after the last
message, die in the middle of one, or reset the connection, and the send thread
may clear `m_connected` under the receive thread. A complete body parses or
disconnects. **Mailbox** is the promise:
messages are handed over whole, once, in order, all of them unless the
connection breaks; `ImplementsMailbox` checks it, fairness included. The other
direction has the same encoding (`IO::sendMessage`) and a reader that blocks
until it has all it wants (`io.ReadFull`), so it keeps no state between calls.

**MultiWii** has the bytes of the serial line: `FillBuffer` and `WriteFull` are
`sendCMD` in either thread, with the one buffer `m_send`; `ReadHeader` and
`ReadRest` are `recv` with what `read(2)` has; `Request` and `Update` are
`Skyline::update`, which answers a reply with the next request of its kind. The
board is external: it takes whole requests and writes answers in any pieces. A
frame is its preamble, length, command, data and checksum, the xor of the code,
which `Checksum` computes bit by bit as the parity of that bit. When two threads are in `sendCMD` at once the model stops
(`Overlap`): nothing can be said of what then is in the buffer.

**Control** abstracts every number to its age. A setpoint is from before the last
DISARM or not; what a controller remembers (its integral, last error and last
output, by the oldest) is zero, of this flight, or has something of an earlier one. `Message`, `ResetIO`, `StoreField` are `do_recv`; `GetMode`, `ResetPIDs`,
`SetMode` an operation in either thread; `Fly`, `LoadSetpoint`, `StepPID`,
`StoreMemory`, `SetRC` the updater, with the loads and the stores of
`PID::step` apart. `torn` remembers the resets that met a step under way: the
step stores what it had loaded over the reset, which is what the code does.

**Observations** abstracts the numbers of VRPN to the sample they come from.
`Callback` begins a sample and `Store` is one of its ten stores, in the order of
the code: the orientation is stored first. `Request`, `Keep` and `SetMode` are an
operation of the controller thread, of which `positionControl` keeps the position it
finds as the initial one, axis by axis, before it stores the mode. `Fly`, `Load` and
`NextPart` are a round of `updateController`: a velocity and an orientation
to rotate it by, then a position and an orientation, each field loaded for itself;
the order of the loads within one expression is left to the compiler.
**Flights** has both views of the controller and the updater thread, Control and
Observations. They share the mode and its operations, nothing else; a
behaviour is one of either, chosen by `view` at the start, since their product has
no property that the two have not.

**Camera** builds and releases fifteen resources in the order of the source,
with a throw between any two; `Supported` says which of them another one needs.
Buffers are in a pool, with MMAL, or in a callback, in numbers, and each
of the callback's early returns is there. `callbackRaw` reads the reset flag,
keeps or takes the reference and stores the two coordinates one by one, while
`resetPosition` comes at any step and clears them one by one. `overlapped`
remembers a reset that met a callback under way: the callback may store a sum that it
had loaded before the reset.

**VariableLogger** has loggers that are constructed in any order before, and
destroyed in any order after, one that comes and goes, the map of
names, `flush` write by write, and the archive made by the last destructor. The
reader of `data/logz/file.py` is two operators (`Entry`, `Read`), so `ReadBack` is
about both programs. A kill (`Kill`) may come anywhere.

**Base** is gobase's shell: the pilot types keys, some of which mean something
only in the mode observed last; a message waits in the channel until it is sent
as a length and a body; the heartbeat's goroutine runs the deferred calls that
send DISCONNECT and close the channel. The link may fail at once, or go
silent until TCP gives up.

**JsonText, JsonReader, JsonGrammar and Config** are what the program makes of
`cdrone.conf`. JsonText computes: where a token ends, what `decodeNumber`,
`decodeString` and their helpers make of it, digit by digit and escape by
escape, against integers of the widths `MaxInt` and `LargestUInt`. JsonReader is
`OurReader` one token a step, with the recursion of `readValue`, `readObject` and
`readArray` as a stack, and `addErrorAndRecover`, level by level. JsonGrammar
says which documents are values, without tokens, stack or errors; it has the
liberties the reader takes, which its comment lists. Config has the conversions of
`Json::Value` and what each throws.

**Program** is `main` and `cdrone`: `main` the place of the main thread,
`built` the objects alive in the order of construction, `thread` one place per
other thread, `masked` the threads that block SIGINT, `limits` the watchdogs
with a limit. The check thread looks at a limit in one step and kills in a later one, if
it found the limit set, whatever has become of it since; `looked` remembers a look
after both threads had been joined. Each constructor may throw what it throws in the code; an
exception unwinds `built` from its end.

**Infrared** is `main()` with the program "infrared": the converter has a register
pointer and two bytes of configuration, and outlives the process. `PointTo` and `Value`
are the two transfers of `readRegister`, `WriteConfig` the one of
`writeRegister`; between any two the process may be interrupted (`Interrupt`),
killed by the watchdog (`Kill`), or throw (`Fails`), and then be run again
(`RunAgain`), after a loss of power or not. An exception in the constructor after
`Configure` skips the destructor. Heights are whole millimetres. **Programs** has
both programs; which one is an argument of `main()`.

Definitions such as `ClearedNot` or `LoopsOnce` beside `Cleared` and `Loops`
are the same line with a plausible mistake. No specification uses them; they
show that the properties notice (`mutants` in PROJECT.json).

## 3. The runs

| run | module, cfg | question | properties |
|---|---|---|---|
| deployed | MCFlightController, MCDeployed | the flight controller as `do_recv` calls it, on a reliable line | ModeMatchesSwitch, OneRCFrame, AtMostOneStaleFrame, DisarmReachesBoard, ImplementsArmSwitch |
| lossy | MCFlightController, MCLossy | calibration on a line that loses frames | CalibrationEnds |
| disarm_sticks | MCFlightController, MCDisarmSticks | section 5, violated | DisarmSticks |
| watchdog | Watchdog, MCWatchdog | bookkeeping and detection | TimeConserved, OverLimitMeansSilent, DetectInTime, Detects |
| session | MCSession, MCSession | every way into and out of a session | UnarmedBetweenSessions, WatchdogOnlyInSession, AppliesLastMessage, GoneClientIsLeft, ShutdownEnds |
| io | MCIO, MCIO | every chunking of the socket's stream | StreamConserved, ImplementsMailbox |
| line | MCMultiWii, MCMultiWii | every chunking of the serial line, two senders | SentWhole, ReceivedWhole, RCFlows |
| control | MCControl, MCControl | what survives from flight to flight, and what an estimate is made of | FreshControllers, OneOldRound, RotatedByTheNewest, MeasuredFromItsStart |
| camera | MCCamera, MCCamera | every failure and interleaving of construction, callbacks, reset and destruction | Supported, BuffersHome, PositionFromReference, DestructorEnds |
| logger | MCVariableLogger, MCVariableLogger | partial writes, failures and a kill; what a reader finds | NothingLost, ReadBack |
| base | MCBase, MCBase | the base station up to the end of `Close`, on a link that may fail | NoSendAfterClose, OrderKept, ClosedAfterAll, CloseReturns |
| program | MCProgram, MCProgram | any short configuration file, then the program with failures and SIGINT anywhere; or "infrared", twice | TextDecodes, ReadsAsSpecified, NobodyUsesTheDead, OnlyAnEarlierLimitKills, Interruptible, RestoresWhatItFound |

What they show, in one sentence each: the arm switch follows the mode and reaches
the board; one RC frame is in circulation, so no buffer overflows, but a lost
one ends the conversation; the watchdog neither invents nor loses more than a
millisecond per charge, and finds a hang within a bounded time; a session leaves
nothing armed or watched; the two parsers keep their place however reads cut the
stream; flights do not inherit the integrals `resetPIDs` covers, nor more than
one round of setpoints, nor the point they measure from, and nothing is rotated by
an orientation older than itself; the camera's resources and buffers all come home;
logs read back as they were written; DISCONNECT is the last thing a base station
says; the reader of the configuration reads what its grammar says and the program
ends when it is told to, using nothing that is gone, and no watchdog ends it but by a
limit found set before its threads were joined; the converter of the infrared
sensor is left as it was found. Type invariants are proved, not run.

Bounds, and why they are enough:

- *Channels* = 1 or 2 instead of 4. No access to one channel depends on
  another; two channels are enough for a mixture of two `setRC`, and one for
  everything that only tells the switch from the channels.
- *MaxReplies* = 1 or 2 instead of 4: how many replies one `Skyline::update`
  handles before `updateController`; 2 has the case "handled some, more
  waiting". The proofs hold for any value.
- *MaxCalibrations* = 1: requests outstanding. It is 0 in `deployed`, since
  `do_recv` has no case for CALIBRATE; the second request is only needed for
  the ordering of replies, which carry no data.
- *Epoch* = 2, *Duration* = 5, *Ms* = 2, *MaxGap* = 7, *Horizon* = 12: a
  duration that is not a multiple of the epoch, half milliseconds that
  `duration_cast` drops, and gaps of almost two epochs, so `NumOver` is 0 and 1
  and the carry takes every value. The limit, three epochs of four ticks, exceeds
  the slack of `OverLimitMeansSilent` with the fourth, so that bound is not empty.
  `Horizon` only bounds the clock of a watchdog
  that is stopped; `Tick` needs no other bound, since a running one kills.
- *Clients* = 2: one in the session, one in the backlog. *InFlight* = 1
  and *Window* = 1: a full and an empty socket in either direction.
- *Updates*: the heartbeat, the modes that arm and leave Armed, and a
  message that arms and disconnects, whose second half is the disarm. The other modes
  change nothing that Session's properties see.

- *Base* = 2, *HeaderLen* = 2: bytes are bits, so that a body reads like a
  length when the reader loses its place, and lengths are 0 to 3. *Messages*:
  the empty one, one whose body looks like two empty ones, and the longest.
  *SocketSize* = 6 and *MaxSent* = 4: more than one message in the socket, and
  less than fits of the next.

- *MultiWii*: frames of four to six bytes with one byte of data at most; a line
  that holds one frame and a part of the next (*LineSize* = 7), so writes are
  partial and block; replies of two kinds in the receive buffer at once;
  *ResponsesPerUpdate* = 2 as above. One `sendCalibrate`, at any time, is enough for
  two threads in `sendCMD`.
- *Control*: three setpoints and three controllers of six each, with one
  controller that `resetPIDs` leaves out, a load before and after a step,
  and messages of one, two and three fields. Flights and sessions have no bound.
- *Observations* (in the run `control`): two parts of the orientation, an axis
  of the velocity and two of the position (*Fields*), so that each kind of store
  and load comes before and after another of its kind; three samples
  (*MaxSamples*), so that one estimate can meet all of them; two requests
  (*MaxRequests*), the flight before and this one.
- *Camera*: *Size* = 3 buffers per pool, so one can be with MMAL, one in a
  callback and one returned while `sendBuffers` runs. Frames have no bound.
- *VariableLogger*: records of two and three bytes in a buffer of five, so
  a record fills it, or does not fit what is left; two loggers of the whole life
  of the program and one that comes and goes; three records each.
- *Base*: a channel of two, so it is full while the pilot types, the
  heartbeat beats and `Close` waits; keys of each kind (a command, a setpoint,
  one without a message, quit).
- *Program*: documents of up to six lexemes (the bound that lets an object with a
  member inside an array be broken and recovered from), 19 kinds of lexemes, of which
  only closing brackets follow an error; a stack of three, so that its limit is
  met; integers of 15 and 63 (*MaxInt*, *LargestUInt*) and ports up to
  7, so that `10`, `20` and `64` lie between and beyond the limits. Each lexeme is
  followed by a blank: the tokens are cut apart by their own characters only
  where `TextDecodes` does it, on the lexemes. Numbers have no exponent. No comment
  begins with `'` (section 5).
- *Infrared* (in the run `program`): the calibration of cdrone.conf (*K*, *B*,
  *Tenths*), the converter's configuration at *PowerOn*, five *Conversions*, which
  are negative, without an echo, far, near and the largest, and two runs
  (*MaxRuns*), so that the second finds what the first left.

The `CHECK_DEADLOCK FALSE` of the Watchdog, Session, IO and Program runs is for a
process that was killed or has ended, or a receive thread that threw. The others
never stop, or say where (`Over`, `Overlap`), and are checked for deadlock.

## 4. Fairness

- *FlightController*: the updater loops without blocking, an operation begun by
  the controller never blocks (weak fairness of `Updater` and
  `Step("controller")`); time passes; the board answers. Nothing makes the
  controller begin an operation. `Lose` is not fair, and the liveness of the
  switch is not claimed when it is on: after one loss no RC frame is ever sent
  (see RCFrameBound, section 6), the hazard at Skyline.cpp:195.
- *Watchdog*: time passes, the check thread is scheduled within `MaxGap`, and an
  owner that began `start()` finishes it. Owners need not ever speak again, which
  is what the watchdog is for.
- *IO*: the base station writes what it began, and `do_recv` calls `recvMessage`
  again when it returned false.
- *Session*: the four threads are scheduled; a client reads what it is sent as
  long as it is connected (gobase's receive goroutine). Clients need not send,
  connect or close; `do_recv` may wait for ever. Without the reading client
  `do_send` blocks in `writeFull`, which has no time-out.
- *MultiWii*: the updater loops, a request that was begun is finished, and the
  board works off what it is sent. `sendCalibrate` need not be called.
- *Camera*: main goes on, MMAL empties a port that is being disabled, and
  callbacks return. Frames and resets need not come, and nothing has to fail.
- *Base*: Go schedules every goroutine that can take a step, the drone sends an
  observation every 200 ms as long as the connection is there, and TCP gives up on
  a link on which nothing is acknowledged. The pilot need not type.
- *Program*: every thread is scheduled, VRPN's `mainloop` returns, and a session
  ends (its reads time out and its loops test `global::shutdown`; Session has
  the details). Nothing has to fail, `check_thread` need not kill, and no signal
  has to come.
  The program "infrared" has no liveness property: its handler of SIGINT can wait
  for the mutex of the console for ever, and nothing but the watchdog ends it then.
- *Control*, *Observations* and *VariableLogger* have safety properties only.

## 5. What the code does not keep

One disagreement of the code with its own documentation is a run that TLC must
find violated, and a finding in PROJECT.json:

- *DisarmSticks*: `updateController` runs `velocityControl()` in TakeOff; a
  `disarm()` between its `getMode()` and `setMode()` is overwritten and the
  drone, its switch off, is in VelocityControl, in which `arm()` is refused
  until the next disarm. `ModeMatchesSwitch` holds all the same: the error is on
  the safe side.

Others were met while modelling. The models contain the behaviour, or say
that they leave it out; no property excuses more than is written here.

- FlightController.cpp:177: a `setRC` of the updater that was begun before
  `disarm()` and ends after the next `arm()` leaves flight channels in an armed
  drone.
- FlightController.cpp:89: `calibrate()` in a flight mode warns and goes on, against
  FlightController.h:33; and the updater's `disarm()` at the end of a
  calibration can store Disarmed after the controller's `arm()`. The deployed
  `do_recv` never calibrates.
- FlightController.cpp:80: `resetPIDs` leaves out `m_posZPID` (the model's `Covered`
  is what it resets); FlightController.cpp:21 builds the Y controller with
  `positionXPIDCenter`.
- PID.cpp:51: a reset that meets a step is overwritten by its stores (`torn`).
- Camera.cpp:450: a reset that meets `callbackRaw` between its load and its store
  of a coordinate is lost for that coordinate, since the store overwrites the zero of
  Camera.cpp:403. The second half of `PositionFromReference` exempts every reset
  that met a callback under way (`overlapped`); the first half, about the first frame,
  exempts none.
- Watchdog.cpp:84: `stop()` between the two loads of `m_maxes[i]` makes any
  counter exceed the limit. Watchdog.cpp:87: the kill comes some steps after the limit
  was loaded, so a watchdog that has been stopped in between still kills, outside a
  session or after `cdrone()` has joined its threads; `OnlyAnEarlierLimitKills` is what
  holds. And the epochs of a late wake are added to a counter
  that was zeroed a moment ago, for which `OverLimitMeansSilent` is the bound
  that holds. Watchdog.cpp:16: `m_names.at` throws before the check for too many
  watchdogs is reached.
- program/cdrone.cpp:101: DISCONNECT and a failing connection disarm without
  `resetIO()`, so the next session starts with the setpoints of the last until it
  sets or disarms.
- MultiWii.cpp:21: two threads in `sendCMD` at once write bytes of both frames. The
  model stops there, and `SentWhole` says nothing of what follows. The deployed
  `do_recv` never calibrates, so it cannot happen there.
- IO.cpp:98: when a body does not parse, `recvMessage` throws with `m_recvLen` and
  the buffer as they are; nobody calls it again.
- IO.cpp:21: `~IO` does not close the socket. Server.cpp: `make_shared<IO>` in
  `accept` may throw an `IOException` that `do_serve` does not catch (`Crash`), and
  `create_socket` leaks its descriptor when it throws.
- main.cpp:92: a start-up failure after `Watchdog::initialize` ends in
  `std::terminate`, not in `return 1`, since the static thread is joinable
  (`Leave`).
- main.cpp:25: the handler logs, and so may wait for a mutex that the thread it
  interrupted holds; `Interruptible` excuses this for the main thread and
  callbacks of the camera, the only threads it can happen to.
- FlightController.cpp:187 gives `velocityX` unrotated to its controller, while the
  other axis is rotated. FlightController.cpp:109 loads the four parts of the
  orientation one by one: with a sample in between they are of two samples, and the
  estimate of that round is scaled.
- Infrared.cpp:27 says "get in the ballpark before launching the smoothed infrared."
  The six updates are smoothed themselves, from 0: with the `infraredAlpha` of
  cdrone.conf they reach 1 - 0.9^6, 47 % of the distance.
- Infrared.cpp:28: `update()` may throw in the constructor, whose object has no
  destructor then; the converter stays configured, and the next run takes that for what
  it has to restore (`found`).
- jsoncpp.cpp:1726: after a comment anything but `}` separates two members, and a `,`
  may precede `}` after a member with the empty name; text after the value of a
  document is not read. JsonGrammar, which `ReadsAsSpecified` compares the reader
  with, takes over these liberties, so the property does not call them errors.
- VRPN.cpp: the thread starts before the handler is registered.
- Config: the key `certificate` of cdrone.conf is never read; the code reads `ca`.
  A comment that begins with `'` where a value is expected is a
  `Json::LogicError` nobody catches.
- gobase/main.go:43 promises to "reset the image for position mode", and
  gobase/base/commands.go:73 that "ResetPosition tells the drone to reset the
  position". Observations.h:9 says the object "should be made as a shared_ptr and
  distributed amongst the objects", but cdrone.cpp:262 makes one for the camera alone:
  RESET_POSITION only resets the position that the camera keeps, not the one that is
  flown by and sent.
- logging: static loggers use globals of another translation unit, whose
  order of initialisation is not defined.

## 6. The proofs

All are checked by TLAPS for every value of the constants under the named
assumptions in the modules (`NAssumption`, `ChannelsAssumption`, ...).

| theorem | says | argument |
|---|---|---|
| FlightControllerProofs!TypeCorrect | TypeOK, and the control state (which access can belong to which operation) | `Typed == TypeOK /\ Control`: an operation's table entry is a type only together with its `pc` |
| SwitchFollowsMode | without calibrations, ModeMatchesSwitch: Disarmed means unarmed, and the armed modes mean armed | `SwitchInv` adds what the switch is at each access inside arm and disarm, and that the updater, when it is about to store a mode, stores VelocityControl |
| RCFrameBound, RCFrameConserved | at most one RC frame; exactly one on a line that loses none | the number of frames decreases only in `Lose` |
| StaleFrameBound | at most one armed frame after a disarm | `StaleInv`: a stale frame was counted only if the sample in hand is already fresh |
| SwitchRefinement | on a lossless line, `Spec => Switch!Spec` | one frame (RCFrameConserved) means the line is empty at a sample |
| WatchdogProofs!TypeCorrect, CarryBound | types; the carry is at most an epoch | `Typed` adds `slept <= since`, without which `Measured` could be negative |
| TimeAccounted | TimeConserved | `WakeSplits` splits what a wake measured into epochs charged, carry, and a remainder below a millisecond; one lemma per kind of step |
| OverLimitSilent | OverLimitMeansSilent | `Clocked`: the clock of a wake is within the bound on gaps, so what is about to be charged and what a fresh counter owes are bounded; with TimeAccounted the counter bounds the silence |
| DetectedInTime | DetectInTime | `Noticed`: a counter over its limit has its check still ahead of it in this pass (`Due`), and a counter that is not bounds the silence that the last wake found (`Silent`) |
| StreamProofs!ReceiverState | types, the bounds of the buffer and of `m_recvLen`, and that what was delivered are the first messages sent | `Parser`: by `rpc`, how much of the length or of the body is in hand |
| StreamKept | StreamConserved | the encoding of what is outstanding is what is in hand, in the socket and unwritten; `FlattenAppend`, `FlattenFirst` for one message more or less, `NumberOfDigits` for the length read back. A message in hand ends where its length says |
| MailboxRefinement | `Spec => Channel!Spec` | Deliver is `Apply`, Break is what breaks the connection, all else stutters |
| LogsKept | NothingLost | `LogInv`: for each logger, what its file has and its buffer has beyond `total` is the records logged, and at every place of `flush` and of the destructor how much of them; the ids are distinct and below `created` |
| LogsReadBack | ReadBack | `ArchiveInv`: the archive is made once, by the last of the loggers, when all that were constructed are gone (`BornFinite` counts them), and each entry is the file of its logger; `RecordsReadable` takes a file of whole records apart again |
| AnswersWhole | ReceivedWhole | `ReceiveInv`: what recv has, the line and what the board has still to write are the answers; when the length byte is there it is that of the first of them (`FirstLength`), so what is complete is that one (`FirstWhole`) |
| FramesWhole | SentWhole | `SendInv`: at most one thread is in sendCMD, its frame is the last one requested, the buffer begins with what it has stored so far (`Filled`, by `PutBegins` whatever an earlier frame left behind that), and the line and what remains of the frame are the frames requested |
| SessionProofs!TypeCorrect | types, and `Joined`: session threads and a client exist exactly while the serve thread waits for them | |
| SessionSafe | UnarmedBetweenSessions, WatchdogOnlyInSession, AppliesLastMessage | `SessionInv` adds that the serve thread waits for send only when recv is done, and that update is fresh in every state that applies it |
| WatchdogInside, LastMessageApplied | WatchdogOnlyInSession; AppliesLastMessage, each alone | SessionSafe |
| ControlProofs!OldSetpointsEnd | OneOldRound | `SetpointInv`: outside a DISARM no setpoint is old, and after a counted round the updater has none in hand |
| ControllersAreFresh | FreshControllers | `MemoryInv`: what a thread has reset stays `Clean` until it stores the mode, although the other thread resets, arms or steps meanwhile; for the updater's resets, which no step can meet, it stays zero |
| RotatedByNewer | RotatedByTheNewest | `InStoreOrder`, `LoadedInOrder`: as long as a part of a sample's orientation is to be stored all its numbers are, and so a loaded number is not newer than the orientation that is loaded after it |
| NoEarlierStart | MeasuredFromItsStart | `KeptInOrder`: every initial position is of the request that stored the mode last, or of a later one |
| FlightsAreFresh | the four of them, for `SpecFlights` | either view refines its own specification |
| CameraProofs!TypeCorrect | types, and the flags of the ports | |
| NothingUnsupported | Supported | `HeldInv`: what is held is what the place in the order of construction or release says; `BuildOrder` and `ReleaseOrder` are facts of the two sequences |
| BuffersComeHome | BuffersHome | `BufferInv`: the buffers of a port are in the pool, with MMAL, in a callback or lost, and together the pool's; a pool that `start` has emptied stays so, because a callback takes out what it returned |
| ResetHolds | PositionFromReference: a new first frame after every reset, a new position after those that met no callback under way | `PictureInv`: a first frame is kept as fresh at every place of `callbackRaw` but one; and unless a reset was met, what has been computed is fresh as far as the coordinates it was computed from are cleared (`Zeroed`) |
| BaseProofs!NoPanic | NoSendAfterClose | `Order`: the channel is closed after the heartbeat was told to stop, after Close began, after the keys ended |
| InOrder | OrderKept | `Kept`: what was delivered, the message being sent, the channel and the messages that wait for it are one sequence, and DISCONNECT is only at its end |
| CloseDelivers | ClosedAfterAll | from `Kept`: on a link that held nothing is left when the connection closes |
| ProgramProofs!LivesLongEnough | NobodyUsesTheDead | `Held` and `Run`: what is alive, and which threads run, by the place of the main thread; `built` as a set grows at its end and loses its last element (ToSetConcat, ToSetFront) |
| OnlyEarlierLimits | OnlyAnEarlierLimitKills | `Watched`: a limit belongs to a thread inside its loop or session, and after the joins there is none; so a look after them finds nothing, and `KillInv`: once there was one, check_thread holds no limit that it found set |
| ConverterRestored | RestoresWhatItFound | `InfraredInv`: what `saved` is from `Save` on, that it came as two bytes of what this run found, and goes back as the same two (`WireAndBack`) |
| OwnChannel | OurChannel of Infrared: from `Configure` on the converter measures what Infrared asked for | the same invariant |
| HeightReached | HeightInReach of Infrared, for every calibration with `K \div (SignBit - 1) + B >= 0` | a larger reading is a smaller distance (`Antitone`), and smoothing stays between the old height and the new |
| EitherIsSafe | NobodyUsesTheDead and RestoresWhatItFound, for `SpecPrograms` | either program refines its own specification |

The invariants are needed because none of the properties is inductive: a state in
which, say, a thread runs and all it uses is alive may still have the main thread
at a place from which it destroys it. TLC checked each strengthening before it was
proved.

StreamProofs needs what `FlattenSeq` and the folds behind it compute for a sequence of any
length. The induction theorems of the library take an operator as a parameter, which
the provers cannot instantiate; `Induction` says the same of the subset of the
naturals where something holds, from the well-foundedness of `<`, and is cited with
that set. `Recursion` gets the equation of a recursive function from the
existence of its finite parts. Neither assumes anything. There are no
axioms and no steps without a proof. The lemmas about sequences (`FlattenAppendOf`,
`FlattenFirstOf`, `ApartOf`, `CutOf`) are stated for any alphabet, and used with
IO's bytes, with the marked bytes of the records of a log, and with those of the
serial line.

Assumptions on constants are those of the modules. Those of VariableLogger,
`LogsKnown`, are that there are finitely many loggers and that a record fits the
buffer: the code asserts nothing of the kind, but the largest record, of VRPN,
has less than a hundred bytes and the buffer 8192. Those of MultiWii,
`LineKnown`, are that the commands have different numbers, that a calibration
carries no data and that a frame fits the 256 bytes of `m_send` and `m_recv`:
the largest that either side sends has 24. (StreamProofs extends IO,
VariableLogger and MultiWii alike, so the names they would share carry `Logs` or
`Line` in the latter two.) HeightReached has one assumption more, `Grounded`,
because a calibration with a large negative `B` would put a far reading below
the ground; that of cdrone.conf meets it.

Only model-checked:

- everything temporal under fairness (DisarmReachesBoard, CalibrationEnds, the
  fairness half of ImplementsArmSwitch and of ImplementsMailbox, Detects,
  GoneClientIsLeft, ShutdownEnds, RCFlows, DestructorEnds, CloseReturns,
  Interruptible), which is out of the prover's reach;
- TextDecodes and ReadsAsSpecified, since JsonGrammar is recursive.

## 7. What is not modelled

- Floating-point: PID outputs, positions, setpoints, attitude, motion vectors.
  They are inputs, or have no value.
- What the board does: its firmware answers requests and has a failsafe of its
  own. The kill of a watchdog does not disarm (hazard at Watchdog.cpp:87).
- Bytes lost or corrupted on the serial line: `MultiWii::recv` has no
  resynchronisation, so nothing can be claimed after one (hazard at
  MultiWii.cpp:37). FlightController has the loss of whole frames.
- The descriptors that sessions leak, the failure of `accept` that results, and
  the ten places for watchdogs, of which three are used; a failure to create a
  thread.
- Messages longer than the receive buffer of IO; TLS; thread affinity.
- Of jsoncpp everything the program does not call: the old Reader, the writers,
  Path, the iterators, and the options of the reader that are off. It is most of
  that file, and half of the repository's C++.
- The other interactive programs of `program/test.cpp`, the generator's templates, the
  plots.

## 8. Plan

Every component that decides something is modelled. What is left:

1. *Drone*: Session over FlightController's accesses with the Watchdog as an
   abstract timer, the setpoints of Control included, so that the start of a
   session with the setpoints of the last one is seen together with the switch.
2. The refinement of Session's one-step operations by FlightController while the
   updater is quiet, and of Program's session by Session.
