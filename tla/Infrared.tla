------------------------------ MODULE Infrared ------------------------------
(***************************************************************************)
(* The infrared height sensor: Infrared (hardware/Infrared.cpp) reads an   *)
(* ADS1115 (hardware/ADS1115.cpp) over I2C (wire/I2C.cpp), as the program  *)
(* "infrared" of main.cpp does (test_infrared of program/test.cpp).        *)
(*                                                                         *)
(* The converter has a pointer register and, behind it, a configuration    *)
(* that outlives the process: the constructor of Infrared keeps what it    *)
(* finds there, the destructor puts it back.  Every transfer may fail, and *)
(* the watchdog may kill the process while one blocks; then the program is *)
(* run again, with or without the converter losing power.                  *)
(*                                                                         *)
(* Abstracted: heights are millimetres, rounded down, where the code has   *)
(* doubles; a transfer is all or nothing, so that one a signal interrupts  *)
(* is repeated without a trace; the watchdog has no clock (Watchdog).      *)
(***************************************************************************)
EXTENDS Integers

CONSTANTS
    Conversions,  \* what the converter may measure, as its 16 bits
    PowerOn,      \* its configuration when it gets power
    K, B,         \* infraredK and infraredB, in millimetres
    Tenths,       \* infraredAlpha, in tenths
    MaxRuns       \* bound: how often the program is run

Words == 0 .. 256 * 256 - 1

ConstantsKnown ==
    /\ Conversions \subseteq Words /\ PowerOn \in Words
    /\ K \in Nat /\ B \in Int /\ Tenths \in 0 .. 10

VARIABLES
    at,        \* where test_infrared is,
    reading,   \*   within a readRegister: has the register been named?
    warming,   \*   the updates of the constructor still to come
    pointer,   \* the converter's pointer register
    config,    \* its configuration, the two bytes
    saved,     \* m_defaultConfig
    height,    \* Observations::positionZ
    watched,   \* does the watchdog have its limit?
    shutdown,  \* global::shutdown
    stuck,     \* does the handler of SIGINT wait for the console's mutex?
    ending,    \* "no", "returned", "aborted", "killed"
    runs,      \* how often the program has been run
    found      \* history: the configuration this run found

converter == <<pointer, config>>
program == <<watched, shutdown, stuck, ending>>
vars == <<at, reading, warming, converter, saved, height, program, runs,
          found>>

\* htons() and ntohs(): the most significant byte is sent first.
ToWire(value) == <<value \div 256, value % 256>>
FromWire(bytes) == 256 * bytes[1] + bytes[2]
AtPowerOn == <<PowerOn \div 256, PowerOn % 256>>

Init ==
    /\ at = "open" /\ reading = FALSE /\ warming = 6
    /\ pointer = "CONVERT" /\ config = AtPowerOn
    /\ saved = 0 /\ height = 0
    /\ watched = FALSE /\ shutdown = FALSE /\ stuck = FALSE /\ ending = "no"
    /\ runs = 1 /\ found = config

-----------------------------------------------------------------------------
(* Registers.                                                              *)

Running == ending = "no" /\ ~stuck
Goes(here, there) == Running /\ at = here /\ at' = there

\* writeRegister(CONFIG, value) is one transfer.
WriteConfig(value) ==
    /\ pointer' = "CONFIG" /\ config' = ToWire(value)
    /\ UNCHANGED reading

\* readRegister() is two: the first names the register, the second reads
\* what the pointer names then.
PointTo(register) ==
    /\ ~reading /\ reading' = TRUE
    /\ pointer' = register /\ UNCHANGED config
Value == reading /\ reading' = FALSE /\ UNCHANGED converter
Values == IF pointer = "CONFIG" THEN {FromWire(config)} ELSE Conversions

\* A transfer fails with an I2CException.  In the constructors it unwinds
\* test_infrared; in the loop Infrared is destroyed on the way; and in that
\* destructor it ends the process.  main() returns 1 after an exception, and
\* the joinable thread of the watchdog library ends the process as well.
Fails ==
    /\ Running
    /\ \/ /\ at \in {"open", "address", "save", "configure", "warm",
                     "restore", "unwind"}
          /\ ending' = "aborted" /\ UNCHANGED at
       \/ /\ at = "update"
          /\ at' = "unwind" /\ UNCHANGED ending
    /\ reading' = FALSE
    /\ UNCHANGED <<warming, converter, saved, height, watched, shutdown,
                   stuck, runs, found>>

-----------------------------------------------------------------------------
(* Infrared.                                                               *)

\* openI2C(): the device, and the converter's address on it.
Open ==
    /\ \/ Goes("open", "address")
       \/ Goes("address", "save")
    /\ UNCHANGED <<reading, warming, converter, saved, height, program, runs,
                   found>>

Save ==
    /\ \/ /\ Goes("save", "save") /\ PointTo("CONFIG") /\ UNCHANGED saved
       \/ /\ Goes("save", "configure")
          /\ Value /\ saved' \in Values
    /\ UNCHANGED <<warming, height, program, runs, found>>

\* The values of ADS1115::Gain and ADS1115::Config that Infrared asks for.
Gain == [ONE |-> 2 * 256]
Config == [MUX_SINGLE_0 |-> 64 * 256, DR_128SPS |-> 128, CQUE_NONE |-> 3]
Wanted ==
    Gain.ONE + Config.MUX_SINGLE_0 + Config.DR_128SPS + Config.CQUE_NONE
Configure ==
    /\ Goes("configure", "warm")
    /\ WriteConfig(Wanted)
    /\ UNCHANGED <<warming, saved, height, program, runs, found>>

\* A negative conversion and one that is too small count as the smallest
\* that makes sense.
MinReading == 2000
SignBit == 128 * 256
ClampSmall(v) == IF v < MinReading THEN MinReading ELSE v
Clamp(v) == IF v >= SignBit THEN MinReading ELSE ClampSmall(v)
Distance(v) == K \div Clamp(v) + B
Smoothed(old, new) == ((10 - Tenths) * old + Tenths * new) \div 10

\* update(), which goes on to "there".
Update(here, there) ==
    \/ /\ Goes(here, here) /\ PointTo("CONVERT") /\ UNCHANGED height
    \/ /\ Goes(here, there)
       /\ Value /\ \E v \in Values : height' = Smoothed(height, Distance(v))

Warm ==
    /\ \/ warming > 1 /\ Update("warm", "warm")
       \/ warming = 1 /\ Update("warm", "start")
    /\ warming' = IF reading THEN warming - 1 ELSE warming
    /\ UNCHANGED <<saved, program, runs, found>>

-----------------------------------------------------------------------------
(* test_infrared().                                                        *)

StartWatchdog ==
    /\ Goes("start", "loop") /\ watched' = TRUE
    /\ UNCHANGED <<reading, warming, converter, saved, height, shutdown,
                   stuck, ending, runs, found>>

Loop ==
    /\ \/ ~shutdown /\ Goes("loop", "update")
       \/ shutdown /\ Goes("loop", "restore")
    /\ UNCHANGED <<reading, warming, converter, saved, height, program, runs,
                   found>>
UpdateInLoop ==
    /\ Update("update", "loop")
    /\ UNCHANGED <<warming, saved, program, runs, found>>

\* ~Infrared; the watchdog has no destructor and keeps its limit.
BuiltIn == PowerOn
Kept == saved
Restore ==
    /\ \/ Goes("restore", "left")
       \/ Goes("unwind", "thrown")
    /\ WriteConfig(Kept)
    /\ UNCHANGED <<warming, saved, height, program, runs, found>>

\* main() joins the thread of the watchdog library.
Leave ==
    /\ Running
    /\ \/ at = "left" /\ ending' = "returned"
       \/ at = "thrown" /\ ending' = "aborted"
    /\ UNCHANGED <<at, reading, warming, converter, saved, height, watched,
                   shutdown, stuck, runs, found>>

-----------------------------------------------------------------------------
(* What happens to it.                                                     *)

\* SIGINT.  The handler logs: it waits for ever if it interrupts a thread
\* that logs to the console, as the main thread does at these places.
Interrupt ==
    /\ ending = "no"
    /\ shutdown' = TRUE
    /\ \/ UNCHANGED stuck
       \/ at \in {"open", "start", "loop", "left"} /\ stuck' = TRUE
    /\ UNCHANGED <<at, reading, warming, converter, saved, height, watched,
                   ending, runs, found>>

\* The check thread kills the process: when it is stuck, or a transfer takes
\* too long.
Kill ==
    /\ ending = "no" /\ watched
    /\ ending' = "killed"
    /\ UNCHANGED <<at, reading, warming, converter, saved, height, watched,
                   shutdown, stuck, runs, found>>

RunAgain ==
    /\ ending # "no" /\ runs < MaxRuns
    /\ at' = "open" /\ reading' = FALSE /\ warming' = 6 /\ height' = 0
    /\ saved' = 0
    /\ watched' = FALSE /\ shutdown' = FALSE /\ stuck' = FALSE
    /\ ending' = "no" /\ runs' = runs + 1
    /\ \/ UNCHANGED converter
       \/ pointer' = "CONVERT" /\ config' = AtPowerOn
    /\ found' = config'

-----------------------------------------------------------------------------
Step ==
    \/ Open \/ Save \/ Configure \/ Warm \/ StartWatchdog \/ Loop
    \/ UpdateInLoop \/ Restore \/ Leave \/ Fails
Next == Step \/ Interrupt \/ Kill \/ RunAgain

Spec == Init /\ [][Next]_vars

-----------------------------------------------------------------------------
(* Properties.                                                             *)

\* No conversion, a negative one or none at all included, and no word of
\* another register takes the height below the ground or beyond the distance
\* of the smallest reading that makes sense (Infrared::update).
HeightInReach == height \in 0 .. Distance(MinReading)

\* Whenever the height is updated the converter measures the channel, gain
\* and rate that Infrared asked for, whatever an earlier run left there
\* (Infrared::Infrared, I2C::writeRegister).
OurChannel ==
    at \in {"warm", "start", "loop", "update"} =>
        256 * config[1] + config[2] = Wanted

\* When Infrared is gone, also through an exception, the converter has the
\* configuration that this run found, which need not be the one it got with
\* its power: an earlier run may have been killed (Infrared::~Infrared).
RestoresWhatItFound == at \in {"left", "thrown"} => config = found
=============================================================================
