------------------------------- MODULE Program -------------------------------
(***************************************************************************)
(* The program from its start to its end: main() of main.cpp and cdrone()  *)
(* of program/cdrone.cpp, with the threads they create and the objects     *)
(* those use.                                                              *)
(*                                                                         *)
(* main() reads the configuration, creates the watchdog library's thread   *)
(* and calls cdrone(), which builds its objects one by one, starts the     *)
(* update and the serve thread and joins them after SIGINT.  Any of these  *)
(* steps may fail, and an exception unwinds what has been built.           *)
(*                                                                         *)
(* Abstracted: a session is one state of the serve thread (Session has its *)
(* threads), a flight one of the update thread (FlightController); the     *)
(* watchdogs have no clock (Watchdog): a limit that check_thread has found *)
(* set may be exceeded, or seem so because it has been stopped meanwhile.  *)
(* A handler that interrupts a thread while it logs waits for the logger's *)
(* mutex, which that thread holds; nothing of what follows is modelled.    *)
(* The programs of program/test.cpp, and a failure to create a thread, are *)
(* not.                                                                    *)
(***************************************************************************)
EXTENDS JsonReader, Config

VARIABLES
    main,       \* where the main thread is
    thrown,     \* does a CDroneException unwind cdrone()?
    built,      \* the objects alive, in the order of construction
    config,     \* what the configuration says
    thread,     \* where each of the other threads is; "none", "ended"
    masked,     \* the threads that block SIGINT
    stopping,   \* the threads told to stop: m_shutdown and VRPN::m_stop
    limits,     \* the watchdogs with a limit
    looked,     \* history: has check_thread read a limit since the joins?
    handled,    \* is SIGINT handled?
    shutdown,   \* global::shutdown
    stuck,      \* the thread that waits in the handler, or "no"
    ending      \* "no", "returned", "aborted", "killed", "interrupted"

mainThread == <<main, thrown, built, config>>
threads == <<thread, masked, stopping, limits, looked>>
signals == <<handled, shutdown, stuck>>
vars == <<reader, mainThread, threads, signals, ending>>

Threads == {"check", "vrpn", "camera", "update", "serve"}

Init ==
    /\ ReaderInit
    /\ main = "config" /\ thrown = FALSE /\ built = <<>>
    /\ config = [port |-> DefaultPort, vrpn |-> FALSE]
    /\ thread = [t \in Threads |-> "none"]
    /\ masked = {} /\ stopping = {} /\ limits = {} /\ looked = FALSE
    /\ handled = FALSE /\ shutdown = FALSE /\ stuck = "no"
    /\ ending = "no"

Alive == ending = "no" /\ stuck = "no"
Started(t, where) == thread' = [thread EXCEPT ![t] = where]
Ended(t) == thread[t] \in {"none", "ended"}

-----------------------------------------------------------------------------
(* Up to cdrone().                                                         *)

\* "config_file >> m_root"; without the file there is nothing to read.
Reading ==
    /\ Alive /\ main = "config" /\ ReaderNext
    /\ UNCHANGED <<mainThread, threads, signals, ending>>
Missing ==
    /\ Alive /\ main = "config" /\ ReaderInit
    /\ ending' = "returned"
    /\ UNCHANGED <<reader, mainThread, threads, signals>>

\* The rest of Config's constructor; then the reader is gone.
Configure ==
    /\ Alive /\ main = "config" /\ at \in Final
    /\ LET c == IF at = "thrown" THEN ConfigException ELSE Configured(root)
       IN  /\ config' = [port |-> c.port, vrpn |-> c.vrpn]
           /\ \/ /\ c.result = "ok"
                 /\ main' = "signals" /\ UNCHANGED ending
              \/ /\ c.result = "ConfigException"
                 /\ ending' = "returned" /\ UNCHANGED main
              \/ /\ c.result = "LogicError"
                 /\ ending' = "aborted" /\ UNCHANGED main
    /\ fed' = <<>> /\ ended' = FALSE /\ ahead' = <<>>
    /\ at' = "value" /\ nodes' = <<Node>> /\ ok' = TRUE
    /\ commented' = FALSE /\ errors' = 0 /\ root' = NullValue
    /\ UNCHANGED <<thrown, built, threads, signals>>

\* A step of the main thread that leads to the next, having built something.
Build(here, objects, there) ==
    /\ Alive /\ main = here
    /\ built' = built \o objects
    /\ main' = there
    /\ UNCHANGED <<reader, thrown, config, ending>>

SetupSignals ==
    /\ Build("signals", <<>>, "library")
    /\ handled' = TRUE
    /\ UNCHANGED <<threads, shutdown, stuck>>

\* Watchdog::initialize(): the counts and limits, and the thread.
InitializeLibrary ==
    /\ Build("library", <<"counts">>, "dispatch")
    /\ Started("check", "loop")
    /\ UNCHANGED <<masked, stopping, limits, looked, signals>>

\* argv[1] may name a program there is not.
Dispatch ==
    /\ \/ Build("dispatch", <<>>, "watchdogs")
       \/ Build("dispatch", <<>>, "stopLibrary")
    /\ UNCHANGED <<threads, signals>>

-----------------------------------------------------------------------------
(* cdrone().                                                               *)

\* A CDroneException unwinds cdrone() and main(); any other ends the process.
Throw(here) ==
    /\ Alive /\ main = here
    /\ thrown' = TRUE /\ main' = "unwind"
    /\ UNCHANGED <<reader, built, config, threads, signals, ending>>
Abort(here) ==
    /\ Alive /\ main = here
    /\ ending' = "aborted"
    /\ UNCHANGED <<reader, mainThread, threads, signals>>

Watchdogs == <<"updateWatchdog", "ioWatchdog", "controllerWatchdog">>
BuildWatchdogs ==
    /\ Build("watchdogs", Watchdogs, "cores")
    /\ UNCHANGED <<threads, signals>>

\* Without four cores cdrone() returns.
CheckCores ==
    /\ \/ Build("cores", <<>>, "vrpn")
       \/ Build("cores", <<>>, "unwind")
    /\ UNCHANGED <<threads, signals>>

\* VRPN's constructor starts its thread; its logger may throw.
BuildVRPN ==
    \/ /\ config.vrpn
       /\ Build("vrpn", <<"vrpn">>, "flight")
       /\ Started("vrpn", "loop")
       /\ UNCHANGED <<masked, stopping, limits, looked, signals>>
    \/ /\ ~config.vrpn
       /\ Build("vrpn", <<>>, "flight")
       /\ UNCHANGED <<threads, signals>>
    \/ /\ config.vrpn
       /\ Abort("vrpn")

BuildFlightController ==
    \/ /\ Build("flight", <<"flight">>, "server")
       /\ UNCHANGED <<threads, signals>>
    \/ Throw("flight")

\* create_socket() makes a socket that listens, or throws.
BuildServer ==
    \/ /\ Build("server", <<"server">>, "camera")
       /\ UNCHANGED <<threads, signals>>
    \/ Throw("server")

\* The camera's callbacks come in threads of MMAL's.
BuildCamera ==
    \/ /\ Build("camera", <<"camera">>, "startCamera")
       /\ Started("camera", "loop")
       /\ UNCHANGED <<masked, stopping, limits, looked, signals>>
    \/ Throw("camera")

StartCamera ==
    \/ /\ Build("startCamera", <<>>, "block")
       /\ UNCHANGED <<threads, signals>>
    \/ Throw("startCamera")

\* pthread_block() and pthread_unblock(): a new thread has its creator's mask.
BlockedNot(set) == set
Blocked(set) == set \cup {"main"}
Inherit(t) == IF "main" \in masked THEN masked \cup {t} ELSE masked

BlockSIGINT ==
    /\ Build("block", <<>>, "startUpdate")
    /\ masked' = Blocked(masked)
    /\ UNCHANGED <<thread, stopping, limits, looked, signals>>
StartUpdate ==
    /\ Build("startUpdate", <<>>, "startServe")
    /\ Started("update", "start") /\ masked' = Inherit("update")
    /\ UNCHANGED <<stopping, limits, looked, signals>>
StartServe ==
    /\ Build("startServe", <<>>, "unblock")
    /\ Started("serve", "loop") /\ masked' = Inherit("serve")
    /\ UNCHANGED <<stopping, limits, looked, signals>>
UnblockSIGINT ==
    /\ Build("unblock", <<>>, "joinUpdate")
    /\ masked' = masked \ {"main"}
    /\ UNCHANGED <<thread, stopping, limits, looked, signals>>

JoinUpdate ==
    /\ thread["update"] = "ended"
    /\ Build("joinUpdate", <<>>, "joinServe")
    /\ UNCHANGED <<threads, signals>>
JoinServe ==
    /\ thread["serve"] = "ended"
    /\ Build("joinServe", <<>>, "stopCamera")
    /\ UNCHANGED <<threads, signals>>

StopCamera ==
    \/ /\ Build("stopCamera", <<>>, "unwind")
       /\ UNCHANGED <<threads, signals>>
    \/ Throw("stopCamera")
-----------------------------------------------------------------------------
(* The end.                                                                *)

\* The destructors, in the reverse order: ~Camera ends its callbacks, ~VRPN
\* tells its thread to stop and joins it.
Local == {"vrpn", "flight", "server", "camera"} \cup ToSet(Watchdogs)
StopsVRPNNot(set) == set
StopsVRPN(set) == set \cup {"vrpn"}
TellVRPN ==
    /\ Alive /\ main = "unwind" /\ Last(built) = "vrpn"
    /\ "vrpn" \notin stopping
    /\ main' = "joinVRPN"
    /\ stopping' = StopsVRPN(stopping)
    /\ UNCHANGED <<reader, thrown, built, config, thread, masked, limits,
                   looked, signals, ending>>
JoinVRPN ==
    /\ Alive /\ main = "joinVRPN" /\ thread["vrpn"] = "ended"
    /\ built' = Front(built) /\ main' = "unwind"
    /\ UNCHANGED <<reader, thrown, config, threads, signals, ending>>
Destroy ==
    /\ Alive /\ main = "unwind"
    /\ Last(built) \in Local \ {"vrpn"}
    /\ built' = Front(built)
    /\ IF Last(built) = "camera" THEN Started("camera", "ended")
       ELSE UNCHANGED thread
    /\ UNCHANGED <<reader, main, thrown, config, masked, stopping, limits,
                   looked, signals, ending>>

\* cdrone() is left.  After an exception main() returns 1, but the thread of
\* the watchdog library has not been joined, and its destructor ends the
\* process.
Leave ==
    /\ Alive /\ main = "unwind" /\ built = <<"counts">>
    /\ \/ /\ thrown
          /\ ending' = "aborted" /\ UNCHANGED main
       \/ /\ ~thrown
          /\ main' = "stopLibrary" /\ UNCHANGED ending
    /\ UNCHANGED <<reader, thrown, built, config, threads, signals>>

\* Watchdog::destroy(): the thread is told, joined, and then what it uses is
\* deleted.
DeleteFirst(objects) == <<>>
DeleteLater(objects) == objects
StopLibrary ==
    /\ Alive /\ main = "stopLibrary"
    /\ stopping' = stopping \cup {"check"}
    /\ built' = DeleteLater(built)
    /\ main' = "joinCheck"
    /\ UNCHANGED <<reader, thrown, config, thread, masked, limits, looked,
                   signals, ending>>
JoinCheck ==
    /\ Alive /\ main = "joinCheck" /\ thread["check"] = "ended"
    /\ built' = <<>>
    /\ ending' = "returned"
    /\ UNCHANGED <<reader, main, thrown, config, threads, signals>>

-----------------------------------------------------------------------------
(* The other threads.                                                      *)

Thread(t, here) ==
    /\ Alive /\ thread[t] = here
    /\ UNCHANGED <<reader, mainThread, masked, stopping, looked, signals>>

\* Where main() is once both threads have been joined, or never started.
AfterJoins == {"stopCamera", "unwind", "joinVRPN", "stopLibrary", "joinCheck"}

\* check_thread() ends when it is told to, or sleeps and then looks at the
\* limits one by one; those of the other places are never set.
Looks == {"update", "io"}
FoundSet == [update |-> "updateSet", io |-> "ioSet"]
After == [update |-> "io", io |-> "loop"]
Check ==
    /\ Thread("check", "loop")
    /\ Started("check", IF "check" \in stopping THEN "ended" ELSE "update")
    /\ UNCHANGED <<limits, ending>>
Look(w) ==
    /\ Alive /\ thread["check"] = w
    /\ Started("check", IF w \in limits THEN FoundSet[w] ELSE After[w])
    /\ looked' = (looked \/ main \in AfterJoins)
    /\ UNCHANGED <<reader, mainThread, masked, stopping, limits, signals,
                   ending>>

\* It compares a limit that it has found set with its count, and goes on to
\* the next, or writes to cerr and kills the process.  The watchdog may have
\* been stopped since: the limit is loaded again, as zero, or is not.
Spare(w) ==
    /\ Thread("check", FoundSet[w])
    /\ Started("check", After[w])
    /\ UNCHANGED <<limits, ending>>
Kill ==
    /\ \E w \in Looks : Thread("check", FoundSet[w])
    /\ ending' = "killed"
    /\ UNCHANGED <<thread, limits>>

CheckThread == Check \/ (\E w \in Looks : Look(w) \/ Spare(w)) \/ Kill

\* VRPN::do_main() runs mainloop() until it is told to stop.
TrackVRPN ==
    /\ Thread("vrpn", "loop") /\ "vrpn" \in stopping
    /\ Started("vrpn", "ended")
    /\ UNCHANGED <<limits, ending>>

\* do_update().
StartedWatchdog(w) == limits' = limits \cup {w}
StoppedWatchdog(w) == limits' = limits \ {w}
UpdateEndsWatched == UNCHANGED limits
UpdateEnds == StoppedWatchdog("update")
Update ==
    \/ /\ Thread("update", "start")
       /\ StartedWatchdog("update") /\ Started("update", "loop")
       /\ UNCHANGED ending
    \/ /\ Thread("update", "loop") /\ shutdown
       /\ UpdateEnds /\ Started("update", "ended")
       /\ UNCHANGED ending

\* do_serve().
Serve ==
    \/ /\ Thread("serve", "loop")
       /\ \/ /\ shutdown
             /\ Started("serve", "ended") /\ UNCHANGED limits
          \/ /\ ~shutdown
             /\ Started("serve", "accept") /\ StoppedWatchdog("io")
       /\ UNCHANGED ending
    \/ /\ Thread("serve", "accept")
       /\ \/ Started("serve", "loop")
          \/ Started("serve", "session")
       /\ UNCHANGED <<limits, ending>>

\* What nobody catches in a thread ends the process: the logger of the
\* callback, the serial line and an unknown mode, and a client's socket whose
\* timeout cannot be set.
Crash ==
    /\ \/ Thread("vrpn", "loop")
       \/ Thread("update", "loop")
       \/ Thread("serve", "accept")
    /\ ending' = "aborted"
    /\ UNCHANGED <<thread, limits>>

\* The receive thread starts the io watchdog after the first message, and
\* stops it when it ends; it ends at shutdown, since its reads time out.
SessionFlies ==
    /\ Thread("serve", "session") /\ ~shutdown
    /\ StartedWatchdog("io")
    /\ UNCHANGED <<thread, ending>>
SessionEnds ==
    /\ Thread("serve", "session")
    /\ StoppedWatchdog("io") /\ Started("serve", "loop")
    /\ UNCHANGED ending

-----------------------------------------------------------------------------
(* SIGINT.                                                                 *)

\* Where the main thread logs.
MainLogs == {"library", "dispatch", "watchdogs", "cores", "flight", "server",
             "camera", "startCamera", "block", "joinServe", "stopCamera",
             "stopLibrary", "joinCheck"}
Logging(t) == CASE t = "main" -> main \in MainLogs
                [] t \in {"camera", "update", "serve"} ->
                       thread[t] \notin {"none", "ended"}
                [] t \in {"check", "vrpn"} -> FALSE
Running == {"main"} \cup {t \in Threads : ~Ended(t)}

Interrupt ==
    /\ Alive
    /\ \/ /\ ~handled
          /\ ending' = "interrupted"
          /\ UNCHANGED <<shutdown, stuck>>
       \/ /\ handled
          /\ shutdown' = TRUE
          /\ \E t \in Running \ masked :
                stuck' \in {"no"} \cup (IF Logging(t) THEN {t} ELSE {})
          /\ UNCHANGED ending
    /\ UNCHANGED <<reader, mainThread, threads, handled>>

-----------------------------------------------------------------------------
Load == Reading \/ Missing \/ Configure
MainNext ==
    \/ SetupSignals \/ InitializeLibrary \/ Dispatch \/ BuildWatchdogs
    \/ CheckCores \/ BuildVRPN \/ BuildFlightController \/ BuildServer
    \/ BuildCamera \/ StartCamera \/ BlockSIGINT \/ StartUpdate \/ StartServe
    \/ UnblockSIGINT \/ JoinUpdate \/ JoinServe \/ StopCamera
    \/ TellVRPN \/ JoinVRPN \/ Destroy \/ Leave \/ StopLibrary \/ JoinCheck

Next ==
    \/ Load \/ MainNext
    \/ CheckThread \/ TrackVRPN
    \/ Update \/ Serve \/ SessionFlies \/ SessionEnds
    \/ Crash \/ Interrupt

\* Every thread is scheduled; mainloop() returns, and a session ends.  Nothing
\* has to fail, or to happen before SIGINT is handled.
Fairness ==
    /\ WF_vars(MainNext) /\ WF_vars(CheckThread) /\ WF_vars(TrackVRPN)
    /\ WF_vars(Update) /\ WF_vars(Serve) /\ WF_vars(SessionEnds)

Spec == Init /\ [][Next]_vars /\ Fairness

-----------------------------------------------------------------------------
(* Properties.                                                             *)

\* What a thread uses is alive as long as the thread runs, however far
\* cdrone() got and whatever failed (the order of construction in cdrone(),
\* the joins, ~VRPN, Watchdog::destroy).
Uses ==
    [check |-> {"counts"},
     vrpn |-> {"vrpn"},
     camera |-> {"camera"},
     update |-> {"counts", "updateWatchdog", "flight"},
     serve |-> {"counts", "ioWatchdog", "server", "flight", "camera"}]
NobodyUsesTheDead ==
    ending = "no" =>
        \A t \in Threads : ~Ended(t) => Uses[t] \subseteq ToSet(built)

\* Once both threads have been joined, the first limit that check_thread looks
\* at is the end of the danger: it finds none set there or later, however long
\* the camera and the logs take.  Until then it may still kill the program, by
\* a limit it had found set before (do_update, do_recv, check_thread).
OnlyAnEarlierLimitKills == looked => ending # "killed"

\* After SIGINT the program ends, unless the handler came while the main
\* thread or a callback of the camera's was logging: the threads that fly
\* are never interrupted by it (shutdown_handler, pthread_block, ~VRPN, the
\* loops on global::shutdown).
Interruptible ==
    shutdown ~> (ending # "no" \/ stuck \in {"main", "camera"})
=============================================================================
