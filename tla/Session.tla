------------------------------- MODULE Session -------------------------------
(***************************************************************************)
(* The base station's sessions with the drone: do_serve, do_recv and       *)
(* do_send of program/cdrone.cpp over wire/IO.cpp and wire/Server.cpp.     *)
(*                                                                         *)
(* The serve thread accepts one client at a time, starts a receive and a   *)
(* send thread for it and joins both.  The receive thread applies the      *)
(* client's updates to the flight controller under the io watchdog; the    *)
(* send thread sends observations.  The two share the IO object, whose     *)
(* m_connected one of them clears when the socket fails.                   *)
(*                                                                         *)
(* Abstracted: an operation of the flight controller is one step here      *)
(* (FlightController has its accesses); of the updater thread only the     *)
(* TakeOff branch is left, since it alone stores a mode; setpoints and     *)
(* observations have no value; the io watchdog is only running or stopped, *)
(* and check_thread, once it has found it running, may kill the process    *)
(* (Watchdog has its clock); no thread takes a step after that.            *)
(* Clients, the sockets and the signal are external.                       *)
(***************************************************************************)
EXTENDS FlightOperations, Integers, Sequences

CONSTANTS
    Clients,    \* base stations
    NoClient,   \* none of them
    Updates,    \* the updates a client may send
    InFlight,   \* bound: updates in a socket
    Window      \* observations a socket holds before a write blocks

\* An update names an operation and a command; the heartbeat names neither
\* and is a message of length zero on the wire.
Messages == [mode : (Operations \ {"calibrate"}) \cup {"NO_MODE"},
             command : {"NO_COMMAND", "DISCONNECT"}]
Empty == [mode |-> "NO_MODE", command |-> "NO_COMMAND"]

ASSUME ClientsAssumption == NoClient \notin Clients
ASSUME UpdatesAssumption == Updates \subseteq Messages
ASSUME InFlightAssumption == InFlight \in Nat \ {0}
ASSUME WindowAssumption == Window \in Nat \ {0}

VARIABLES
    shutdown,   \* global::shutdown
    check,      \* check_thread: "looks" at the limit, "found" it set, or has
                \*   "killed" the process
    serve,      \* where the serve thread is,
    recv,       \*   the receive thread ("none" when there is none),
    send,       \*   and the send thread
    conn,       \* the client of the current session
    connected,  \* IO::m_connected of that session
    update,     \* the receive thread's update
    running,    \* is the io watchdog's limit set?
    mode,       \* FlightController::m_mode
    armed,      \* Skyline::m_armed
    updater,    \* the updater thread: "idle", or "store" in its TakeOff case
    backlog,    \* the clients that wait for accept()
    link,       \* link[c]: "off", "open", or by c "closed" or "reset"
    refused,    \* refused[c]: has c's end answered a write with a reset?
    inbox,      \* inbox[c]: updates on their way to the drone
    outbox,     \* outbox[c]: observations c has not read yet
    last        \* history: the message the receive thread read last

threads == <<serve, recv, send, conn, connected, update>>
flight == <<mode, armed, updater>>
sockets == <<backlog, link, refused, inbox, outbox>>
killed == check = "killed"
vars == <<shutdown, check, threads, running, flight, sockets, last>>

Init ==
    /\ shutdown = FALSE /\ check = "looks"
    /\ serve = "loop" /\ recv = "none" /\ send = "none"
    /\ conn = NoClient /\ connected = FALSE /\ update = Empty
    /\ running = FALSE
    /\ mode = "Disarmed" /\ armed = FALSE /\ updater = "idle"
    /\ backlog = {} /\ link = [c \in Clients |-> "off"]
    /\ refused = [c \in Clients |-> FALSE]
    /\ inbox = [c \in Clients |-> <<>>]
    /\ outbox = [c \in Clients |-> 0]
    /\ last = Empty

-----------------------------------------------------------------------------
(* The serve thread.                                                       *)

\* while (!global::shutdown) { watchdog.stop(); ...
ServeLoop ==
    /\ ~killed /\ serve = "loop"
    /\ \/ /\ shutdown
          /\ serve' = "ended"
          /\ UNCHANGED running
       \/ /\ ~shutdown
          /\ serve' = "accept"
          /\ running' = FALSE
    /\ UNCHANGED <<shutdown, check, recv, send, conn, connected, update,
                   flight, sockets, last>>

\* accept() finds a client in the backlog, and both threads start ...
Accept(c) ==
    /\ ~killed /\ serve = "accept" /\ c \in backlog
    /\ backlog' = backlog \ {c}
    /\ conn' = c /\ connected' = TRUE /\ update' = Empty
    /\ serve' = "joinRecv" /\ recv' = "first" /\ send' = "loop"
    /\ UNCHANGED <<shutdown, check, running, flight, link, refused, inbox,
                   outbox, last>>

\* ... or throws, and the serve thread sleeps for 50 ms.
AcceptNone ==
    /\ ~killed /\ serve = "accept" /\ backlog = {}
    /\ serve' = "loop"
    /\ UNCHANGED <<shutdown, check, recv, send, conn, connected, update,
                   running, flight, sockets, last>>

\* recv_thr.join() ...
JoinRecv ==
    /\ ~killed /\ serve = "joinRecv" /\ recv = "done"
    /\ serve' = "joinSend"
    /\ UNCHANGED <<shutdown, check, recv, send, conn, connected, update,
                   running, flight, sockets, last>>

\* ... and send_thr.join().  The socket is not closed, but nobody reads or
\* writes it again: what is left in it is dropped here.
JoinSend ==
    /\ ~killed /\ serve = "joinSend" /\ send = "done"
    /\ serve' = "loop" /\ recv' = "none" /\ send' = "none"
    /\ conn' = NoClient /\ connected' = FALSE
    /\ inbox' = [inbox EXCEPT ![conn] = <<>>]
    /\ refused' = [refused EXCEPT ![conn] = FALSE]
    /\ UNCHANGED <<shutdown, check, update, running, flight, backlog, link,
                   outbox, last>>

-----------------------------------------------------------------------------
(* The receive thread.                                                     *)

\* update.Clear() before each wait: a message of length zero is not parsed,
\* so it leaves in update what is there.
ClearedNot == update
Cleared == Empty

\* while (!io->recvMessage(update) && !global::shutdown) {}: a message is
\* there; the loop also ends without one at shutdown.  An end of file is
\* never a message: recvMessage returns false.
Received ==
    \/ /\ connected /\ inbox[conn] # <<>>
       /\ last' = Head(inbox[conn])
       /\ update' = IF last' = Empty THEN Cleared ELSE last'
       /\ inbox' = [inbox EXCEPT ![conn] = Tail(@)]
    \/ /\ connected /\ shutdown
       /\ update' = Cleared
       /\ UNCHANGED <<inbox, last>>

\* recvMessage throws: disconnected, or the read itself fails, or a message
\* that is there does not parse.  After an end of file reads return zero,
\* whatever comes later.
ReceiveThrows ==
    /\ \/ /\ ~connected \/ link[conn] = "reset"
          /\ UNCHANGED inbox
       \/ /\ connected /\ inbox[conn] # <<>> /\ Head(inbox[conn]) # Empty
          /\ inbox' = [inbox EXCEPT ![conn] = Tail(@)]
    /\ connected' = FALSE

\* The first message, before the watchdog starts.
First ==
    /\ ~killed /\ recv = "first"
    /\ \/ Received /\ recv' = "start" /\ UNCHANGED connected
       \/ ReceiveThrows /\ recv' = "done" /\ UNCHANGED <<update, last>>
    /\ UNCHANGED <<shutdown, check, serve, send, conn, running, flight,
                   backlog, link, refused, outbox>>

StartWatchdog ==
    /\ ~killed /\ recv = "start"
    /\ running' = TRUE
    /\ recv' = "loop"
    /\ UNCHANGED <<shutdown, check, serve, send, conn, connected, update,
                   flight, sockets, last>>

\* while (!global::shutdown)
StopsLoopNever == FALSE
StopsLoop == shutdown

Loop ==
    /\ ~killed /\ recv = "loop"
    /\ recv' = IF StopsLoop THEN "stop" ELSE "mode"
    /\ UNCHANGED <<shutdown, check, serve, send, conn, connected, update,
                   running, flight, sockets, last>>

\* An operation of the flight controller, in one step.
Operate(o) ==
    /\ mode' = IF mode \in From[o] THEN Target[o] ELSE mode
    /\ armed' = CASE o = "arm" -> armed \/ mode \in From[o]
                  [] o = "disarm" -> FALSE
                  [] OTHER -> armed

\* switch (update.mode()); TOUCHDOWN, CALIBRATE and other modes have no case.
ApplyMode ==
    /\ ~killed /\ recv = "mode"
    /\ IF update.mode = "NO_MODE" THEN UNCHANGED <<mode, armed>>
                                  ELSE Operate(update.mode)
    /\ recv' = "command"
    /\ UNCHANGED <<shutdown, check, serve, send, conn, connected, update,
                   running, updater, sockets, last>>

\* What ends a session, at DISCONNECT and when recvMessage throws.
LeaveArmed == UNCHANGED <<mode, armed>>
Leave == Operate("disarm")

\* switch (update.command()), and the setpoints.
ApplyCommand ==
    /\ ~killed /\ recv = "command"
    /\ IF update.command = "DISCONNECT"
       THEN Leave /\ recv' = "stop"
       ELSE recv' = "wait" /\ UNCHANGED <<mode, armed>>
    /\ UNCHANGED <<shutdown, check, serve, send, conn, connected, update,
                   running, updater, sockets, last>>

\* Another message.
Wait ==
    /\ ~killed /\ recv = "wait"
    /\ \/ Received /\ recv' = "loop" /\ UNCHANGED <<mode, armed, connected>>
       \/ /\ ReceiveThrows
          /\ Leave
          /\ recv' = "stop"
          /\ UNCHANGED <<update, last>>
    /\ UNCHANGED <<shutdown, check, serve, send, conn, running, updater,
                   backlog, link, refused, outbox>>

\* watchdog.stop() on every way out of the loop; update goes out of scope.
StopForgotten == running
Stopped == FALSE

StopWatchdog ==
    /\ ~killed /\ recv = "stop"
    /\ running' = Stopped
    /\ recv' = "done"
    /\ update' = Empty /\ last' = Empty
    /\ UNCHANGED <<shutdown, check, serve, send, conn, connected, flight,
                   sockets>>

-----------------------------------------------------------------------------
(* The send thread.                                                        *)

\* What sendMessage leaves in m_connected when a write fails.
StaysConnected == TRUE
Disconnected == FALSE

\* A round of do_send.  sendMessage throws, or its write fails ...
SendFails ==
    /\ ~killed /\ send = "loop" /\ ~shutdown
    /\ \/ ~connected /\ UNCHANGED connected
       \/ /\ connected /\ (refused[conn] \/ link[conn] = "reset")
          /\ connected' = Disconnected
    /\ send' = "done"
    /\ UNCHANGED <<shutdown, check, serve, recv, conn, update, running,
                   flight, sockets, last>>

\* ... or it writes.  The first write to a closed socket succeeds, and is
\* answered with a reset.
SendBegins ==
    /\ ~killed /\ send = "loop" /\ ~shutdown
    /\ connected /\ ~refused[conn] /\ link[conn] # "reset"
    /\ send' = "write"
    /\ UNCHANGED <<shutdown, check, serve, recv, conn, connected, update,
                   running, flight, sockets, last>>

\* A write to a full socket blocks.
SendWrites ==
    /\ ~killed /\ send = "write"
    /\ \/ /\ link[conn] = "open" /\ outbox[conn] < Window
          /\ outbox' = [outbox EXCEPT ![conn] = @ + 1]
          /\ UNCHANGED <<refused, connected>>
          /\ send' = "loop"
       \/ /\ link[conn] = "closed"
          /\ refused' = [refused EXCEPT ![conn] = TRUE]
          /\ UNCHANGED <<outbox, connected>>
          /\ send' = "loop"
       \/ /\ link[conn] = "reset"
          /\ connected' = Disconnected
          /\ UNCHANGED <<outbox, refused>>
          /\ send' = "done"
    /\ UNCHANGED <<shutdown, check, serve, recv, conn, update, running,
                   flight, backlog, link, inbox, last>>

\* while (!global::shutdown)
SendEnds ==
    /\ ~killed /\ send = "loop" /\ shutdown
    /\ send' = "done"
    /\ UNCHANGED <<shutdown, check, serve, recv, conn, connected, update,
                   running, flight, sockets, last>>

-----------------------------------------------------------------------------
(* The updater thread's TakeOff case: velocityControl() loads the mode and  *)
(* stores VelocityControl in a later step.                                  *)

UpdaterLoad ==
    /\ ~killed /\ updater = "idle" /\ mode = "TakeOff" /\ ~shutdown
    /\ updater' = "store"
    /\ UNCHANGED <<shutdown, check, threads, running, mode, armed, sockets,
                   last>>

TakeOffTarget == Target.velocityControl

UpdaterStore ==
    /\ ~killed /\ updater = "store"
    /\ mode' = TakeOffTarget
    /\ updater' = "idle"
    /\ UNCHANGED <<shutdown, check, threads, running, armed, sockets, last>>

-----------------------------------------------------------------------------
(* The environment.                                                        *)

\* A client connects, for the first time or after its last session is over.
Connect(c) ==
    /\ ~killed /\ link[c] # "open" /\ c \notin backlog /\ conn # c
    /\ link' = [link EXCEPT ![c] = "open"]
    /\ backlog' = backlog \cup {c}
    /\ UNCHANGED <<shutdown, check, threads, running, flight, refused, inbox,
                   outbox, last>>

\* Updates sent from the backlog are sent on accept, which nobody can tell.
ClientSends(c) ==
    /\ ~killed /\ conn = c /\ link[c] = "open" /\ Len(inbox[c]) < InFlight
    /\ \E m \in Updates : inbox' = [inbox EXCEPT ![c] = Append(@, m)]
    /\ UNCHANGED <<shutdown, check, threads, running, flight, backlog, link,
                   refused, outbox, last>>

ClientReads(c) ==
    /\ ~killed /\ link[c] = "open" /\ outbox[c] > 0
    /\ outbox' = [outbox EXCEPT ![c] = @ - 1]
    /\ UNCHANGED <<shutdown, check, threads, running, flight, backlog, link,
                   refused, inbox, last>>

\* The client closes; if it has not read everything this is a reset.
ClientCloses(c) ==
    /\ ~killed /\ link[c] = "open"
    /\ link' = [link EXCEPT ![c] = IF outbox[c] > 0 THEN "reset" ELSE "closed"]
    /\ outbox' = [outbox EXCEPT ![c] = 0]
    /\ UNCHANGED <<shutdown, check, threads, running, flight, backlog,
                   refused, inbox, last>>

\* SIGINT.
Interrupt ==
    /\ ~killed /\ ~shutdown
    /\ shutdown' = TRUE
    /\ UNCHANGED <<check, threads, running, flight, sockets, last>>

\* check_thread finds the limit of the io watchdog set, and compares it: it
\* goes on or kills, even if the watchdog has been stopped meanwhile.
CheckThread ==
    /\ \/ check = "looks" /\ running /\ check' = "found"
       \/ check = "found" /\ check' \in {"looks", "killed"}
    /\ UNCHANGED <<shutdown, threads, running, flight, sockets, last>>

-----------------------------------------------------------------------------
Serve == ServeLoop \/ (\E c \in Clients : Accept(c)) \/ AcceptNone
         \/ JoinRecv \/ JoinSend

Recv == First \/ StartWatchdog \/ Loop \/ ApplyMode \/ ApplyCommand \/ Wait
        \/ StopWatchdog

Send == SendFails \/ SendBegins \/ SendWrites \/ SendEnds

Updater == UpdaterLoad \/ UpdaterStore

Client(c) == Connect(c) \/ ClientSends(c) \/ ClientReads(c) \/ ClientCloses(c)

Next ==
    \/ Serve \/ Recv \/ Send \/ Updater
    \/ \E c \in Clients : Client(c)
    \/ Interrupt \/ CheckThread

Spec == Init /\ [][Next]_vars

(* Every thread of the drone keeps running, none of them waits for a lock; a *)
(* client reads what it is sent (the receive goroutine of gobase) until it   *)
(* closes.  Nothing is assumed of connecting, sending, closing, or SIGINT.   *)
Fairness ==
    /\ WF_vars(Serve) /\ WF_vars(Recv) /\ WF_vars(Send) /\ WF_vars(Updater)
    /\ \A c \in Clients : WF_vars(ClientReads(c))

FairSpec == Spec /\ Fairness

-----------------------------------------------------------------------------
(* Properties.                                                             *)

InSession == {"loop", "mode", "command", "wait", "stop"}

TypeOK ==
    /\ shutdown \in BOOLEAN /\ check \in {"looks", "found", "killed"}
    /\ serve \in {"loop", "accept", "joinRecv", "joinSend", "ended"}
    /\ recv \in {"none", "first", "start", "done"} \cup InSession
    /\ send \in {"none", "loop", "write", "done"}
    /\ conn \in Clients \cup {NoClient} /\ connected \in BOOLEAN
    /\ update \in Messages /\ last \in Messages
    /\ running \in BOOLEAN
    /\ mode \in Modes /\ armed \in BOOLEAN /\ updater \in {"idle", "store"}
    /\ backlog \subseteq Clients
    /\ link \in [Clients -> {"off", "open", "closed", "reset"}]
    /\ refused \in [Clients -> BOOLEAN]
    /\ inbox \in [Clients -> Seq(Messages)]
    /\ outbox \in [Clients -> 0 .. Window]

\* Outside a session the arm switch is off: whichever way do_recv returned,
\* nobody flies a drone that nobody controls (except at shutdown, which ends
\* the loop without a disarm).
UnarmedBetweenSessions ==
    recv \notin InSession \ {"stop"} /\ ~shutdown => ~armed

\* The io watchdog runs only while do_recv is in its loop, so that a drone
\* waiting for a client, or for its first message, is not watched.
WatchdogOnlyInSession == running => recv \in InSession

\* do_recv applies the last message the client sent and no other: the
\* heartbeat, of length zero, does not apply the one before it again.
AppliesLastMessage == recv \in {"mode", "command"} => update = last

\* A client that is gone does not hold the drone: the session ends (do_send
\* notices, for recvMessage takes the end of file for silence), unless the
\* watchdog or a signal ends the process.
GoneClientIsLeft ==
    \A c \in Clients :
        conn = c /\ link[c] # "open" ~> conn # c \/ killed \/ serve = "ended"

\* SIGINT ends both session threads and the serve thread, so main's join
\* returns, whatever the session was doing.
ShutdownEnds == shutdown ~> serve = "ended" \/ killed
=============================================================================
