---------------------------- MODULE SessionProofs ----------------------------
(***************************************************************************)
(* Theorems about Session, for every set of clients and of updates, and    *)
(* every size of the sockets.                                              *)
(***************************************************************************)
EXTENDS Session, TLAPS

USE ClientsAssumption, UpdatesAssumption, InFlightAssumption, WindowAssumption

Away == {"loop", "accept", "ended"}

\* The serve thread has session threads, and a client, exactly while it
\* waits to join them.
Joined ==
    /\ recv = "none" <=> serve \in Away
    /\ send = "none" <=> serve \in Away
    /\ conn = NoClient <=> serve \in Away

Typed == TypeOK /\ Joined

\* The heartbeat is a message.
LEMMA EmptyType == Empty \in Messages
  BY DEF Empty, Messages, Operations

\* An update names a mode that do_recv has a case for, or none.
LEMMA MessageType ==
  ASSUME NEW m \in Messages, m.mode # "NO_MODE"
  PROVE  m.mode \in Operations \ {"calibrate"}
  BY DEF Messages

\* The head and the tail of a socket with updates in it.
LEMMA Dequeue ==
  ASSUME NEW s \in Seq(Messages), s # <<>>
  PROVE  Head(s) \in Messages /\ Tail(s) \in Seq(Messages)
  OBVIOUS

\* An operation leaves a mode and a switch.
LEMMA OperateTyped ==
  ASSUME NEW o \in Operations, TypeOK, Operate(o)
  PROVE  mode' \in Modes /\ armed' \in BOOLEAN
<1>1. mode \in Modes /\ Target[o] \in Modes /\ armed \in BOOLEAN
  BY DEF TypeOK, Target, Operations, Modes
<1>2. QED
  BY <1>1 DEF Operate

\* The initial state is typed.
LEMMA InitTyped == Init => Typed
<1>1. << >> \in Seq(Messages)
  OBVIOUS
<1>2. ASSUME Init PROVE TypeOK
  <2>1. /\ inbox \in [Clients -> Seq(Messages)]
        /\ outbox \in [Clients -> 0 .. Window]
    BY <1>1, <1>2 DEF Init
  <2>2. /\ link \in [Clients -> {"off", "open", "closed", "reset"}]
        /\ refused \in [Clients -> BOOLEAN]
    BY <1>2 DEF Init
  <2>3. QED
    BY <1>2, <2>1, <2>2, EmptyType DEF Init, TypeOK, Modes, InSession
<1>3. ASSUME Init PROVE Joined
  BY <1>3 DEF Init, Joined, Away
<1>4. QED
  BY <1>2, <1>3 DEF Typed

\* The serve thread keeps the types.
LEMMA ServeTyped == Typed /\ Serve => Typed'
<1> SUFFICES ASSUME Typed, Serve PROVE Typed'
  OBVIOUS
<1> USE DEF Typed, Joined, Away
<1>1. CASE ServeLoop
  BY <1>1 DEF ServeLoop, TypeOK, flight, sockets
<1>2. ASSUME NEW c \in Clients, Accept(c) PROVE Typed'
  BY <1>2, EmptyType DEF Accept, TypeOK, flight, sockets
<1>3. CASE AcceptNone
  BY <1>3 DEF AcceptNone, TypeOK, flight, sockets
<1>4. CASE JoinRecv
  BY <1>4 DEF JoinRecv, TypeOK, flight, sockets
<1>5. CASE JoinSend
  <2>1. conn \in Clients
    BY <1>5 DEF JoinSend, TypeOK
  <2>2. << >> \in Seq(Messages)
    OBVIOUS
  <2>3. QED
    BY <1>5, <2>1, <2>2 DEF JoinSend, TypeOK, flight, sockets
<1>6. QED
  BY <1>1, <1>2, <1>3, <1>4, <1>5 DEF Serve

\* A message received, or none at shutdown, keeps the types.
LEMMA ReceivedTyped ==
  ASSUME TypeOK, conn \in Clients, Received
  PROVE  /\ update' \in Messages /\ last' \in Messages
         /\ inbox' \in [Clients -> Seq(Messages)]
<1>1. CASE inbox[conn] # <<>> /\ last' = Head(inbox[conn])
           /\ update' = (IF last' = Empty THEN Cleared ELSE last')
           /\ inbox' = [inbox EXCEPT ![conn] = Tail(@)]
  <2>1. Head(inbox[conn]) \in Messages /\ Tail(inbox[conn]) \in Seq(Messages)
    BY <1>1, Dequeue DEF TypeOK
  <2>2. QED
    BY <1>1, <2>1, EmptyType DEF TypeOK, Cleared
<1>2. CASE update' = Cleared /\ UNCHANGED <<inbox, last>>
  BY <1>2, EmptyType DEF TypeOK, Cleared
<1>3. QED
  BY <1>1, <1>2 DEF Received

\* An exception disconnects, and may have taken a message.
LEMMA ThrowsTyped ==
  ASSUME TypeOK, conn \in Clients, ReceiveThrows
  PROVE  connected' = FALSE /\ inbox' \in [Clients -> Seq(Messages)]
<1>1. CASE UNCHANGED inbox
  BY <1>1 DEF ReceiveThrows, TypeOK
<1>2. CASE inbox[conn] # <<>> /\ inbox' = [inbox EXCEPT ![conn] = Tail(@)]
  BY <1>2, Dequeue DEF ReceiveThrows, TypeOK
<1>3. QED
  BY <1>1, <1>2 DEF ReceiveThrows

\* The receive thread keeps the types.
LEMMA RecvTyped == Typed /\ Recv => Typed'
<1> SUFFICES ASSUME Typed, Recv PROVE Typed'
  OBVIOUS
<1>a. recv # "none"
  BY DEF Recv, First, StartWatchdog, Loop, ApplyMode, ApplyCommand, Wait,
         StopWatchdog
<1>b. conn \in Clients
  BY <1>a DEF Typed, Joined, TypeOK
<1>c. "disarm" \in Operations
  BY DEF Operations
<1> USE DEF Typed, Joined, Away, InSession
<1>1. CASE First
  <2>1. CASE Received /\ recv' = "start" /\ UNCHANGED connected
    BY <1>1, <2>1, <1>b, ReceivedTyped DEF First, TypeOK, flight
  <2>2. CASE /\ ReceiveThrows /\ recv' = "done"
             /\ UNCHANGED <<update, last>>
    BY <1>1, <2>2, <1>b, ThrowsTyped DEF First, TypeOK, flight
  <2>3. QED
    BY <1>1, <2>1, <2>2 DEF First
<1>2. CASE StartWatchdog
  BY <1>2 DEF StartWatchdog, TypeOK, flight, sockets
<1>3. CASE Loop
  BY <1>3 DEF Loop, StopsLoop, TypeOK, flight, sockets
<1>4. CASE ApplyMode
  <2>1. mode' \in Modes /\ armed' \in BOOLEAN
    <3>1. CASE update.mode = "NO_MODE"
      BY <1>4, <3>1 DEF ApplyMode, TypeOK
    <3>2. CASE update.mode # "NO_MODE"
      BY <1>4, <3>2, MessageType, OperateTyped DEF ApplyMode, TypeOK
    <3>3. QED
      BY <3>1, <3>2
  <2>2. QED
    BY <1>4, <2>1 DEF ApplyMode, TypeOK, sockets
<1>5. CASE ApplyCommand
  <2>1. mode' \in Modes /\ armed' \in BOOLEAN
    BY <1>5, <1>c, OperateTyped DEF ApplyCommand, Leave, TypeOK
  <2>2. QED
    BY <1>5, <2>1 DEF ApplyCommand, TypeOK, sockets
<1>6. CASE Wait
  <2>1. CASE Received /\ recv' = "loop" /\ UNCHANGED <<mode, armed, connected>>
    BY <1>6, <2>1, <1>b, ReceivedTyped DEF Wait, TypeOK
  <2>2. CASE ReceiveThrows /\ Leave /\ recv' = "stop"
             /\ UNCHANGED <<update, last>>
    <3>1. mode' \in Modes /\ armed' \in BOOLEAN
      BY <2>2, <1>c, OperateTyped DEF Leave
    <3>2. QED
      BY <1>6, <2>2, <3>1, <1>b, ThrowsTyped DEF Wait, TypeOK
  <2>3. QED
    BY <1>6, <2>1, <2>2 DEF Wait
<1>7. CASE StopWatchdog
  BY <1>7, EmptyType DEF StopWatchdog, Stopped, TypeOK, flight, sockets
<1>8. QED
  BY <1>1, <1>2, <1>3, <1>4, <1>5, <1>6, <1>7 DEF Recv

\* The send thread keeps the types.
LEMMA SendTyped == Typed /\ Send => Typed'
<1> SUFFICES ASSUME Typed, Send PROVE Typed'
  OBVIOUS
<1>a. conn \in Clients
  BY DEF Typed, Joined, TypeOK, Send, SendFails, SendBegins, SendWrites,
         SendEnds
<1> USE DEF Typed, Joined, Away
<1>1. CASE SendFails
  BY <1>1 DEF SendFails, Disconnected, TypeOK, flight, sockets
<1>2. CASE SendBegins
  BY <1>2 DEF SendBegins, TypeOK, flight, sockets
<1>3. CASE SendWrites
  <2>1. outbox[conn] \in Nat /\ Window \in Nat
    BY <1>a DEF TypeOK
  <2>2. outbox' \in [Clients -> 0 .. Window]
    <3>1. CASE outbox' = outbox
      BY <3>1 DEF TypeOK
    <3>2. CASE /\ outbox[conn] < Window
               /\ outbox' = [outbox EXCEPT ![conn] = @ + 1]
      <4>1. outbox[conn] + 1 \in 0 .. Window
        BY <2>1, <3>2
      <4>2. QED
        BY <3>2, <4>1 DEF TypeOK
    <3>3. QED
      BY <1>3, <3>1, <3>2 DEF SendWrites
  <2>3. refused' \in [Clients -> BOOLEAN] /\ connected' \in BOOLEAN
    BY <1>3 DEF SendWrites, Disconnected, TypeOK
  <2>4. QED
    BY <1>3, <2>2, <2>3 DEF SendWrites, TypeOK, flight
<1>4. CASE SendEnds
  BY <1>4 DEF SendEnds, TypeOK, flight, sockets
<1>5. QED
  BY <1>1, <1>2, <1>3, <1>4 DEF Send

\* The updater thread and a client keep the types.
LEMMA UpdaterTyped == Typed /\ Updater => Typed'
<1> SUFFICES ASSUME Typed, Updater PROVE Typed'
  OBVIOUS
<1> USE DEF Typed, Joined, Away, threads, sockets
<1>1. CASE UpdaterLoad
  BY <1>1 DEF UpdaterLoad, TypeOK
<1>2. CASE UpdaterStore
  BY <1>2 DEF UpdaterStore, TypeOK, TakeOffTarget, Target, Modes
<1>3. QED
  BY <1>1, <1>2 DEF Updater

\* Every step of a client program keeps the types.
LEMMA ClientTyped ==
  ASSUME NEW c \in Clients
  PROVE  Typed /\ Client(c) => Typed'
<1> SUFFICES ASSUME Typed, Client(c) PROVE Typed'
  OBVIOUS
<1> USE DEF Typed, Joined, Away, threads, flight
<1>1. CASE Connect(c)
  BY <1>1 DEF Connect, TypeOK
<1>2. CASE ClientSends(c)
  <2>1. PICK u \in Updates : inbox' = [inbox EXCEPT ![c] = Append(@, u)]
    BY <1>2 DEF ClientSends
  <2>2. Append(inbox[c], u) \in Seq(Messages)
    BY <2>1 DEF TypeOK
  <2>3. QED
    BY <1>2, <2>1, <2>2 DEF ClientSends, TypeOK
<1>3. CASE ClientReads(c)
  BY <1>3 DEF ClientReads, TypeOK
<1>4. CASE ClientCloses(c)
  BY <1>4 DEF ClientCloses, TypeOK
<1>5. QED
  BY <1>1, <1>2, <1>3, <1>4 DEF Client

\* Every step of the program, its clients and its operator keeps the types.
LEMMA NextTyped == Typed /\ [Next]_vars => Typed'
<1> SUFFICES ASSUME Typed, [Next]_vars PROVE Typed'
  OBVIOUS
<1>1. CASE Interrupt
  BY <1>1 DEF Interrupt, Typed, TypeOK, Joined, threads, flight, sockets
<1>2. CASE CheckThread
  BY <1>2 DEF CheckThread, Typed, TypeOK, Joined, threads, flight, sockets
<1>3. CASE UNCHANGED vars
  BY <1>3 DEF vars, Typed, TypeOK, Joined, threads, flight, sockets
<1>4. QED
  BY <1>1, <1>2, <1>3, ServeTyped, RecvTyped, SendTyped, UpdaterTyped,
     ClientTyped DEF Next

\* Type correctness, and the serve thread has session threads and a client
\* exactly while it waits to join them (do_serve).
THEOREM TypeCorrect == Spec => [](TypeOK /\ Joined)
<1>1. QED
  BY InitTyped, NextTyped, PTL DEF Spec, Typed

-----------------------------------------------------------------------------
(* The session invariant.                                                  *)

\* The receive thread is joined before the send thread.
RecvFirst == serve = "joinSend" => recv = "done"

\* What do_recv is about to apply is what it read last, unless shutdown ended
\* its wait: then it applies nothing.
Fresh ==
    /\ AppliesLastMessage
    /\ recv \in {"start", "loop"} => update = last \/ shutdown

SessionInv ==
    /\ RecvFirst /\ Fresh
    /\ UnarmedBetweenSessions
    /\ WatchdogOnlyInSession

\* The invariant holds initially.
LEMMA InitSession == Init => SessionInv
  BY DEF Init, SessionInv, RecvFirst, Fresh, AppliesLastMessage,
         UnarmedBetweenSessions, WatchdogOnlyInSession, InSession

\* The serve thread keeps it.
LEMMA ServeSession == Typed /\ SessionInv /\ Serve => SessionInv'
<1> SUFFICES ASSUME Typed, SessionInv, Serve PROVE SessionInv'
  OBVIOUS
<1> USE DEF SessionInv, RecvFirst, Fresh, AppliesLastMessage,
            UnarmedBetweenSessions, WatchdogOnlyInSession, InSession
<1>1. CASE ServeLoop
  BY <1>1 DEF ServeLoop, flight
<1>2. ASSUME NEW c \in Clients, Accept(c) PROVE SessionInv'
  <2>1. recv = "none"
    BY <1>2 DEF Accept, Typed, Joined, Away
  <2>2. QED
    BY <1>2, <2>1 DEF Accept, flight
<1>3. CASE AcceptNone
  BY <1>3 DEF AcceptNone, flight
<1>4. CASE JoinRecv
  BY <1>4 DEF JoinRecv, flight
<1>5. CASE JoinSend
  BY <1>5 DEF JoinSend, flight
<1>6. QED
  BY <1>1, <1>2, <1>3, <1>4, <1>5 DEF Serve

\* A received message is the last one, even when it is a heartbeat.
LEMMA ReceivedFresh == Received => update' = last' \/ shutdown
  BY DEF Received, Cleared

\* do_recv leaves the switch off.
LEMMA LeaveDisarms == Leave => armed' = FALSE
  BY DEF Leave, Operate

\* The receive thread keeps it.
LEMMA RecvSession == Typed /\ SessionInv /\ Recv => SessionInv'
<1> SUFFICES ASSUME Typed, SessionInv, Recv PROVE SessionInv'
  OBVIOUS
<1> USE DEF SessionInv, RecvFirst, Fresh, AppliesLastMessage,
            UnarmedBetweenSessions, WatchdogOnlyInSession, InSession
<1>1. CASE First
  BY <1>1, ReceivedFresh DEF First, flight
<1>2. CASE StartWatchdog
  BY <1>2 DEF StartWatchdog, flight
<1>3. CASE Loop
  BY <1>3 DEF Loop, StopsLoop, flight
<1>4. CASE ApplyMode
  BY <1>4 DEF ApplyMode
<1>5. CASE ApplyCommand
  BY <1>5, LeaveDisarms DEF ApplyCommand
<1>6. CASE Wait
  BY <1>6, ReceivedFresh, LeaveDisarms DEF Wait
<1>7. CASE StopWatchdog
  BY <1>7 DEF StopWatchdog, Stopped, flight
<1>8. QED
  BY <1>1, <1>2, <1>3, <1>4, <1>5, <1>6, <1>7 DEF Recv

\* Every step keeps it.
LEMMA NextSession == Typed /\ SessionInv /\ [Next]_vars => SessionInv'
<1> SUFFICES ASSUME Typed, SessionInv, [Next]_vars PROVE SessionInv'
  OBVIOUS
<1>1. CASE Send
  BY <1>1 DEF Send, SendFails, SendBegins, SendWrites, SendEnds, flight,
              SessionInv, RecvFirst, Fresh, AppliesLastMessage,
              UnarmedBetweenSessions, WatchdogOnlyInSession
<1>2. CASE Updater \/ (\E c \in Clients : Client(c)) \/ UNCHANGED vars
           \/ CheckThread
  <2>1. UNCHANGED <<shutdown, threads, running, armed, last>>
    BY <1>2 DEF Updater, UpdaterLoad, UpdaterStore, Client, Connect,
                ClientSends, ClientReads, ClientCloses, CheckThread, vars,
                flight
  <2>2. QED
    BY <2>1 DEF threads, SessionInv, RecvFirst, Fresh, AppliesLastMessage,
                UnarmedBetweenSessions, WatchdogOnlyInSession
<1>3. CASE Interrupt
  BY <1>3 DEF Interrupt, threads, flight, SessionInv, RecvFirst, Fresh,
              AppliesLastMessage, UnarmedBetweenSessions, WatchdogOnlyInSession
<1>4. QED
  BY <1>1, <1>2, <1>3, ServeSession, RecvSession DEF Next

\* Whatever the clients, the sockets and the signal do, in every interleaving
\* of the drone's threads: outside a session the switch is off, the watchdog
\* runs only in one, and do_recv applies what was sent last.
THEOREM SessionSafe ==
  Spec => [](UnarmedBetweenSessions /\ WatchdogOnlyInSession
             /\ AppliesLastMessage)
<1>1. Init => Typed /\ SessionInv
  BY InitTyped, InitSession
<1>2. Typed /\ SessionInv /\ [Next]_vars => (Typed /\ SessionInv)'
  BY NextTyped, NextSession
<1>3. Typed /\ SessionInv => UnarmedBetweenSessions /\ WatchdogOnlyInSession
                             /\ AppliesLastMessage
  BY DEF SessionInv, Fresh
<1>4. QED
  BY <1>1, <1>2, <1>3, PTL DEF Spec

\* The io watchdog runs only in a session (StartWatchdog and StopWatchdog in
\* do_recv, however it is left).
THEOREM WatchdogInside == Spec => []WatchdogOnlyInSession
  BY SessionSafe, PTL

\* What do_recv applies is what was sent last, never what an earlier message
\* left in update.
THEOREM LastMessageApplied == Spec => []AppliesLastMessage
  BY SessionSafe, PTL
=============================================================================
