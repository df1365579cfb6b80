-------------------------------- MODULE Base --------------------------------
(***************************************************************************)
(* The base station (gobase): the pilot's keys, the channel of messages    *)
(* and the three goroutines of base.New, up to the end of Close.           *)
(*                                                                         *)
(* One goroutine sends what is in the channel, one puts a heartbeat into   *)
(* it every 100 ms and, at the end, DISCONNECT; one receives observations. *)
(* A setpoint key counts by the mode of the observation received last.     *)
(*                                                                         *)
(* Abstracted: values of setpoints and of observations other than the      *)
(* mode.  A heartbeat is a message of length zero.  The drone (do_send of  *)
(* program/cdrone.cpp), the network and termbox are external.              *)
(***************************************************************************)
EXTENDS Naturals, SequencesExt

CONSTANTS
    Capacity,    \* of the channel; 10
    Keys,        \* the keys the pilot may press
    Modes,       \* the modes the drone may report
    Window,      \* bound: observations on their way
    MaxTyped     \* bound: messages by keys

Command ==
    [k \in {";", " ", "t", "p", "v", "r"} |->
        CASE k = ";" -> "ARM"
          [] k = " " -> "DISARM"
          [] k = "t" -> "TAKEOFF"
          [] k = "p" -> "POSITION"
          [] k = "v" -> "VELOCITY"
          [] k = "r" -> "RESET_POSITION"]
Steps == {"w", "a", "s", "d", "i", "j", "k", "l"}
Setpoints == {"velocity", "position"}
KeyMessages == {Command[k] : k \in DOMAIN Command} \cup Setpoints
Heartbeat == "NO_MODE"
Messages == KeyMessages \cup {Heartbeat, "DISCONNECT"}

ASSUME CapacityAssumption == Capacity \in Nat \ {0}
ASSUME KeysAssumption ==
    Keys \subseteq DOMAIN Command \cup Steps \cup {"h", "q"}
ASSUME BoundsAssumption == Window \in Nat \ {0} /\ MaxTyped \in Nat

VARIABLES
    input,      \* "poll", the message its send waits with, or "gone"
    done,       \* has the pilot quit?
    main,       \* "refresh", then in Close "stop", "wait" and "closed"
    stop,       \* Base.stop
    channel,    \* messageChan
    open,       \* is it not closed?
    beat,       \* where the heartbeat goroutine is,
    sender,     \*   the one that sends ("range" or the message it sends),
    headed,     \*   has it written the length?
    receiver,   \*   and the one that receives
    mode,       \* Drone.Mode
    link,       \* "up"; "silent", when nothing arrives any more; "down", when
                \*   the end of it is known; "closed", by Close
    observed,   \* observations on their way
    typed,      \* history: the messages of the keys
    arrived     \* history: the messages that arrived, but for heartbeats

goroutines == <<beat, sender, headed, receiver>>
vars == <<input, done, main, stop, channel, open, goroutines, mode, link,
          observed, typed, arrived>>

Init ==
    /\ input = "poll" /\ done = FALSE /\ main = "refresh" /\ stop = FALSE
    /\ channel = <<>> /\ open = TRUE
    /\ beat = "loop" /\ sender = "range" /\ headed = FALSE
    /\ receiver = "loop"
    /\ mode = "NO_MODE" /\ link = "up" /\ observed = 0
    /\ typed = <<>> /\ arrived = <<>>

-----------------------------------------------------------------------------
(* The goroutine of the keys.                                              *)

\* The setpoint of key k: hovering has none in mode POSITION.
Setpoint(k) ==
    CASE mode = "VELOCITY" /\ k \in Steps \cup {"h"} -> {"velocity"}
      [] mode = "POSITION" /\ k \in Steps -> {"position"}
      [] OTHER -> {}
\* 'q' ends the goroutine.
QuitReadsOn == "poll"
Quit == "gone"
Press(k) ==
    /\ input = "poll"
    /\ IF k = "q"
       THEN input' = Quit /\ done' = TRUE /\ UNCHANGED typed
       ELSE /\ Len(typed) < MaxTyped
            /\ \E m \in IF k \in DOMAIN Command THEN {Command[k]}
                                               ELSE Setpoint(k) :
                  input' = m /\ typed' = Append(typed, m)
            /\ UNCHANGED done
    /\ UNCHANGED <<main, stop, channel, open, goroutines, mode, link,
                   observed, arrived>>

\* messageChan <- m waits for room (and would panic on a closed channel).
Put(m) == Len(channel) < Capacity /\ channel' = Append(channel, m)
InputSends ==
    /\ input \in KeyMessages /\ open
    /\ Put(input)
    /\ input' = "poll"
    /\ UNCHANGED <<done, main, stop, open, goroutines, mode, link, observed,
                   typed, arrived>>

-----------------------------------------------------------------------------
(* Main.                                                                   *)

\* for !done { refresh(b) ... }, then the deferred Close.
Leaves ==
    /\ main = "refresh" /\ done
    /\ main' = "stop"
    /\ UNCHANGED <<input, done, stop, channel, open, goroutines, mode, link,
                   observed, typed, arrived>>
Stops ==
    /\ main = "stop"
    /\ stop' = TRUE /\ main' = "wait"
    /\ UNCHANGED <<input, done, channel, open, goroutines, mode, link,
                   observed, typed, arrived>>

\* base.wg.Wait(), and only then base.conn.Close().
WaitedForTwo == beat = "gone" /\ receiver = "gone"
Waited == WaitedForTwo /\ sender = "gone"
Closes ==
    /\ main = "wait" /\ Waited
    /\ main' = "closed" /\ link' = "closed"
    /\ UNCHANGED <<input, done, stop, channel, open, goroutines, mode,
                   observed, typed, arrived>>

-----------------------------------------------------------------------------
(* The heartbeat.                                                          *)

\* What follows the loop: the deferred calls, last to first.
DeferredSwapped == IF beat = "loop" THEN "close" ELSE
                   IF beat = "close" THEN "DISCONNECT" ELSE "gone"
Deferred == IF beat = "loop" THEN "DISCONNECT" ELSE
            IF beat = "DISCONNECT" THEN "close" ELSE "gone"

\* for !base.stop { time.Sleep(100 ms) ...
BeatLoops ==
    /\ beat = "loop"
    /\ beat' = IF stop THEN Deferred ELSE Heartbeat
    /\ UNCHANGED <<input, done, main, stop, channel, open, sender, headed,
                   receiver, mode, link, observed, typed, arrived>>
BeatSends ==
    /\ beat \in {Heartbeat, "DISCONNECT"} /\ open
    /\ Put(beat)
    /\ beat' = IF beat = Heartbeat THEN "loop" ELSE Deferred
    /\ UNCHANGED <<input, done, main, stop, open, sender, headed, receiver,
                   mode, link, observed, typed, arrived>>
BeatCloses ==
    /\ beat = "close"
    /\ open' = FALSE /\ beat' = Deferred
    /\ UNCHANGED <<input, done, main, stop, channel, sender, headed, receiver,
                   mode, link, observed, typed, arrived>>

-----------------------------------------------------------------------------
(* The goroutine that sends.                                               *)

\* for pb := range messageChan: a closed channel is emptied first.
RangeEnds == channel = <<>> /\ ~open
Takes ==
    /\ sender = "range"
    /\ \/ /\ RangeEnds
          /\ sender' = "gone"
          /\ UNCHANGED channel
       \/ /\ ~RangeEnds /\ channel # <<>>
          /\ sender' = Head(channel) /\ channel' = Tail(channel)
    /\ UNCHANGED <<input, done, main, stop, open, beat, headed, receiver,
                   mode, link, observed, typed, arrived>>

\* SendMessage: the length, then the message if it has one.  A write to a
\* link that is silent, or down, may be lost.
Sending == sender \in Messages
Writes ==
    /\ Sending
    /\ IF sender = Heartbeat \/ headed
       THEN /\ sender' = "range" /\ headed' = FALSE
            /\ arrived' = IF sender = Heartbeat \/ link # "up" THEN arrived
                          ELSE Append(arrived, sender)
       ELSE headed' = TRUE /\ UNCHANGED <<sender, arrived>>
    /\ UNCHANGED <<input, done, main, stop, channel, open, beat, receiver,
                   mode, link, observed, typed>>
\* A write that fails is printed, and the next message tried.
SameAgain == sender
NextOne == "range"
WriteFails ==
    /\ Sending /\ link = "down"
    /\ sender' = NextOne /\ headed' = FALSE
    /\ UNCHANGED <<input, done, main, stop, channel, open, beat, receiver,
                   mode, link, observed, typed, arrived>>

-----------------------------------------------------------------------------
(* The goroutine that receives.                                            *)

\* for !base.stop { base.RecvMessage() }
ReceiverLoops ==
    /\ receiver = "loop"
    /\ receiver' = IF stop THEN "gone" ELSE "read"
    /\ UNCHANGED <<input, done, main, stop, channel, open, beat, sender,
                   headed, mode, link, observed, typed, arrived>>

\* RecvMessage returns with an observation, or without at the link's end.
ReadEnds == observed > 0 \/ link = "down"
Receives ==
    /\ receiver = "read" /\ ReadEnds
    /\ IF observed > 0
       THEN mode' \in Modes /\ observed' = observed - 1
       ELSE UNCHANGED <<mode, observed>>
    /\ receiver' = "loop"
    /\ UNCHANGED <<input, done, main, stop, channel, open, beat, sender,
                   headed, link, typed, arrived>>

-----------------------------------------------------------------------------
(* The drone and the network.                                              *)

\* do_send sends observations for as long as the connection is there, also
\* after a DISCONNECT.
DroneSends ==
    /\ link = "up" /\ observed < Window
    /\ observed' = observed + 1
    /\ UNCHANGED <<input, done, main, stop, channel, open, goroutines, mode,
                   link, typed, arrived>>

\* The drone is killed, or goes out of range.  TCP notices in the end that
\* nothing is acknowledged, since there is a heartbeat.
LinkFails ==
    /\ link = "up"
    /\ link' \in {"silent", "down"}
    /\ UNCHANGED <<input, done, main, stop, channel, open, goroutines, mode,
                   observed, typed, arrived>>
LinkTimesOut ==
    /\ link = "silent"
    /\ link' = "down"
    /\ UNCHANGED <<input, done, main, stop, channel, open, goroutines, mode,
                   observed, typed, arrived>>

Over == main = "closed" /\ UNCHANGED vars

Goroutines ==
    \/ InputSends \/ Leaves \/ Stops \/ Closes
    \/ BeatLoops \/ BeatSends \/ BeatCloses
    \/ Takes \/ Writes \/ WriteFails
    \/ ReceiverLoops \/ Receives
Next ==
    \/ \E k \in Keys : Press(k)
    \/ Goroutines
    \/ DroneSends \/ LinkFails \/ LinkTimesOut \/ Over

\* Go schedules every goroutine that can take a step; do_send sends every
\* 200 ms; TCP gives up on a silent link.  The pilot need not do anything.
Fairness ==
    /\ WF_vars(InputSends) /\ WF_vars(Leaves \/ Stops \/ Closes)
    /\ WF_vars(BeatLoops \/ BeatSends \/ BeatCloses)
    /\ WF_vars(Takes \/ Writes \/ WriteFails)
    /\ WF_vars(ReceiverLoops \/ Receives)
    /\ WF_vars(DroneSends) /\ WF_vars(LinkTimesOut)
Spec == Init /\ [][Next]_vars /\ Fairness

-----------------------------------------------------------------------------
\* Types; the pilot's messages alone are counted as typed.
TypeOK ==
    /\ input \in {"poll", "gone"} \cup KeyMessages
    /\ done \in BOOLEAN /\ stop \in BOOLEAN /\ open \in BOOLEAN
    /\ main \in {"refresh", "stop", "wait", "closed"}
    /\ channel \in Seq(Messages)
    /\ beat \in {"loop", Heartbeat, "DISCONNECT", "close", "gone"}
    /\ sender \in {"range", "gone"} \cup Messages /\ headed \in BOOLEAN
    /\ receiver \in {"loop", "read", "gone"}
    /\ mode \in Modes \cup {"NO_MODE"}
    /\ link \in {"up", "silent", "down", "closed"} /\ observed \in Nat
    /\ typed \in Seq(KeyMessages) /\ arrived \in Seq(Messages)

\* No goroutine is left that sends on the closed channel, which would panic
\* (base.go:148, base.go:155, commands.go).
NoSendAfterClose ==
    ~open => input = "gone" /\ beat = "gone"

\* What arrives is what the pilot typed, in order, and DISCONNECT after all
\* of it and after nothing else.
OrderKept == IsPrefix(arrived, Append(typed, "DISCONNECT"))

\* On a link that held, Close has delivered everything, DISCONNECT too.
ClosedAfterAll ==
    [][main' = "closed" /\ main # "closed" /\ link = "up"
          => arrived = Append(typed, "DISCONNECT")]_vars

\* Close returns, though it closes the connection only after the goroutines
\* that read and write it have ended.
CloseReturns == (main = "stop") ~> (main = "closed")
=============================================================================
