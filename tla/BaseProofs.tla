----------------------------- MODULE BaseProofs -----------------------------
(***************************************************************************)
(* Theorems about Base, for every capacity of the channel, whatever the    *)
(* pilot types and the drone sends, and however many observations are on   *)
(* their way: no goroutine is left that sends on the closed channel, what  *)
(* arrives is what was typed, in order, and all of it if the link holds.   *)
(***************************************************************************)
EXTENDS Base, SequenceTheorems, TLAPS

\* The channel is closed by the heartbeat, after Close has told it to stop,
\* after the pilot has quit.
Order ==
    /\ done <=> input = "gone"
    /\ main # "refresh" => done
    /\ stop => main \in {"wait", "closed"}
    /\ beat \in {"DISCONNECT", "close", "gone"} => stop
    /\ ~open => beat = "gone"

Inv == TypeOK /\ Order

\* The messages of the keys are none of the states of a goroutine.
LEMMA NamesDiffer ==
  /\ {"poll", "gone", "range"} \cap KeyMessages = {}
  /\ Heartbeat \notin KeyMessages /\ "DISCONNECT" \notin KeyMessages
  /\ Heartbeat \notin {"loop", "DISCONNECT", "close", "gone"}
<1>1. KeyMessages \subseteq
        {"ARM", "DISARM", "TAKEOFF", "POSITION", "VELOCITY",
         "RESET_POSITION", "velocity", "position"}
  BY DEF KeyMessages, Command, Setpoints
<1>2. QED
  BY <1>1 DEF Heartbeat

\* Nothing has been typed when the base station starts.
LEMMA InitInv == Init => Inv
<1> SUFFICES ASSUME Init PROVE TypeOK /\ Order
  BY DEF Inv
<1>1. TypeOK
  <2>1. channel \in Seq(Messages) /\ typed \in Seq(KeyMessages)
        /\ arrived \in Seq(Messages)
    BY DEF Init
  <2>2. QED
    BY <2>1 DEF Init, TypeOK
<1>2. Order
  BY DEF Init, Order
<1>3. QED
  BY <1>1, <1>2

\* A key keeps the invariant.
LEMMA PressInv ==
  ASSUME Inv, NEW k \in Keys, Press(k)
  PROVE  Inv'
<1>1. CASE k = "q"
  BY <1>1, NamesDiffer DEF Press, Quit, Inv, TypeOK, Order, goroutines
<1>2. CASE k # "q"
  <2>1. PICK m \in KeyMessages : input' = m /\ typed' = Append(typed, m)
    BY <1>2 DEF Press, Setpoint, KeyMessages, Setpoints
  <2>2. typed' \in Seq(KeyMessages)
    BY <2>1 DEF Inv, TypeOK
  <2>3. TypeOK'
    BY <1>2, <2>1, <2>2 DEF Press, Inv, TypeOK, goroutines
  <2>4. Order'
    BY <1>2, <2>1, NamesDiffer DEF Press, Inv, Order, goroutines
  <2>5. QED
    BY <2>3, <2>4 DEF Inv
<1>3. QED
  BY <1>1, <1>2

\* The types are kept by every other step.
LEMMA StepTyped ==
  ASSUME Inv, Next, ~\E k \in Keys : Press(k)
  PROVE  TypeOK'
<1>0. TypeOK
  BY DEF Inv
<1>10. CASE WriteFails
  <2>1. /\ sender' = "range" /\ headed' = FALSE
        /\ UNCHANGED <<input, done, main, stop, channel, open, beat,
                       receiver, mode, link, observed, typed, arrived>>
    BY <1>10, Zenon DEF WriteFails, NextOne
  <2>2. sender' \in {"range", "gone"} \cup Messages /\ headed' \in BOOLEAN
    BY <2>1
  <2>3. QED
    BY <1>0, <2>1, <2>2 DEF TypeOK
<1> USE DEF Inv, TypeOK, goroutines
<1>1. CASE InputSends
  BY <1>1 DEF InputSends, Put, Messages
<1>2. CASE Leaves
  BY <1>2 DEF Leaves
<1>3. CASE Stops
  BY <1>3 DEF Stops
<1>4. CASE Closes
  BY <1>4 DEF Closes
<1>5. CASE BeatLoops
  BY <1>5 DEF BeatLoops, Deferred
<1>6. CASE BeatSends
  BY <1>6, NamesDiffer DEF BeatSends, Put, Messages, Deferred
<1>7. CASE BeatCloses
  <2>1. beat' \in {"DISCONNECT", "close", "gone"}
    BY <1>7 DEF BeatCloses, Deferred
  <2>2. open' \in BOOLEAN
    BY <1>7, Zenon DEF BeatCloses
  <2>3. UNCHANGED <<input, done, main, stop, channel, sender, headed,
                    receiver, mode, link, observed, typed, arrived>>
    BY <1>7 DEF BeatCloses
  <2>4. QED
    BY <2>1, <2>2, <2>3
<1>8. CASE Takes
  <2>1. /\ channel' \in Seq(Messages)
        /\ sender' \in {"gone"} \cup Messages
    <3>1. CASE channel = <<>>
      BY <1>8, <3>1 DEF Takes
    <3>2. CASE channel # <<>>
      BY <1>8, <3>2, HeadTailProperties DEF Takes, RangeEnds
    <3>3. QED
      BY <3>1, <3>2
  <2>2. QED
    BY <1>8, <2>1 DEF Takes
<1>9. CASE Writes
  <2>1. arrived' \in Seq(Messages)
    BY <1>9 DEF Writes, Sending
  <2>2. sender' \in {"range", "gone"} \cup Messages /\ headed' \in BOOLEAN
    BY <1>9 DEF Writes
  <2>3. QED
    BY <1>9, <2>1, <2>2 DEF Writes
<1>11. CASE ReceiverLoops
  BY <1>11 DEF ReceiverLoops
<1>12. CASE Receives
  BY <1>12 DEF Receives
<1>13. CASE DroneSends
  BY <1>13 DEF DroneSends
<1>14. CASE LinkFails
  BY <1>14 DEF LinkFails
<1>15. CASE LinkTimesOut
  BY <1>15 DEF LinkTimesOut
<1>16. CASE Over
  BY <1>16 DEF Over, vars
<1>17. QED
  BY <1>1, <1>2, <1>3, <1>4, <1>5, <1>6, <1>7, <1>8, <1>9, <1>10, <1>11,
     <1>12, <1>13, <1>14, <1>15, <1>16 DEF Next, Goroutines

\* The order of the end is kept by every other step.
LEMMA StepOrder ==
  ASSUME Inv, Next, ~\E k \in Keys : Press(k)
  PROVE  Order'
<1> USE DEF Inv, TypeOK, Order, goroutines
<1>1. CASE InputSends
  BY <1>1, NamesDiffer DEF InputSends
<1>2. CASE Leaves
  BY <1>2, NamesDiffer DEF Leaves
<1>3. CASE Stops
  BY <1>3, NamesDiffer DEF Stops
<1>4. CASE Closes
  BY <1>4, NamesDiffer DEF Closes
<1>5. CASE BeatLoops
  BY <1>5, NamesDiffer DEF BeatLoops, Deferred
<1>6. CASE BeatSends
  BY <1>6, NamesDiffer DEF BeatSends, Deferred
<1>7. CASE BeatCloses
  BY <1>7, NamesDiffer DEF BeatCloses, Deferred
<1>8. CASE Takes
  BY <1>8, NamesDiffer DEF Takes
<1>9. CASE Writes
  BY <1>9, NamesDiffer DEF Writes
<1>10. CASE WriteFails
  BY <1>10, NamesDiffer DEF WriteFails
<1>11. CASE ReceiverLoops
  BY <1>11, NamesDiffer DEF ReceiverLoops
<1>12. CASE Receives
  BY <1>12, NamesDiffer DEF Receives
<1>13. CASE DroneSends
  BY <1>13, NamesDiffer DEF DroneSends
<1>14. CASE LinkFails
  BY <1>14, NamesDiffer DEF LinkFails
<1>15. CASE LinkTimesOut
  BY <1>15, NamesDiffer DEF LinkTimesOut
<1>16. CASE Over
  BY <1>16, NamesDiffer DEF Over, vars
<1>17. QED
  BY <1>1, <1>2, <1>3, <1>4, <1>5, <1>6, <1>7, <1>8, <1>9, <1>10, <1>11,
     <1>12, <1>13, <1>14, <1>15, <1>16 DEF Next, Goroutines

LEMMA NextInv == Inv /\ [Next]_vars => Inv'
<1>1. CASE UNCHANGED vars
  BY <1>1 DEF vars, goroutines, Inv, TypeOK, Order
<1>2. QED
  BY <1>1, PressInv, StepTyped, StepOrder DEF Inv

\* No goroutine is left that sends on the closed channel, whatever was typed
\* and wherever the link failed (the deferred calls of base.New, Close and the
\* loop of the keys).
THEOREM NoPanic == Spec => []NoSendAfterClose
<1>1. Inv => NoSendAfterClose
  BY DEF Inv, Order, NoSendAfterClose
<1>2. QED
  BY <1>1, InitInv, NextInv, PTL DEF Spec

-----------------------------------------------------------------------------
(* What arrives.                                                           *)

\* The k-th message that is to arrive.
Wish(k) == IF k <= Len(typed) THEN typed[k] ELSE "DISCONNECT"

\* Those that arrived are the first of them, and DISCONNECT has arrived only
\* when nothing can be typed any more.
Arrivals ==
    /\ \A k \in 1 .. Len(arrived) : arrived[k] = Wish(k)
    /\ Len(arrived) <= Len(typed) + 1
    /\ Len(arrived) = Len(typed) + 1 => input = "gone"

\* The key whose message waits is the one typed last; the sender is gone only
\* after the channel was closed and empty.
Ends ==
    /\ input \in KeyMessages
           => Len(typed) > 0 /\ input = typed[Len(typed)]
    /\ sender = "gone" => channel = <<>> /\ ~open

\* f[k] of the messages that are to arrive have arrived, are with the sender
\* or are among the first k of the channel.
Commands == Messages \ {Heartbeat}
Held == IF sender \in Commands THEN 1 ELSE 0
Waiting == IF input \in KeyMessages THEN 1 ELSE 0
Due == Len(typed) + (IF beat \in {"close", "gone"} THEN 1 ELSE 0)
Counts(f) ==
    /\ f \in [Nat -> Nat]
    /\ f[0] = Len(arrived) + Held
    /\ sender \in Commands => sender = Wish(f[0])
    /\ \A k \in 1 .. Len(channel) :
          \/ channel[k] = Heartbeat /\ f[k] = f[k - 1]
          \/ channel[k] # Heartbeat /\ f[k] = f[k - 1] + 1
             /\ channel[k] = Wish(f[k])
    /\ \A k \in 0 .. Len(channel) : f[k] <= f[Len(channel)]
    /\ f[Len(channel)] + Waiting = Due

\* As long as the link is up, nothing is lost on the way.
OnTheWay == link = "up" => \E f : Counts(f)

Kept == Arrivals /\ Ends /\ OnTheWay

\* What is appended to a sequence of messages, and taken off it.
LEMMA Appended ==
  ASSUME NEW S, NEW c \in Seq(S), NEW m \in S
  PROVE  /\ Len(c) \in Nat /\ Len(Append(c, m)) = Len(c) + 1
         /\ Append(c, m)[Len(c) + 1] = m
         /\ \A k \in 1 .. Len(c) : Append(c, m)[k] = c[k]
  BY AppendProperties, LenProperties

LEMMA TakenOff ==
  ASSUME NEW S, NEW c \in Seq(S), c # <<>>
  PROVE  /\ Len(c) \in Nat /\ Len(c) > 0
         /\ Len(Tail(c)) = Len(c) - 1
         /\ Head(c) = c[1]
         /\ \A k \in 1 .. Len(c) - 1 : Tail(c)[k] = c[k + 1]
  BY HeadTailProperties, LenProperties, EmptySeq

\* What was typed, or is to be typed, and a state of a goroutine.
LEMMA NamesOfCommands ==
  /\ KeyMessages \subseteq Commands /\ "DISCONNECT" \in Commands
  /\ Heartbeat \notin Commands /\ Commands \subseteq Messages
  /\ "range" \notin Messages /\ "gone" \notin Messages
  /\ \A m \in Messages : m = Heartbeat \/ m \in Commands
  BY NamesDiffer DEF Commands, Messages, Heartbeat

LEMMA InitKept == Init => Kept
<1> SUFFICES ASSUME Init PROVE Kept
  OBVIOUS
<1>1. Arrivals /\ Ends
  BY NamesDiffer DEF Init, Arrivals, Ends
<1>2. Counts([k \in Nat |-> 0])
  BY NamesDiffer, NamesOfCommands DEF Init, Counts, Held, Waiting, Due
<1>3. QED
  BY <1>1, <1>2 DEF Kept, OnTheWay

\* Many steps do not touch what is on the way.
LEMMA Unaffected ==
  ASSUME Kept, UNCHANGED <<input, channel, typed, arrived, sender>>,
         beat' \in {"close", "gone"} <=> beat \in {"close", "gone"},
         link' = "up" => link = "up", ~open => ~open'
  PROVE  Kept'
<1>1. \A k : Wish(k)' = Wish(k)
  BY DEF Wish
<1>2. Arrivals'
  BY <1>1 DEF Kept, Arrivals
<1>3. Ends'
  BY DEF Kept, Ends
<1>4. ASSUME NEW f, Counts(f) PROVE Counts(f)'
  BY <1>1, <1>4 DEF Counts, Held, Waiting, Due
<1>5. QED
  BY <1>2, <1>3, <1>4 DEF Kept, OnTheWay

LEMMA PressKept ==
  ASSUME Inv, Kept, NEW k \in Keys, Press(k)
  PROVE  Kept'
<1> USE DEF Inv
<1>1. /\ input = "poll"
      /\ UNCHANGED <<channel, arrived, sender, beat, link, open>>
  BY DEF Press, goroutines
<1>2. "poll" \notin KeyMessages /\ "gone" \notin KeyMessages
  BY NamesDiffer
<1>3. CASE k = "q"
  <2>1. input' = "gone" /\ typed' = typed
    BY <1>3 DEF Press, Quit
  <2>2. \A j : Wish(j)' = Wish(j)
    BY <2>1 DEF Wish
  <2>3. Arrivals' /\ Ends'
    BY <1>1, <1>2, <2>1, <2>2 DEF Kept, Arrivals, Ends
  <2>4. ASSUME NEW f, Counts(f) PROVE Counts(f)'
    BY <1>1, <1>2, <2>1, <2>2, <2>4 DEF Counts, Held, Waiting, Due
  <2>5. QED
    BY <1>1, <2>3, <2>4 DEF Kept, OnTheWay
<1>4. CASE k # "q"
  <2>1. PICK m \in KeyMessages : input' = m /\ typed' = Append(typed, m)
    BY <1>4 DEF Press, Setpoint, KeyMessages, Setpoints
  <2>2. /\ Len(typed) \in Nat /\ Len(typed') = Len(typed) + 1
        /\ typed'[Len(typed) + 1] = m
        /\ \A j \in 1 .. Len(typed) : typed'[j] = typed[j]
    BY <2>1, Appended DEF TypeOK
  <2>3. \A j \in 1 .. Len(typed) : Wish(j)' = Wish(j)
    BY <2>2 DEF Wish
  <2>4. Len(arrived) \in Nat /\ Len(channel) \in Nat
    BY LenProperties DEF TypeOK
  <2>5. Arrivals'
    <3>1. Len(arrived) <= Len(typed)
      BY <1>1, <2>2, <2>4 DEF Kept, Arrivals
    <3>2. \A j \in 1 .. Len(arrived) : arrived[j] = Wish(j)'
      BY <2>2, <2>3, <2>4, <3>1 DEF Kept, Arrivals
    <3>3. QED
      BY <1>1, <2>2, <2>4, <3>1, <3>2 DEF Arrivals
  <2>6. Ends'
    BY <1>1, <2>1, <2>2 DEF Kept, Ends
  <2>7. ASSUME NEW f, Counts(f) PROVE Counts(f)'
    <3>1. beat \notin {"close", "gone"}
      BY <1>1, <1>2 DEF Order
    <3>2. /\ f \in [Nat -> Nat] /\ f[Len(channel)] = Len(typed)
          /\ \A j \in 0 .. Len(channel) : f[j] <= Len(typed)
      <4>1. /\ f \in [Nat -> Nat]
            /\ \A j \in 0 .. Len(channel) : f[j] <= f[Len(channel)]
            /\ f[Len(channel)] + 0 = Len(typed) + 0
        BY <1>1, <1>2, <2>7, <3>1 DEF Counts, Waiting, Due
      <4>2. f[Len(channel)] \in Nat
        BY <2>4, <4>1
      <4>3. f[Len(channel)] = Len(typed)
        BY <2>2, <4>1, <4>2
      <4>4. QED
        BY <4>1, <4>3
    <3>3. f[0] = Len(arrived)' + Held'
      BY <1>1, <2>7 DEF Counts, Held
    <3>4. sender' \in Commands => sender' = Wish(f[0])'
      <4>1. SUFFICES ASSUME sender \in Commands PROVE sender = Wish(f[0])'
        BY <1>1
      <4>2. f[0] \in 1 .. Len(typed)
        BY <2>2, <2>4, <2>7, <3>2, <4>1 DEF Counts, Held
      <4>3. QED
        BY <2>3, <2>7, <4>1, <4>2 DEF Counts
    <3>5. ASSUME NEW j \in 1 .. Len(channel)'
          PROVE  \/ channel'[j] = Heartbeat /\ f[j] = f[j - 1]
                 \/ channel'[j] # Heartbeat /\ f[j] = f[j - 1] + 1
                    /\ channel'[j] = Wish(f[j])'
      <4>1. j \in 1 .. Len(channel) /\ j - 1 \in Nat /\ j \in Nat
        BY <1>1, <2>4
      <4>2. CASE channel[j] = Heartbeat
        BY <1>1, <2>7, <4>1, <4>2 DEF Counts
      <4>3. CASE channel[j] # Heartbeat
        <5>1. f[j] = f[j - 1] + 1 /\ channel[j] = Wish(f[j])
          BY <2>7, <4>1, <4>3 DEF Counts
        <5>2. f[j] \in 1 .. Len(typed)
          BY <2>2, <2>4, <3>2, <4>1, <5>1
        <5>3. QED
          BY <1>1, <2>3, <4>3, <5>1, <5>2
      <4>4. QED
        BY <4>2, <4>3
    <3>6. \A j \in 0 .. Len(channel)' : f[j] <= f[Len(channel)']
      BY <1>1, <2>7 DEF Counts
    <3>7. f[Len(channel)'] + Waiting' = Due'
      BY <1>1, <2>1, <2>2, <3>1, <3>2 DEF Waiting, Due
    <3>8. QED
      BY <3>2, <3>3, <3>4, <3>5, <3>6, <3>7 DEF Counts
  <2>8. QED
    BY <1>1, <2>5, <2>6, <2>7 DEF Kept, OnTheWay
<1>5. QED
  BY <1>3, <1>4

\* Another message in the channel, the n-th that is to arrive or a heartbeat.
Puts(f, m, n) ==
    /\ channel' = Append(channel, m)
    /\ UNCHANGED <<typed, arrived, sender>>
    /\ \/ m = Heartbeat /\ n = f[Len(channel)]
       \/ m # Heartbeat /\ n = f[Len(channel)] + 1 /\ m = Wish(n)
    /\ n + Waiting' = Due'

LEMMA Longer ==
  ASSUME NEW f \in [Nat -> Nat], NEW L \in Nat, NEW n \in Nat
  PROVE  \E g \in [Nat -> Nat] :
             g[L + 1] = n /\ \A k \in 0 .. L : g[k] = f[k]
<1> DEFINE g == [f EXCEPT ![L + 1] = n]
<1>1. g \in [Nat -> Nat] /\ g[L + 1] = n /\ \A k \in 0 .. L : g[k] = f[k]
  OBVIOUS
<1>2. QED
  BY <1>1

LEMMA PutCounts ==
  ASSUME Inv, NEW f, Counts(f), NEW m \in Messages, NEW n \in Nat,
         Puts(f, m, n)
  PROVE  \E g : Counts(g)'
<1> DEFINE L == Len(channel)
<1>1. /\ L \in Nat /\ Len(channel') = L + 1 /\ channel'[L + 1] = m
      /\ \A k \in 1 .. L : channel'[k] = channel[k]
  BY Appended DEF Inv, TypeOK, Puts
<1>2. f \in [Nat -> Nat]
  BY DEF Counts
<1>3. PICK g \in [Nat -> Nat] :
          g[L + 1] = n /\ \A k \in 0 .. L : g[k] = f[k]
  BY <1>1, <1>2, Longer
<1>4. f[L] \in Nat /\ f[L] <= n
  <2>1. f[L] \in Nat
    BY <1>1, <1>2
  <2>2. n = f[L] \/ n = f[L] + 1
    BY DEF Puts
  <2> DEFINE a == f[L]
  <2> HIDE DEF a
  <2>3. a \in Nat /\ (n = a \/ n = a + 1)
    BY <2>1, <2>2 DEF a
  <2>4. a <= n
    BY <2>3
  <2>5. QED
    BY <2>1, <2>4 DEF a
<1>5. \A k : Wish(k)' = Wish(k)
  BY DEF Wish, Puts
<1>6. /\ g[0] = Len(arrived)' + Held'
      /\ sender' \in Commands => sender' = Wish(g[0])'
  <2>1. g[0] = f[0]
    BY <1>1, <1>3
  <2>2. QED
    BY <1>5, <2>1 DEF Counts, Held, Puts
<1>7. ASSUME NEW k \in 1 .. Len(channel)'
      PROVE  \/ channel'[k] = Heartbeat /\ g[k] = g[k - 1]
             \/ channel'[k] # Heartbeat /\ g[k] = g[k - 1] + 1
                /\ channel'[k] = Wish(g[k])'
  <2>1. CASE k = L + 1
    <3>1. k - 1 = L /\ L \in 0 .. L
      BY <1>1, <2>1
    <3>2. g[k - 1] = f[L] /\ g[k] = n /\ channel'[k] = m
      BY <1>1, <1>3, <2>1, <3>1
    <3>3. QED
      BY <1>5, <3>2 DEF Puts
  <2>2. CASE k # L + 1
    <3>1. k \in 1 .. L /\ k \in 0 .. L /\ k - 1 \in 0 .. L
      <4>1. k \in 1 .. L + 1 /\ L \in Nat
        BY <1>1
      <4> HIDE DEF L
      <4>2. QED
        BY <2>2, <4>1
    <3>2. g[k] = f[k] /\ g[k - 1] = f[k - 1] /\ channel'[k] = channel[k]
      BY <1>1, <1>3, <3>1
    <3>3. QED
      BY <1>5, <3>1, <3>2 DEF Counts
  <2>3. QED
    BY <2>1, <2>2
<1>8. ASSUME NEW k \in 0 .. Len(channel)' PROVE g[k] <= g[Len(channel)']
  <2>1. CASE k = L + 1
    BY <1>1, <1>3, <2>1
  <2>2. CASE k # L + 1
    <3>1. k \in 0 .. L
      BY <1>1, <2>2
    <3>2. g[k] = f[k] /\ f[k] <= f[L] /\ f[k] \in Nat
      BY <1>1, <1>2, <1>3, <3>1 DEF Counts
    <3>3. g[Len(channel')] = n
      BY <1>1, <1>3
    <3>4. ASSUME NEW a \in Nat, NEW b \in Nat, a <= b, b <= n
          PROVE  a <= n
      BY <3>4
    <3>5. QED
      BY <1>4, <3>2, <3>3, <3>4
  <2>3. QED
    BY <2>1, <2>2
<1>9. g[Len(channel)'] + Waiting' = Due'
  BY <1>1, <1>3 DEF Puts
<1>10. Counts(g)'
  BY <1>3, <1>6, <1>7, <1>8, <1>9 DEF Counts
<1>11. QED
  BY <1>10

LEMMA InputSendsKept == Inv /\ Kept /\ InputSends => Kept'
<1> SUFFICES ASSUME Inv, Kept, InputSends PROVE Kept'
  OBVIOUS
<1> USE DEF Inv
<1>1. /\ input \in KeyMessages /\ input' = "poll" /\ open
      /\ channel' = Append(channel, input)
      /\ UNCHANGED <<typed, arrived, sender, beat, link, open>>
  BY DEF InputSends, Put, goroutines
<1>2. "poll" \notin KeyMessages /\ "gone" \notin KeyMessages
  BY NamesDiffer
<1>3. beat \notin {"close", "gone"}
  BY <1>1, <1>2 DEF Order
<1>4. \A k : Wish(k)' = Wish(k)
  BY <1>1 DEF Wish
<1>5. /\ Len(typed) \in Nat /\ Len(channel) \in Nat /\ Len(typed) > 0
      /\ input = typed[Len(typed)] /\ input \in Messages /\ input # Heartbeat
  BY <1>1, NamesOfCommands, LenProperties DEF TypeOK, Kept, Ends
<1>6. Arrivals'
  BY <1>1, <1>2, <1>4 DEF Kept, Arrivals
<1>7. Ends'
  BY <1>1, <1>2 DEF Kept, Ends
<1>8. ASSUME NEW f, Counts(f) PROVE \E g : Counts(g)'
  <2>1. /\ f \in [Nat -> Nat]
        /\ f[Len(channel)] + 1 = Len(typed) + 0
    BY <1>1, <1>3, <1>8 DEF Counts, Waiting, Due
  <2>2. f[Len(channel)] + 1 = Len(typed)
    BY <1>5, <2>1
  <2>3. input = Wish(Len(typed))
    BY <1>5 DEF Wish
  <2>4. Len(typed) + Waiting' = Due'
    BY <1>1, <1>2, <1>3 DEF Waiting, Due
  <2>5. QED
    BY <1>1, <1>5, <1>8, <2>2, <2>3, <2>4, PutCounts DEF Puts
<1>9. QED
  BY <1>1, <1>6, <1>7, <1>8 DEF Kept, OnTheWay

LEMMA BeatSendsKept == Inv /\ Kept /\ BeatSends => Kept'
<1> SUFFICES ASSUME Inv, Kept, BeatSends PROVE Kept'
  OBVIOUS
<1> USE DEF Inv
<1>1. /\ beat \in {Heartbeat, "DISCONNECT"} /\ open
      /\ channel' = Append(channel, beat)
      /\ UNCHANGED <<input, typed, arrived, sender, link, open>>
  BY DEF BeatSends, Put
<1>2. \A k : Wish(k)' = Wish(k)
  BY <1>1 DEF Wish
<1>3. Len(typed) \in Nat /\ Len(channel) \in Nat
  BY LenProperties DEF TypeOK
<1>4. Arrivals'
  BY <1>1, <1>2 DEF Kept, Arrivals
<1>5. Ends'
  BY <1>1 DEF Kept, Ends
<1>6. ASSUME NEW f, Counts(f) PROVE \E g : Counts(g)'
  <2>1. f \in [Nat -> Nat] /\ f[Len(channel)] \in Nat
    BY <1>3, <1>6 DEF Counts
  <2>2. f[Len(channel)] + Waiting = Due
    BY <1>6 DEF Counts
  <2>3. CASE beat = Heartbeat
    <3>1. beat' = "loop" /\ beat \notin {"close", "gone"}
      BY <2>3 DEF BeatSends, Heartbeat
    <3>2. f[Len(channel)] + Waiting' = Due'
      BY <1>1, <2>2, <3>1 DEF Waiting, Due
    <3>3. Heartbeat \in Messages
      BY DEF Messages
    <3>4. QED
      BY <1>1, <1>6, <2>1, <2>3, <3>2, <3>3, PutCounts DEF Puts
  <2>4. CASE beat = "DISCONNECT"
    <3>1. /\ beat # Heartbeat /\ beat \in Messages
          /\ beat' = "close" /\ beat \notin {"close", "gone"}
      BY <2>4 DEF BeatSends, Heartbeat, Deferred, Messages
    <3>2. input = "gone" /\ input \notin KeyMessages
      BY <2>4, NamesDiffer DEF Order
    <3>3. f[Len(channel)] + 0 = Len(typed) + 0
      BY <2>2, <3>1, <3>2 DEF Waiting, Due
    <3>4. f[Len(channel)] + 1 = Len(typed) + 1
      <4>1. ASSUME NEW a \in Nat, NEW b \in Nat, a + 0 = b + 0
            PROVE  a + 1 = b + 1
        BY <4>1
      <4>2. QED
        BY <1>3, <2>1, <3>3, <4>1
    <3> DEFINE n == Len(typed) + 1
    <3>5. n \in Nat /\ beat = Wish(n)
      BY <1>3, <2>4 DEF Wish
    <3>6. n + Waiting' = Due'
      BY <1>1, <1>3, <3>1, <3>2 DEF Waiting, Due
    <3>7. n = f[Len(channel)] + 1
      BY <3>4
    <3> HIDE DEF n
    <3>8. QED
      BY <1>1, <1>6, <3>1, <3>5, <3>6, <3>7, PutCounts DEF Puts
  <2>5. QED
    BY <1>1, <2>3, <2>4
<1>7. QED
  BY <1>1, <1>4, <1>5, <1>6 DEF Kept, OnTheWay

LEMMA TakesKept == Inv /\ Kept /\ Takes => Kept'
<1> SUFFICES ASSUME Inv, Kept, Takes PROVE Kept'
  OBVIOUS
<1> USE DEF Inv
<1>1. /\ sender = "range"
      /\ UNCHANGED <<input, typed, arrived, beat, link, open>>
  BY DEF Takes
<1>2. \A k : Wish(k)' = Wish(k)
  BY <1>1 DEF Wish
<1>3. Arrivals'
  BY <1>1, <1>2 DEF Kept, Arrivals
<1>4. Waiting' = Waiting /\ Due' = Due /\ Held = 0
  BY <1>1, NamesOfCommands DEF Waiting, Due, Held
<1>5. CASE RangeEnds
  <2>1. sender' = "gone" /\ channel' = channel /\ channel = <<>> /\ ~open
    BY <1>5 DEF Takes, RangeEnds
  <2>2. Held' = 0 /\ sender' \notin Commands
    BY <2>1, NamesOfCommands DEF Held
  <2>3. Ends'
    BY <1>1, <2>1 DEF Kept, Ends
  <2>4. ASSUME NEW f, Counts(f) PROVE Counts(f)'
    BY <1>1, <1>2, <1>4, <2>1, <2>2, <2>4 DEF Counts
  <2>5. QED
    BY <1>1, <1>3, <2>3, <2>4 DEF Kept, OnTheWay
<1>6. CASE ~RangeEnds
  <2>1. /\ channel # <<>> /\ sender' = Head(channel)
        /\ channel' = Tail(channel)
    BY <1>6 DEF Takes
  <2> DEFINE L == Len(channel)
  <2>2. /\ L \in Nat /\ L > 0 /\ Len(channel') = L - 1
        /\ sender' = channel[1] /\ sender' \in Messages
        /\ \A k \in 1 .. L - 1 : channel'[k] = channel[k + 1]
    BY <2>1, TakenOff, HeadTailProperties DEF TypeOK
  <2>3. Ends'
    BY <1>1, <2>2, NamesOfCommands DEF Kept, Ends
  <2>4. ASSUME NEW f, Counts(f) PROVE \E g : Counts(g)'
    <3>1. f \in [Nat -> Nat] /\ f[0] = Len(arrived) /\ Len(arrived) \in Nat
      <4>1. f \in [Nat -> Nat] /\ f[0] = Len(arrived) + Held
        BY <2>4, Zenon DEF Counts
      <4>2. Len(arrived) \in Nat
        BY LenProperties DEF TypeOK
      <4>3. QED
        BY <1>4, <4>1, <4>2
    <3>2. \/ channel[1] = Heartbeat /\ f[1] = f[0]
          \/ channel[1] # Heartbeat /\ f[1] = f[0] + 1
             /\ channel[1] = Wish(f[1])
      <4>1. 1 \in 1 .. L /\ 1 - 1 = 0
        BY <2>2
      <4>2. QED
        BY <2>4, <4>1 DEF Counts
    <3> DEFINE g == [k \in Nat |-> f[k + 1]]
    <3>3. g \in [Nat -> Nat] /\ \A k \in Nat : g[k] = f[k + 1]
      BY <3>1
    <3> HIDE DEF g
    <3>4. g[0] = Len(arrived)' + Held'
      <4>1. g[0] = f[1]
        BY <3>3
      <4>2. CASE channel[1] = Heartbeat
        <5>1. Held' = 0
          BY <2>2, <4>2, NamesOfCommands DEF Held
        <5>2. QED
          BY <1>1, <3>1, <3>2, <4>1, <4>2, <5>1
      <4>3. CASE channel[1] # Heartbeat
        <5>1. Held' = 1
          BY <2>2, <4>3, NamesOfCommands DEF Held
        <5>2. QED
          BY <1>1, <3>1, <3>2, <4>1, <4>3, <5>1
      <4>4. QED
        BY <4>2, <4>3
    <3>5. sender' \in Commands => sender' = Wish(g[0])'
      <4>1. g[0] = f[1]
        BY <3>3
      <4>2. channel[1] # Heartbeat => channel[1] = Wish(f[1])
        BY <3>2
      <4>3. QED
        BY <1>2, <2>2, <4>1, <4>2, NamesOfCommands
    <3>6. ASSUME NEW k \in 1 .. L - 1
          PROVE  \/ channel'[k] = Heartbeat /\ g[k] = g[k - 1]
                 \/ channel'[k] # Heartbeat /\ g[k] = g[k - 1] + 1
                    /\ channel'[k] = Wish(g[k])'
      <4>1. /\ k \in Nat /\ k - 1 \in Nat /\ (k - 1) + 1 = k
            /\ k + 1 \in 1 .. L /\ (k + 1) - 1 = k
        BY <2>2
      <4>2. g[k] = f[k + 1] /\ g[k - 1] = f[k] /\ channel'[k] = channel[k + 1]
        BY <2>2, <3>3, <4>1
      <4>3. \/ channel[k + 1] = Heartbeat /\ f[k + 1] = f[(k + 1) - 1]
            \/ channel[k + 1] # Heartbeat /\ f[k + 1] = f[(k + 1) - 1] + 1
               /\ channel[k + 1] = Wish(f[k + 1])
        BY <2>4, <4>1 DEF Counts
      <4>4. QED
        BY <1>2, <4>1, <4>2, <4>3
    <3>7. ASSUME NEW k \in 0 .. L - 1 PROVE g[k] <= g[L - 1]
      <4>1. /\ k \in Nat /\ k + 1 \in 0 .. L
            /\ L - 1 \in Nat /\ (L - 1) + 1 = L
        BY <2>2
      <4>2. f[k + 1] <= f[L]
        BY <2>4, <4>1 DEF Counts
      <4>3. QED
        BY <3>3, <4>1, <4>2
    <3>8. g[L - 1] + Waiting' = Due'
      <4>1. L - 1 \in Nat /\ (L - 1) + 1 = L
        BY <2>2
      <4>2. g[L - 1] = f[L]
        BY <3>3, <4>1
      <4>3. QED
        BY <1>4, <2>4, <4>2 DEF Counts
    <3> HIDE DEF L
    <3>9. Counts(g)'
      BY <2>2, <3>3, <3>4, <3>5, <3>6, <3>7, <3>8 DEF Counts
    <3>10. QED
      BY <3>9
  <2>5. QED
    BY <1>1, <1>3, <2>3, <2>4 DEF Kept, OnTheWay
<1>7. QED
  BY <1>5, <1>6

LEMMA WritesKept == Inv /\ Kept /\ Writes => Kept'
<1> SUFFICES ASSUME Inv, Kept, Writes PROVE Kept'
  OBVIOUS
<1> USE DEF Inv
<1>1. /\ sender \in Messages
      /\ UNCHANGED <<input, typed, channel, beat, link, open>>
  BY DEF Writes, Sending
<1>2. \A k : Wish(k)' = Wish(k)
  BY <1>1 DEF Wish
<1>3. Waiting' = Waiting /\ Due' = Due
  BY <1>1 DEF Waiting, Due
<1>4. Ends'
  BY <1>1 DEF Kept, Ends, Writes
<1>5. CASE UNCHANGED <<sender, arrived>>
  BY <1>1, <1>5, Unaffected
<1>6. CASE sender' = "range" /\ arrived' = arrived
           /\ (sender = Heartbeat \/ link # "up")
  <2>1. Arrivals'
    BY <1>1, <1>2, <1>6 DEF Kept, Arrivals
  <2>2. ASSUME NEW f, Counts(f), link = "up" PROVE Counts(f)'
    <3>1. Held = 0 /\ Held' = 0
      BY <1>6, <2>2, NamesOfCommands DEF Held
    <3>2. sender' \notin Commands
      BY <1>6, NamesOfCommands
    <3>3. QED
      BY <1>1, <1>2, <1>3, <1>6, <2>2, <3>1, <3>2 DEF Counts
  <2>3. QED
    BY <1>1, <1>4, <2>1, <2>2 DEF Kept, OnTheWay
<1>7. CASE /\ sender' = "range" /\ arrived' = Append(arrived, sender)
           /\ sender # Heartbeat /\ link = "up"
  <2>1. sender \in Commands /\ Held = 1 /\ sender' \notin Commands /\ Held' = 0
    BY <1>1, <1>7, NamesOfCommands DEF Held
  <2>2. /\ Len(arrived) \in Nat /\ Len(arrived') = Len(arrived) + 1
        /\ arrived'[Len(arrived) + 1] = sender
        /\ \A k \in 1 .. Len(arrived) : arrived'[k] = arrived[k]
    BY <1>1, <1>7, Appended DEF TypeOK
  <2>3. PICK f : Counts(f)
    BY <1>7 DEF Kept, OnTheWay
  <2>4. /\ f \in [Nat -> Nat] /\ f[0] = Len(arrived) + 1
        /\ sender = Wish(Len(arrived) + 1)
    BY <2>1, <2>3 DEF Counts
  <2>5. /\ Len(channel) \in Nat /\ Len(typed) \in Nat
        /\ f[Len(channel)] \in Nat /\ f[0] <= f[Len(channel)]
    <3>1. Len(channel) \in Nat /\ Len(typed) \in Nat
      BY LenProperties DEF TypeOK
    <3>2. 0 \in 0 .. Len(channel)
      BY <3>1
    <3>3. QED
      BY <2>3, <2>4, <3>1, <3>2 DEF Counts
  <2>6. f[Len(channel)] + Waiting = Due
    BY <2>3 DEF Counts
  <2>7. /\ f[Len(channel)] <= Len(typed) + 1
        /\ f[Len(channel)] = Len(typed) + 1 => beat \in {"close", "gone"}
    BY <2>5, <2>6 DEF Waiting, Due
  <2>8. Arrivals'
    <3>1. Len(arrived') <= Len(typed) + 1
      BY <2>2, <2>4, <2>5, <2>7
    <3>2. Len(arrived') = Len(typed) + 1 => input = "gone"
      <4>1. SUFFICES ASSUME Len(arrived') = Len(typed) + 1
                     PROVE  beat \in {"close", "gone"}
        BY DEF Order
      <4>2. QED
        BY <2>2, <2>4, <2>5, <2>7, <4>1
    <3>3. ASSUME NEW k \in 1 .. Len(arrived) + 1 PROVE arrived'[k] = Wish(k)
      <4>1. CASE k = Len(arrived) + 1
        BY <2>2, <2>4, <4>1
      <4>2. CASE k # Len(arrived) + 1
        <5>1. k \in 1 .. Len(arrived)
          BY <2>2, <4>2
        <5>2. QED
          BY <2>2, <5>1 DEF Kept, Arrivals
      <4>3. QED
        BY <4>1, <4>2
    <3>4. QED
      BY <1>1, <1>2, <2>2, <3>1, <3>2, <3>3 DEF Arrivals
  <2>9. Counts(f)'
    <3>1. f[0] = Len(arrived') + Held'
      BY <2>1, <2>2, <2>4
    <3>2. QED
      BY <1>1, <1>2, <1>3, <2>1, <2>3, <3>1 DEF Counts
  <2>10. QED
    BY <1>4, <2>8, <2>9 DEF Kept, OnTheWay
<1>8. QED
  BY <1>5, <1>6, <1>7 DEF Writes

LEMMA NextKept == Inv /\ Kept /\ [Next]_vars => Kept'
<1> SUFFICES ASSUME Inv, Kept, [Next]_vars PROVE Kept'
  OBVIOUS
<1> USE DEF goroutines
<1>1. ASSUME NEW k \in Keys, Press(k) PROVE Kept'
  BY <1>1, PressKept
<1>2. CASE InputSends
  BY <1>2, InputSendsKept
<1>3. CASE Leaves
  BY <1>3, Unaffected DEF Leaves
<1>4. CASE Stops
  BY <1>4, Unaffected DEF Stops
<1>5. CASE Closes
  BY <1>5, Unaffected DEF Closes
<1>6. CASE BeatLoops
  <2>1. beat \notin {"close", "gone"} /\ beat' \notin {"close", "gone"}
    BY <1>6 DEF BeatLoops, Deferred, Heartbeat
  <2>2. QED
    BY <1>6, <2>1, Unaffected DEF BeatLoops
<1>7. CASE BeatSends
  BY <1>7, BeatSendsKept
<1>8. CASE BeatCloses
  <2>1. beat = "close" /\ beat' = "gone" /\ ~open'
    BY <1>8 DEF BeatCloses, Deferred
  <2>2. UNCHANGED <<input, channel, typed, arrived, sender, link>>
    BY <1>8 DEF BeatCloses
  <2>3. QED
    BY <2>1, <2>2, Unaffected
<1>9. CASE Takes
  BY <1>9, TakesKept
<1>10. CASE Writes
  BY <1>10, WritesKept
<1>11. CASE WriteFails
  <2>1. /\ sender' = "range" /\ link' = "down"
        /\ UNCHANGED <<input, channel, typed, arrived, open>>
    BY <1>11 DEF WriteFails, NextOne
  <2>2. \A k : Wish(k)' = Wish(k)
    BY <2>1 DEF Wish
  <2>3. QED
    BY <2>1, <2>2 DEF Kept, Arrivals, Ends, OnTheWay
<1>12. CASE ReceiverLoops
  BY <1>12, Unaffected DEF ReceiverLoops
<1>13. CASE Receives
  BY <1>13, Unaffected DEF Receives
<1>14. CASE DroneSends
  BY <1>14, Unaffected DEF DroneSends
<1>15. CASE LinkFails
  BY <1>15, Unaffected DEF LinkFails
<1>16. CASE LinkTimesOut
  BY <1>16, Unaffected DEF LinkTimesOut
<1>17. CASE Over
  BY <1>17, Unaffected DEF Over, vars
<1>18. CASE UNCHANGED vars
  BY <1>18, Unaffected DEF vars
<1>19. QED
  BY <1>1, <1>2, <1>3, <1>4, <1>5, <1>6, <1>7, <1>8, <1>9, <1>10, <1>11,
     <1>12, <1>13, <1>14, <1>15, <1>16, <1>17, <1>18 DEF Next, Goroutines

\* What is to arrive, as a sequence.
LEMMA Wishes ==
  ASSUME Inv
  PROVE  LET all == Append(typed, "DISCONNECT") IN
         /\ all \in Seq(Messages) /\ Len(all) = Len(typed) + 1
         /\ Len(typed) \in Nat
         /\ \A k \in 1 .. Len(all) : all[k] = Wish(k)
<1> DEFINE all == Append(typed, "DISCONNECT")
<1>1. typed \in Seq(Messages) /\ "DISCONNECT" \in Messages
  BY SeqMonotonic DEF Inv, TypeOK, Messages
<1>2. /\ all \in Seq(Messages) /\ Len(typed) \in Nat
      /\ Len(all) = Len(typed) + 1 /\ all[Len(typed) + 1] = "DISCONNECT"
      /\ \A k \in 1 .. Len(typed) : all[k] = typed[k]
  BY <1>1, AppendProperties, LenProperties
<1> HIDE DEF all
<1>3. ASSUME NEW k \in 1 .. Len(typed) + 1 PROVE all[k] = Wish(k)
  <2>1. CASE k = Len(typed) + 1
    BY <1>2, <2>1 DEF Wish
  <2>2. CASE k # Len(typed) + 1
    <3>1. k \in 1 .. Len(typed)
      BY <1>2, <2>2
    <3>2. QED
      BY <1>2, <3>1 DEF Wish
  <2>3. QED
    BY <2>1, <2>2
<1>4. QED
  BY <1>2, <1>3 DEF all

\* What arrives at the drone is what the pilot typed, in order, and DISCONNECT
\* last, for every capacity of the channel and wherever the link fails (the
\* channel of base.New and its goroutine that sends).
THEOREM InOrder == Spec => []OrderKept
<1>1. Inv /\ Kept => OrderKept
  <2> SUFFICES ASSUME Inv, Kept PROVE OrderKept
    OBVIOUS
  <2> DEFINE all == Append(typed, "DISCONNECT")
             n == Len(arrived)
  <2>1. /\ all \in Seq(Messages) /\ Len(all) = Len(typed) + 1
        /\ Len(typed) \in Nat /\ \A k \in 1 .. Len(all) : all[k] = Wish(k)
    BY Wishes
  <2> HIDE DEF all
  <2>2. /\ arrived \in Seq(Messages) /\ n \in Nat /\ n <= Len(all)
        /\ \A k \in 1 .. n : arrived[k] = all[k]
    <3>1. arrived \in Seq(Messages) /\ n \in Nat
      BY LenProperties DEF Inv, TypeOK
    <3>2. n <= Len(all) /\ \A k \in 1 .. n : arrived[k] = Wish(k)
      BY <2>1 DEF Kept, Arrivals
    <3>3. \A k \in 1 .. n : k \in 1 .. Len(all)
      BY <2>1, <3>1, <3>2
    <3>4. QED
      BY <2>1, <3>1, <3>2, <3>3
  <2>3. /\ SubSeq(arrived, 1, n) \in Seq(Messages)
        /\ Len(SubSeq(arrived, 1, n)) = n
        /\ \A k \in 1 .. n : SubSeq(arrived, 1, n)[k] = arrived[k]
    <3>1. SubSeq(arrived, 1, n) = arrived
      BY <2>2, SubSeqFull
    <3>2. QED
      BY <2>2, <3>1
  <2>4. /\ SubSeq(all, 1, n) \in Seq(Messages)
        /\ Len(SubSeq(all, 1, n)) = n
        /\ \A k \in 1 .. n : SubSeq(all, 1, n)[k] = all[k]
    <3>1. \A k \in 1 .. n : all[k] \in Messages
      <4>1. \A k \in 1 .. n : k \in 1 .. Len(all)
        BY <2>1, <2>2
      <4>2. QED
        BY <2>1, <4>1, ElementOfSeq
    <3>2. /\ SubSeq(all, 1, n) \in Seq(Messages)
          /\ Len(SubSeq(all, 1, n)) = IF 1 <= n THEN n - 1 + 1 ELSE 0
          /\ \A k \in 1 .. n - 1 + 1 : SubSeq(all, 1, n)[k] = all[1 + k - 1]
      BY <2>2, <3>1, SubSeqProperties
    <3>3. /\ n - 1 + 1 = n /\ (~(1 <= n) => n = 0)
          /\ \A k \in 1 .. n : 1 + k - 1 = k
      BY <2>2
    <3>4. QED
      BY <3>2, <3>3
  <2>5. SubSeq(arrived, 1, n) = SubSeq(all, 1, n)
    <3>1. /\ Len(SubSeq(arrived, 1, n)) = Len(SubSeq(all, 1, n))
          /\ \A k \in 1 .. Len(SubSeq(arrived, 1, n)) :
                 SubSeq(arrived, 1, n)[k] = SubSeq(all, 1, n)[k]
      BY <2>2, <2>3, <2>4
    <3>2. QED
      BY <2>3, <2>4, <3>1, SeqEqual
  <2>6. QED
    BY <2>2, <2>5 DEF OrderKept, IsPrefix, all
<1>2. QED
  BY <1>1, InitInv, NextInv, InitKept, NextKept, PTL DEF Spec

\* On a link that held, Close returns after everything was delivered.
THEOREM CloseDelivers == Spec => ClosedAfterAll
<1>1. ASSUME Inv, Kept, [Next]_vars, main' = "closed", main # "closed",
             link = "up"
      PROVE  arrived = Append(typed, "DISCONNECT")
  <2>1. Closes
    BY <1>1 DEF Next, Goroutines, Press, InputSends, Leaves, Stops, BeatLoops,
                BeatSends, BeatCloses, Takes, Writes, WriteFails,
                ReceiverLoops, Receives, DroneSends, LinkFails, LinkTimesOut,
                Over, vars
  <2>2. beat = "gone" /\ sender = "gone" /\ channel = <<>> /\ ~open
    BY <1>1, <2>1 DEF Closes, Waited, WaitedForTwo, Kept, Ends
  <2>3. input = "gone" /\ input \notin KeyMessages /\ sender \notin Commands
    BY <1>1, <2>2, NamesDiffer, NamesOfCommands DEF Inv, Order
  <2>4. PICK f : Counts(f)
    BY <1>1 DEF Kept, OnTheWay
  <2>5. Len(channel) = 0 /\ Waiting = 0 /\ Held = 0 /\ Due = Len(typed) + 1
    BY <2>2, <2>3 DEF Waiting, Held, Due
  <2>6. Len(arrived) \in Nat /\ Len(typed) \in Nat
    BY <1>1, LenProperties DEF Inv, TypeOK
  <2>7. f[0] = Len(arrived) + 0 /\ f[0] + 0 = Len(typed) + 1
    BY <2>4, <2>5 DEF Counts
  <2>8. Len(arrived) = Len(typed) + 1
    BY <2>6, <2>7
  <2> DEFINE all == Append(typed, "DISCONNECT")
  <2>9. /\ all \in Seq(Messages) /\ Len(all) = Len(typed) + 1
        /\ \A k \in 1 .. Len(all) : all[k] = Wish(k)
    BY <1>1, Wishes
  <2> HIDE DEF all
  <2>10. arrived \in Seq(Messages)
         /\ \A k \in 1 .. Len(arrived) : arrived[k] = all[k]
    BY <1>1, <2>8, <2>9 DEF Inv, TypeOK, Kept, Arrivals
  <2>11. arrived = all
    BY <2>8, <2>9, <2>10, SeqEqual
  <2>12. QED
    BY <2>11 DEF all
<1>2. Inv /\ Kept /\ [Next]_vars
        => [main' = "closed" /\ main # "closed" /\ link = "up"
              => arrived = Append(typed, "DISCONNECT")]_vars
  BY <1>1
<1>3. QED
  BY <1>2, InitInv, NextInv, InitKept, NextKept, PTL DEF Spec, ClosedAfterAll

=============================================================================
