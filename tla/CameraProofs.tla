---------------------------- MODULE CameraProofs ----------------------------
(***************************************************************************)
(* Theorems about Camera, for every size of the pools and any coordinates: *)
(* resources are acquired and released in an order that leaves none        *)
(* without what it needs, no buffer is lost or away when its pool is       *)
(* destroyed, and a reset is not lost.                                     *)
(***************************************************************************)
EXTENDS Camera, SequenceTheorems, TLAPS

USE SizeAssumption, AxesAssumption

MainPlaces == {"constructor", "start", "sendBuffers", "running", "destructor",
               "release", "thrown", "terminated"}
InFrame == {"check", "set", "keep", "compare", "load", "store"}
Places == {"none", "release", "released", "send"} \cup InFrame

Ages == {Stale, Fresh}

Flags ==
    /\ capture \in BOOLEAN /\ running \in BOOLEAN
    /\ positionEnabled \in BOOLEAN /\ hasFirst \in BOOLEAN
    /\ overlapped \in BOOLEAN

Typed ==
    /\ main \in MainPlaces /\ step \in Nat \ {0} /\ toSend \in Nat
    /\ enabled \in [Ports -> BOOLEAN] /\ callback \in [Ports -> Places]
    /\ free \in [Ports -> Nat] /\ atPort \in [Ports -> Nat]
    /\ lost \in [Ports -> Nat]
    /\ first \in Ages /\ estimate \in Ages
    /\ axis \in DOMAIN Axes /\ position \in [DOMAIN Axes -> Ages]
    /\ resetting \in 0 .. Len(Axes)
    /\ main = "sendBuffers" => step <= Len(StartOrder)

-----------------------------------------------------------------------------
(* The resources.                                                          *)

Up == {"start", "sendBuffers", "running", "destructor", "terminated"}

\* What there is, by the place of main.
Holds ==
    CASE main \in {"constructor", "thrown"} ->
            {Acquired[k] : k \in 1 .. step - 1}
      [] main = "release" -> Resources \ {Released[k] : k \in 1 .. step - 1}
      [] OTHER -> Resources

HeldInv ==
    /\ held = Holds
    /\ main \in {"constructor", "thrown"} => step <= Len(Acquired) + 1
    /\ main = "release" => step <= Len(Released) + 1

-----------------------------------------------------------------------------
(* The buffers.                                                            *)

\* Nothing is on its way to or from the port, and nothing will be.
Sealed(p) == ~enabled[p] /\ Quiet(p)

\* Buffers a callback has returned to the pool and not yet replaced.
Surplus(p) == IF callback[p] \in {"released", "send"} THEN 1 ELSE 0

\* start has done with port p, or is sending the buffers of its pool.
SentTo(p) ==
    \/ main = "running"
    \/ /\ main \in {"start", "sendBuffers"}
       /\ \E k \in 1 .. step - 1 : k <= Len(StartOrder) /\ StartOrder[k] = p
Sending(p) == main = "sendBuffers" /\ StartOrder[step] = p

\* The third and fourth conjuncts make the queue of a pool that start has
\* emptied stay so: what a callback returns it takes out again.
BufferOf(p) ==
    /\ free[p] + atPort[p] + lost[p] =
          IF callback[p] \in {"none", "released", "send"}
          THEN Size ELSE Size - 1
    /\ main \in {"start", "sendBuffers", "running"} => enabled[p]
    /\ SentTo(p) => free[p] <= Surplus(p)
    /\ Sending(p) => free[p] <= toSend + Surplus(p)
    /\ main \in {"constructor", "thrown"} => Quiet(p)
    /\ main = "constructor" => (p \in held => enabled[p])
    /\ main = "release" /\ p \notin held => Sealed(p)

BufferInv == \A p \in Ports : BufferOf(p)

-----------------------------------------------------------------------------
(* The position.                                                           *)

\* What a callback has computed is fresh as far as the coordinates it has
\* loaded are cleared; a reset that meets it makes it overlapped.
PictureInv ==
    /\ hasFirst /\ callback["rawPort"] # "keep" => first = Fresh
    /\ ~overlapped =>
          /\ \A a \in Zeroed : position[a] = Fresh
          /\ callback["rawPort"] = "compare" => first = Fresh
          /\ callback["rawPort"] = "load" /\ 1 .. axis - 1 \subseteq Zeroed
                => estimate = Fresh
          /\ callback["rawPort"] = "store" /\ 1 .. axis \subseteq Zeroed
                => estimate = Fresh
-----------------------------------------------------------------------------
(* The tables.                                                             *)

LEMMA AcquiredIs ==
  /\ Len(Acquired) = 15 /\ DOMAIN Acquired = 1 .. 15
  /\ Acquired[1] = "camera" /\ Acquired[2] = "cameraEnabled"
  /\ Acquired[3] = "encoder" /\ Acquired[4] = "encoderEnabled"
  /\ Acquired[5] = "encoderPool"
  /\ Acquired[6] = "splitter" /\ Acquired[7] = "splitterEnabled"
  /\ Acquired[8] = "splitterPool"
  /\ Acquired[9] = "preview" /\ Acquired[10] = "previewEnabled"
  /\ Acquired[11] = "previewConnection"
  /\ Acquired[12] = "splitterConnection"
  /\ Acquired[13] = "encoderConnection"
  /\ Acquired[14] = "rawPort" /\ Acquired[15] = "encoderPort"
  BY DEF Acquired, CameraStage, EncoderStage, SplitterStage, PreviewStage,
         ConnectionStage, PortStage

LEMMA ReleasedIs ==
  /\ Len(Released) = 15
  /\ Released[1] = "encoderPort" /\ Released[2] = "rawPort"
  /\ Released[3] = "splitterEnabled" /\ Released[4] = "encoderEnabled"
  /\ Released[5] = "previewEnabled" /\ Released[6] = "cameraEnabled"
  /\ Released[7] = "encoderConnection" /\ Released[8] = "previewConnection"
  /\ Released[9] = "splitterConnection"
  /\ Released[10] = "encoderPool" /\ Released[11] = "splitterPool"
  /\ Released[12] = "splitter" /\ Released[13] = "encoder"
  /\ Released[14] = "preview" /\ Released[15] = "camera"
  BY DEF Released

LEMMA Lengths == Len(Acquired) = 15 /\ Len(Released) = 15
BY AcquiredIs, ReleasedIs

LEMMA ResourcesAcquired == Resources = {Acquired[k] : k \in 1 .. 15}
BY AcquiredIs DEF Resources, ToSet

LEMMA ResourcesAre ==
  Resources =
    {"camera", "cameraEnabled", "encoder", "encoderEnabled", "encoderPool",
     "splitter", "splitterEnabled", "splitterPool", "preview",
     "previewEnabled", "previewConnection", "splitterConnection",
     "encoderConnection", "rawPort", "encoderPort"}
<1>1. Resources = {Acquired[k] : k \in 1 .. 15}
  BY ResourcesAcquired
<1>2. ASSUME NEW r \in Resources
      PROVE  r \in {"camera", "cameraEnabled", "encoder", "encoderEnabled",
                     "encoderPool", "splitter", "splitterEnabled",
                     "splitterPool", "preview", "previewEnabled",
                     "previewConnection", "splitterConnection",
                     "encoderConnection", "rawPort", "encoderPort"}
  BY <1>1, AcquiredIs
<1>3. QED
  BY <1>1, <1>2, AcquiredIs

LEMMA NeedsAre ==
  /\ Needs["camera"] = {} /\ Needs["cameraEnabled"] = {"camera"}
  /\ Needs["encoder"] = {} /\ Needs["encoderEnabled"] = {"encoder"}
  /\ Needs["encoderPool"] = {"encoder"}
  /\ Needs["splitter"] = {} /\ Needs["splitterEnabled"] = {"splitter"}
  /\ Needs["splitterPool"] = {"splitter"}
  /\ Needs["preview"] = {} /\ Needs["previewEnabled"] = {"preview"}
  /\ Needs["previewConnection"] = {"camera", "preview"}
  /\ Needs["splitterConnection"] = {"camera", "splitter"}
  /\ Needs["encoderConnection"] = {"splitter", "encoder"}
  /\ Needs["encoderPort"] = {"encoder", "encoderPool"}
  /\ Needs["rawPort"] = {"splitter", "splitterPool"}
  BY ResourcesAre DEF Needs

\* The constructor acquires what a resource needs before it ...
LEMMA BuildOrder ==
  ASSUME NEW s \in 1 .. 16
  PROVE  LET there == {Acquired[k] : k \in 1 .. s - 1}
         IN  \A r \in there : r \in Resources /\ Needs[r] \subseteq there
<1> DEFINE there == {Acquired[k] : k \in 1 .. s - 1}
<1> SUFFICES ASSUME NEW r \in there
             PROVE  r \in Resources /\ Needs[r] \subseteq there
  OBVIOUS
<1>1. PICK k \in 1 .. s - 1 : r = Acquired[k]
  OBVIOUS
<1>2. k \in 1 .. 15 /\ r \in Resources
  <2>1. k \in 1 .. 15
    BY <1>1
  <2>2. QED
    BY <2>1, <1>1, ResourcesAcquired, Zenon
<1>3. ASSUME NEW n \in Needs[r]
      PROVE  \E j \in 1 .. k - 1 : n = Acquired[j]
  <2>1. CASE k \in {1, 3, 6, 9}
    BY <1>1, <1>3, <2>1, AcquiredIs, NeedsAre
  <2>2. CASE k = 2
    BY <1>1, <1>3, <2>2, AcquiredIs, NeedsAre
  <2>3. CASE k \in {4, 5}
    BY <1>1, <1>3, <2>3, AcquiredIs, NeedsAre
  <2>4. CASE k \in {7, 8}
    BY <1>1, <1>3, <2>4, AcquiredIs, NeedsAre
  <2>5. CASE k = 10
    BY <1>1, <1>3, <2>5, AcquiredIs, NeedsAre
  <2>6. CASE k = 11
    BY <1>1, <1>3, <2>6, AcquiredIs, NeedsAre
  <2>7. CASE k = 12
    BY <1>1, <1>3, <2>7, AcquiredIs, NeedsAre
  <2>8. CASE k = 13
    BY <1>1, <1>3, <2>8, AcquiredIs, NeedsAre
  <2>9. CASE k = 14
    BY <1>1, <1>3, <2>9, AcquiredIs, NeedsAre
  <2>10. CASE k = 15
    BY <1>1, <1>3, <2>10, AcquiredIs, NeedsAre
  <2>11. k \in {1, 3, 6, 9} \cup {2} \cup {4, 5} \cup {7, 8}
                \cup 10 .. 15
    BY <1>2
  <2>12. QED
    BY <2>1, <2>2, <2>3, <2>4, <2>5, <2>6, <2>7, <2>8, <2>9, <2>10, <2>11
<1>4. QED
  BY <1>2, <1>3

\* ... and the destructor releases it after it.
LEMMA ReleaseOrder ==
  ASSUME NEW s \in 1 .. 16
  PROVE  LET there == Resources \ {Released[k] : k \in 1 .. s - 1}
         IN  \A r \in there : Needs[r] \subseteq there
<1> DEFINE gone == {Released[k] : k \in 1 .. s - 1}
<1> SUFFICES ASSUME NEW r \in Resources \ gone, NEW n \in Needs[r]
             PROVE  n \in Resources \ gone
  OBVIOUS
<1>1. n \in Resources
  BY ResourcesAre, NeedsAre
<1>2. PICK j \in 1 .. 15 : r = Released[j]
  BY ResourcesAre, ReleasedIs
<1>3. j >= s
  BY <1>2
<1>4. ASSUME NEW k \in 1 .. s - 1, n = Released[k] PROVE FALSE
  <2>1. CASE j = 1
    BY <1>2, <1>3, <1>4, <2>1, ReleasedIs, NeedsAre
  <2>2. CASE j = 2
    BY <1>2, <1>3, <1>4, <2>2, ReleasedIs, NeedsAre
  <2>3. CASE j = 3
    BY <1>2, <1>3, <1>4, <2>3, ReleasedIs, NeedsAre
  <2>4. CASE j = 4
    BY <1>2, <1>3, <1>4, <2>4, ReleasedIs, NeedsAre
  <2>5. CASE j = 5
    BY <1>2, <1>3, <1>4, <2>5, ReleasedIs, NeedsAre
  <2>6. CASE j = 6
    BY <1>2, <1>3, <1>4, <2>6, ReleasedIs, NeedsAre
  <2>7. CASE j = 7
    BY <1>2, <1>3, <1>4, <2>7, ReleasedIs, NeedsAre
  <2>8. CASE j = 8
    BY <1>2, <1>3, <1>4, <2>8, ReleasedIs, NeedsAre
  <2>9. CASE j = 9
    BY <1>2, <1>3, <1>4, <2>9, ReleasedIs, NeedsAre
  <2>10. CASE j = 10
    BY <1>2, <1>3, <1>4, <2>10, ReleasedIs, NeedsAre
  <2>11. CASE j = 11
    BY <1>2, <1>3, <1>4, <2>11, ReleasedIs, NeedsAre
  <2>12. CASE j \in 12 .. 15
    BY <1>2, <2>12, ReleasedIs, NeedsAre
  <2>13. QED
    BY <2>1, <2>2, <2>3, <2>4, <2>5, <2>6, <2>7, <2>8, <2>9, <2>10, <2>11,
       <2>12
<1>5. QED
  BY <1>1, <1>4

-----------------------------------------------------------------------------
(* Types.                                                                  *)

LEMMA AxesFacts ==
  /\ 1 \in DOMAIN Axes /\ DOMAIN Axes = 1 .. Len(Axes)
  /\ Len(Axes) \in Nat
  OBVIOUS

\* The steps of a reset.
LEMMA ResetSteps ==
  ASSUME NEW n \in Nat, NEW r \in 0 .. n, r # 0
  PROVE  /\ r \in 1 .. n /\ 1 .. r \subseteq 1 .. n
         /\ (IF r = n THEN 0 ELSE r + 1) \in 0 .. n
         /\ \A a \in 1 .. r : a # r => a \in 1 .. r - 1
  OBVIOUS

LEMMA StartOrderIs ==
  /\ Len(StartOrder) = 2 /\ StartOrder[1] = "encoderPort"
  /\ StartOrder[2] = "rawPort" /\ Ports = {"encoderPort", "rawPort"}
  BY DEF StartOrder, Ports

LEMMA InitTyped == Init => Flags /\ Typed
<1> SUFFICES ASSUME Init PROVE Flags /\ Typed
  OBVIOUS
<1>1. Flags
  BY Zenon DEF Init, Flags
<1>2. /\ main \in MainPlaces /\ step = 1 /\ toSend = 0
      /\ enabled \in [Ports -> BOOLEAN] /\ callback \in [Ports -> Places]
      /\ first \in Ages /\ estimate \in Ages /\ axis = 1
      /\ resetting = 0 /\ main # "sendBuffers"
  BY DEF Init, MainPlaces, Places, Ages
<1>3. /\ free \in [Ports -> Nat] /\ atPort \in [Ports -> Nat]
      /\ lost \in [Ports -> Nat] /\ position \in [DOMAIN Axes -> Ages]
  BY DEF Init, Ages
<1>4. QED
  BY <1>1, <1>2, <1>3, AxesFacts DEF Typed

\* The flags are Booleans.
LEMMA NextFlags ==
  ASSUME Flags, [Next]_vars
  PROVE  Flags'
<1> USE DEF Flags, lifecycle, buffers, picture
<1>1. CASE Start \/ Started \/ Stop \/ Destructor
  BY <1>1, Zenon DEF Start, Started, Stop, Destructor
<1>2. CASE Construct \/ ConstructThrows \/ SampleQueue \/ SendBuffers
  BY <1>2, Zenon
     DEF Construct, ConstructThrows, SampleQueue, SendBuffers
<1>3. CASE DisablePort \/ Release
  BY <1>3, Zenon DEF DisablePort, Release
<1>4. CASE RawCallback
  BY <1>4, Zenon DEF RawCallback, Check, SetFirst, KeepFirst, Compare,
                     LoadPosition, StorePosition
<1>5. CASE ResetPosition \/ ZeroPosition
  <2>1. Overlaps \in BOOLEAN /\ (overlapped \/ Overlaps) \in BOOLEAN
    BY DEF Overlaps
  <2>2. QED
    BY <1>5, <2>1, Zenon DEF ResetPosition, ZeroPosition, Cleared
<1>6. ASSUME NEW p \in Ports, Frame(p) \/ Callback(p) PROVE Flags'
  BY <1>6, Zenon DEF Callback, Frame, Flush, ReleaseBuffer, LooksAtEnabled,
                     SendNext
<1>7. CASE Over \/ UNCHANGED vars
  BY <1>7, Zenon DEF Over, vars
<1>8. QED
  BY <1>1, <1>2, <1>3, <1>4, <1>5, <1>6, <1>7 DEF Next, MainThread

\* A buffer is taken out of a queue that is not empty.
LEMMA SendTyped ==
  ASSUME NEW p \in Ports, NEW sent, GetAndSend(p, sent), free[p] - 1 \in Nat,
         free \in [Ports -> Nat], atPort \in [Ports -> Nat],
         lost \in [Ports -> Nat]
  PROVE  /\ free' \in [Ports -> Nat] /\ atPort' \in [Ports -> Nat]
         /\ lost' \in [Ports -> Nat]
  BY DEF GetAndSend

\* What the main thread does.
LEMMA MainTyped ==
  ASSUME Typed, MainThread
  PROVE  Typed'
<1> USE DEF Typed, MainPlaces
<1>1. CASE Construct
  BY <1>1 DEF Construct, picture
<1>2. CASE ConstructThrows
  BY <1>2 DEF ConstructThrows, picture, buffers
<1>3. CASE Start
  <2>1. main' \in {"start", "destructor"} /\ step' = 1
    BY <1>3, Zenon DEF Start
  <2>2. QED
    BY <1>3, <2>1 DEF Start, picture, buffers
<1>4. CASE SampleQueue
  BY <1>4, StartOrderIs DEF SampleQueue, picture, buffers
<1>5. CASE SendBuffers
  <2> DEFINE p == StartOrder[step]
  <2>1. p \in Ports
    BY <1>5, StartOrderIs DEF SendBuffers
  <2>2. CASE toSend > 0 /\ free[p] # 0
    <3>1. PICK sent \in BOOLEAN : GetAndSend(p, sent)
      BY <1>5, <2>2 DEF SendBuffers
    <3>2. free[p] - 1 \in Nat /\ toSend - 1 \in Nat
      BY <2>1, <2>2
    <3>3. /\ free' \in [Ports -> Nat] /\ atPort' \in [Ports -> Nat]
          /\ lost' \in [Ports -> Nat]
      BY <2>1, <3>1, <3>2, SendTyped
    <3>4. main' = main /\ step' = step /\ toSend' = toSend - 1
      BY <1>5, <2>2 DEF SendBuffers
    <3>5. QED
      BY <1>5, <3>2, <3>3, <3>4 DEF SendBuffers, picture
  <2>3. CASE toSend = 0
    BY <1>5, <2>3 DEF SendBuffers, picture
  <2>4. CASE toSend > 0 /\ free[p] = 0
    <3>1. /\ main' = main /\ step' = step /\ toSend' = toSend - 1
          /\ toSend' \in Nat /\ UNCHANGED <<free, atPort, lost>>
      BY <1>5, <2>4 DEF SendBuffers
    <3>2. QED
      BY <1>5, <3>1 DEF SendBuffers, picture
  <2>5. QED
    BY <2>2, <2>3, <2>4
<1>6. CASE Started
  BY <1>6 DEF Started, picture, buffers
<1>7. CASE Stop
  BY <1>7 DEF Stop, picture, buffers
<1>8. CASE Destructor
  <2>1. main' \in {"release", "terminated"} /\ step' = 1
    BY <1>8, Zenon DEF Destructor
  <2>2. QED
    BY <1>8, <2>1 DEF Destructor, picture, buffers
<1>9. CASE DisablePort
  BY <1>9 DEF DisablePort, picture, lifecycle
<1>10. CASE Release
  BY <1>10 DEF Release, picture, buffers
<1>11. QED
  BY <1>1, <1>2, <1>3, <1>4, <1>5, <1>6, <1>7, <1>8, <1>9, <1>10
     DEF MainThread

\* What the callbacks do with buffers.
LEMMA CallbackTyped ==
  ASSUME Typed, NEW p \in Ports, Frame(p) \/ Callback(p)
  PROVE  Typed'
<1> USE DEF Typed, Places, Goto, lifecycle, picture
<1>1. CASE Frame(p)
  BY <1>1 DEF Frame, InFrame
<1>2. CASE Flush(p)
  <2>1. atPort[p] - 1 \in Nat
    BY <1>2 DEF Flush
  <2>2. CASE p = "rawPort"
    BY <1>2, <2>1, <2>2 DEF Flush
  <2>3. CASE p # "rawPort"
    BY <1>2, <2>1, <2>3 DEF Flush
  <2>4. QED
    BY <2>2, <2>3
<1>3. CASE ReleaseBuffer(p)
  BY <1>3 DEF ReleaseBuffer
<1>4. CASE LooksAtEnabled(p)
  BY <1>4 DEF LooksAtEnabled, buffers
<1>5. CASE SendNext(p)
  <2>1. CASE free[p] = 0
    BY <1>5, <2>1 DEF SendNext
  <2>2. CASE free[p] # 0
    <3>1. PICK sent : GetAndSend(p, sent)
      BY <1>5, <2>2 DEF SendNext
    <3>2. free[p] - 1 \in Nat
      BY <2>2
    <3>3. /\ free' \in [Ports -> Nat] /\ atPort' \in [Ports -> Nat]
          /\ lost' \in [Ports -> Nat]
      BY <3>1, <3>2, SendTyped
    <3>4. QED
      BY <1>5, <3>3 DEF SendNext
  <2>3. QED
    BY <2>1, <2>2
<1>6. QED
  BY <1>1, <1>2, <1>3, <1>4, <1>5 DEF Callback

\* What callbackRaw does with a frame.
LEMMA RawTyped ==
  ASSUME Typed, RawCallback
  PROVE  Typed'
<1> USE AxesFacts
    DEF Typed, Places, InFrame, Ages, Goto, Raw, Ports, lifecycle, buffers
<1>1. CASE Check
  BY <1>1 DEF Check, picture
<1>2. CASE SetFirst
  BY <1>2 DEF SetFirst
<1>3. CASE KeepFirst
  BY <1>3 DEF KeepFirst
<1>4. CASE Compare
  BY <1>4 DEF Compare
<1>5. CASE LoadPosition
  BY <1>5 DEF LoadPosition, Older
<1>6. CASE StorePosition
  BY <1>6 DEF StorePosition
<1>7. QED
  BY <1>1, <1>2, <1>3, <1>4, <1>5, <1>6 DEF RawCallback

LEMMA NextTyped ==
  ASSUME Typed, [Next]_vars
  PROVE  Typed'
<1>1. CASE ResetPosition
  BY <1>1, AxesFacts DEF Typed, Ages, ResetPosition, lifecycle, buffers
<1>2. CASE ZeroPosition
  <2>1. Len(Axes) \in Nat /\ resetting \in 0 .. Len(Axes) /\ resetting # 0
    BY <1>2, AxesFacts, Zenon DEF Typed, ZeroPosition
  <2>2. resetting' \in 0 .. Len(Axes)
    BY <1>2, <2>1, ResetSteps, Zenon DEF ZeroPosition
  <2>3. position' \in [DOMAIN Axes -> Ages]
    BY <1>2 DEF Typed, Ages, ZeroPosition
  <2>4. QED
    BY <1>2, <2>2, <2>3 DEF Typed, ZeroPosition, lifecycle, buffers
<1>3. CASE UNCHANGED vars
  BY <1>3 DEF Typed, vars, lifecycle, buffers, picture
<1>4. CASE Over
  BY <1>3, <1>4 DEF Over
<1>5. QED
  BY <1>1, <1>2, <1>3, <1>4, MainTyped, CallbackTyped, RawTyped DEF Next

\* The types, for every size of a pool and any coordinates.
THEOREM TypeCorrect == Spec => [](Flags /\ Typed)
<1>1. Flags /\ Typed /\ [Next]_vars => Flags' /\ Typed'
  BY NextFlags, NextTyped
<1>2. QED
  BY <1>1, InitTyped, PTL DEF Spec

-----------------------------------------------------------------------------
(* The resources.                                                          *)

\* Only main acquires and releases, and moves on.
LEMMA OthersKeep ==
  ASSUME NEW p \in Ports,
         \/ RawCallback \/ ResetPosition \/ ZeroPosition
         \/ Frame(p) \/ Callback(p) \/ UNCHANGED vars
  PROVE  UNCHANGED lifecycle
<1> USE DEF vars
<1>1. CASE RawCallback
  BY <1>1 DEF RawCallback, Check, SetFirst, KeepFirst, Compare,
              LoadPosition, StorePosition
<1>2. CASE ResetPosition \/ ZeroPosition
  BY <1>2 DEF ResetPosition, ZeroPosition
<1>3. CASE Frame(p) \/ Callback(p)
  BY <1>3 DEF Callback, Frame, Flush, ReleaseBuffer, LooksAtEnabled, SendNext
<1>4. QED
  BY <1>1, <1>2, <1>3

\* One entry of a table more.
LEMMA OneMore ==
  ASSUME NEW s \in Nat \ {0}
  PROVE  /\ {Acquired[k] : k \in 1 .. (s + 1) - 1}
              = {Acquired[k] : k \in 1 .. s - 1} \cup {Acquired[s]}
         /\ {Released[k] : k \in 1 .. (s + 1) - 1}
              = {Released[k] : k \in 1 .. s - 1} \cup {Released[s]}
<1>1. 1 .. (s + 1) - 1 = (1 .. s - 1) \cup {s}
  OBVIOUS
<1>2. QED
  BY <1>1, Zenon

LEMMA HeldInit == Init => HeldInv
<1> SUFFICES ASSUME Init PROVE HeldInv
  OBVIOUS
<1>1. {Acquired[k] : k \in 1 .. 1 - 1} = {}
  OBVIOUS
<1>2. QED
  BY <1>1, AcquiredIs DEF Init, HeldInv, Holds

LEMMA HeldNext ==
  ASSUME Typed, HeldInv, [Next]_vars
  PROVE  HeldInv'
<1>1. CASE Construct
  <2>1. /\ main = "constructor" /\ main' = main /\ step' = step + 1
        /\ step <= Len(Acquired) /\ held' = held \cup {Acquired[step]}
    BY <1>1 DEF Construct
  <2>2. held = {Acquired[k] : k \in 1 .. step - 1}
    BY <2>1 DEF HeldInv, Holds
  <2>3. {Acquired[k] : k \in 1 .. (step + 1) - 1}
            = {Acquired[k] : k \in 1 .. step - 1} \cup {Acquired[step]}
    BY OneMore DEF Typed
  <2>4. held' = {Acquired[k] : k \in 1 .. step' - 1}
    BY <2>1, <2>2, <2>3
  <2>5. Holds' = {Acquired[k] : k \in 1 .. step' - 1}
    BY <2>1 DEF HeldInv, Holds
  <2>6. step' <= 15 + 1
    BY <2>1, AcquiredIs DEF Typed
  <2>7. QED
    BY <2>1, <2>4, <2>5, <2>6, AcquiredIs, ReleasedIs DEF HeldInv
<1>2. CASE ConstructThrows
  BY <1>2 DEF ConstructThrows, HeldInv, Holds
<1>3. CASE Start
  <2>1. /\ main = "constructor" /\ main' \in {"start", "destructor"}
        /\ step = Len(Acquired) + 1 /\ held' = held
    BY <1>3, AcquiredIs DEF Start, HeldInv, Typed
  <2>2. held = Resources
    BY <2>1, AcquiredIs DEF HeldInv, Holds, Resources, ToSet
  <2>3. QED
    BY <2>1, <2>2 DEF HeldInv, Holds
<1>4. CASE SampleQueue \/ SendBuffers \/ Started \/ Stop
  BY <1>4 DEF SampleQueue, SendBuffers, Started, Stop, HeldInv, Holds
<1>5. CASE Destructor
  <2>1. /\ main = "destructor" /\ main' \in {"release", "terminated"}
        /\ step' = 1 /\ held' = held
    BY <1>5, Zenon DEF Destructor
  <2>2. held = Resources /\ {Released[k] : k \in 1 .. 1 - 1} = {}
    BY <2>1 DEF HeldInv, Holds
  <2>3. QED
    BY <2>1, <2>2, ReleasedIs DEF HeldInv, Holds
<1>6. CASE DisablePort
  BY <1>6 DEF DisablePort, lifecycle, HeldInv, Holds
<1>7. CASE Release
  <2>1. /\ main = "release" /\ main' = main /\ step' = step + 1
        /\ step <= Len(Released) /\ held' = held \ {Released[step]}
    BY <1>7 DEF Release
  <2>2. held = Resources \ {Released[k] : k \in 1 .. step - 1}
    BY <2>1 DEF HeldInv, Holds
  <2>3. {Released[k] : k \in 1 .. (step + 1) - 1}
            = {Released[k] : k \in 1 .. step - 1} \cup {Released[step]}
    BY OneMore DEF Typed
  <2>4. held' = Resources \ {Released[k] : k \in 1 .. step' - 1}
    BY <2>1, <2>2, <2>3
  <2>5. Holds' = Resources \ {Released[k] : k \in 1 .. step' - 1}
    BY <2>1 DEF HeldInv, Holds
  <2>6. step' <= 15 + 1
    BY <2>1, ReleasedIs DEF Typed
  <2>7. QED
    BY <2>1, <2>4, <2>5, <2>6, AcquiredIs, ReleasedIs DEF HeldInv
<1>8. CASE UNCHANGED lifecycle
  BY <1>8 DEF lifecycle, HeldInv, Holds
<1>9. CASE Over
  BY <1>8, <1>9 DEF Over, vars
<1>10. QED
  BY <1>1, <1>2, <1>3, <1>4, <1>5, <1>6, <1>7, <1>8, <1>9, OthersKeep,
     StartOrderIs DEF Next, MainThread

LEMMA HeldAlways == Spec => [](Typed /\ HeldInv)
<1>1. HeldInv /\ Typed /\ [Next]_vars => HeldInv'
  BY HeldNext
<1>2. QED
  BY <1>1, HeldInit, TypeCorrect, PTL DEF Spec

\* Whatever the constructor acquired before it threw, and at every step of the
\* destructor: what a resource uses is there as long as the resource is.
THEOREM NothingUnsupported == Spec => []Supported
<1>1. Typed /\ HeldInv => Supported
  <2> SUFFICES ASSUME Typed, HeldInv PROVE Supported
    OBVIOUS
  <2>1. CASE main \in {"constructor", "thrown"}
    <3>1. held = {Acquired[k] : k \in 1 .. step - 1}
      BY <2>1, Zenon DEF HeldInv, Holds
    <3>2. step \in Nat \ {0} /\ step <= 15 + 1
      BY <2>1, Lengths, Zenon DEF Typed, HeldInv
    <3>3. step \in 1 .. 16
      BY <3>2
    <3>4. QED
      BY <3>1, <3>3, BuildOrder, Zenon DEF Supported
  <2>2. CASE main = "release"
    <3>1. held = Resources \ {Released[k] : k \in 1 .. step - 1}
      BY <2>2 DEF HeldInv, Holds
    <3>2. step \in Nat \ {0} /\ step <= 15 + 1
      BY <2>2, Lengths, Zenon DEF Typed, HeldInv
    <3>3. step \in 1 .. 16
      BY <3>2
    <3>4. QED
      BY <3>1, <3>3, ReleaseOrder, Zenon DEF Supported
  <2>3. CASE main \notin {"constructor", "thrown", "release"}
    <3>1. held = Resources
      BY <2>3 DEF HeldInv, Holds
    <3>2. QED
      BY <3>1, ResourcesAre, NeedsAre DEF Supported
  <2>4. QED
    BY <2>1, <2>2, <2>3
<1>2. QED
  BY <1>1, HeldAlways, PTL

-----------------------------------------------------------------------------
(* The buffers.                                                            *)

\* A step that leaves main, the port and its callback alone.
LEMMA PortUntouched ==
  ASSUME NEW p, BufferOf(p), UNCHANGED lifecycle,
         /\ enabled'[p] = enabled[p] /\ free'[p] = free[p]
         /\ atPort'[p] = atPort[p] /\ lost'[p] = lost[p]
         /\ callback'[p] = callback[p]
  PROVE  BufferOf(p)'
  BY DEF BufferOf, SentTo, Sending, Quiet, Sealed, Surplus, lifecycle

\* The main thread, up to the moment when the camera runs ...
LEMMA StartKeeps ==
  ASSUME Typed, HeldInv, NEW q \in Ports, BufferOf(q),
         \/ Construct \/ ConstructThrows \/ Start
         \/ SampleQueue \/ SendBuffers \/ Started
  PROVE  BufferOf(q)'
<1> USE DEF Typed, BufferOf, Quiet
<1>1. CASE Construct
  <2>1. /\ main = "constructor" /\ main' = main
        /\ UNCHANGED <<free, atPort, lost, callback>>
        /\ held' = held \cup {Acquired[step]}
        /\ enabled' = [p \in Ports |-> enabled[p] \/ Acquired[step] = p]
    BY <1>1 DEF Construct
  <2>2. q \in held' => enabled'[q]
    BY <2>1
  <2>3. QED
    BY <2>1, <2>2 DEF SentTo, Sending
<1>2. CASE ConstructThrows
  BY <1>2 DEF ConstructThrows, buffers, SentTo, Sending
<1>3. CASE Start
  <2>1. /\ main = "constructor" /\ main' \in {"start", "destructor"}
        /\ step = Len(Acquired) + 1 /\ step' = 1
        /\ UNCHANGED <<enabled, free, atPort, lost, callback>>
    BY <1>3, AcquiredIs DEF Start, buffers, HeldInv
  <2>2. held = Resources /\ Ports \subseteq Resources
    BY <2>1, AcquiredIs, ResourcesAre, StartOrderIs
       DEF HeldInv, Holds, Resources, ToSet
  <2>3. QED
    BY <2>1, <2>2 DEF SentTo, Sending
<1>4. CASE SampleQueue
  <2>1. /\ main = "start" /\ main' = "sendBuffers" /\ step' = step
        /\ toSend' = free[StartOrder[step]]
        /\ UNCHANGED <<enabled, free, atPort, lost, callback>>
    BY <1>4 DEF SampleQueue, buffers
  <2>2. SentTo(q)' => SentTo(q)
    BY <2>1 DEF SentTo
  <2>3. QED
    BY <2>1, <2>2 DEF Sending, Surplus
<1>5. CASE SendBuffers
  <2>1. /\ main = "sendBuffers"
        /\ UNCHANGED <<held, enabled, callback>>
    BY <1>5 DEF SendBuffers, picture
  <2>2. CASE toSend > 0
    <3>1. main' = main /\ step' = step /\ toSend' = toSend - 1
      BY <1>5, <2>2 DEF SendBuffers
    <3>2. (SentTo(q)' => SentTo(q)) /\ (Sending(q)' => Sending(q))
      BY <2>1, <3>1 DEF SentTo, Sending
    <3>3. CASE free[StartOrder[step]] # 0 /\ StartOrder[step] = q
      <4>1. PICK sent \in BOOLEAN : GetAndSend(q, sent)
        BY <1>5, <2>2, <3>3 DEF SendBuffers
      <4>2. /\ free'[q] = free[q] - 1
            /\ free'[q] + atPort'[q] + lost'[q]
                 = free[q] + atPort[q] + lost[q]
        BY <4>1 DEF GetAndSend
      <4>3. QED
        BY <2>1, <2>2, <3>1, <3>2, <4>2 DEF Surplus
    <3>4. CASE free[StartOrder[step]] = 0
      <4>1. UNCHANGED <<free, atPort, lost>>
        BY <1>5, <2>2, <3>4 DEF SendBuffers
      <4>2. Sending(q) => free[q] = 0
        BY <3>4 DEF Sending
      <4>3. QED
        BY <2>1, <2>2, <3>1, <3>2, <4>1, <4>2 DEF Surplus
    <3>5. CASE free[StartOrder[step]] # 0 /\ StartOrder[step] # q
      <4>1. PICK sent \in BOOLEAN : GetAndSend(StartOrder[step], sent)
        BY <1>5, <2>2, <3>5 DEF SendBuffers
      <4>2. /\ free'[q] = free[q] /\ atPort'[q] = atPort[q]
            /\ lost'[q] = lost[q]
        BY <3>5, <4>1 DEF GetAndSend
      <4>3. ~Sending(q)
        BY <3>5 DEF Sending
      <4>4. QED
        BY <2>1, <3>1, <3>2, <4>2, <4>3 DEF Surplus
    <3>6. QED
      BY <3>3, <3>4, <3>5
  <2>3. CASE toSend = 0
    <3>1. /\ main' = "start" /\ step' = step + 1
          /\ UNCHANGED <<free, atPort, lost>>
      BY <1>5, <2>3 DEF SendBuffers
    <3>2. SentTo(q)' => SentTo(q) \/ Sending(q)
      BY <2>1, <3>1 DEF SentTo, Sending
    <3>3. QED
      BY <2>1, <2>3, <3>1, <3>2 DEF Sending, Surplus
  <2>4. QED
    BY <2>2, <2>3
<1>6. CASE Started
  <2>1. /\ main = "start" /\ main' = "running" /\ step > Len(StartOrder)
        /\ UNCHANGED <<held, enabled, free, atPort, lost, callback>>
    BY <1>6 DEF Started, buffers
  <2>2. SentTo(q)
    BY <2>1, StartOrderIs DEF SentTo
  <2>3. QED
    BY <2>1, <2>2 DEF Sending, Surplus
<1>7. QED
  BY <1>1, <1>2, <1>3, <1>4, <1>5, <1>6

\* ... and afterwards.
LEMMA StopKeeps ==
  ASSUME Typed, HeldInv, NEW q \in Ports, BufferOf(q),
         Stop \/ Destructor \/ DisablePort \/ Release
  PROVE  BufferOf(q)'
<1> USE DEF Typed, BufferOf, Quiet, Sealed, SentTo, Sending
<1>1. CASE Stop
  BY <1>1 DEF Stop, buffers
<1>2. CASE Destructor
  <2>1. /\ main = "destructor" /\ main' \in {"release", "terminated"}
        /\ held' = held /\ UNCHANGED <<enabled, free, atPort, lost, callback>>
    BY <1>2, Zenon DEF Destructor, buffers
  <2>2. held = Resources /\ q \in Resources
    BY <2>1, ResourcesAre, StartOrderIs DEF HeldInv, Holds
  <2>3. QED
    BY <2>1, <2>2
<1>3. CASE DisablePort
  BY <1>3 DEF DisablePort, lifecycle
<1>4. CASE Release
  <2>1. /\ main = "release" /\ main' = main /\ held' = held \ {Released[step]}
        /\ Released[step] \in Ports => Sealed(Released[step])
        /\ UNCHANGED <<enabled, free, atPort, lost, callback>>
    BY <1>4 DEF Release, buffers
  <2>2. QED
    BY <2>1
<1>5. QED
  BY <1>1, <1>2, <1>3, <1>4

\* A callback hands a buffer on.
LEMMA CallbackKeeps ==
  ASSUME Typed, NEW p \in Ports, Frame(p) \/ Callback(p),
         NEW q \in Ports, BufferOf(q)
  PROVE  BufferOf(q)'
<1> USE DEF Typed
<1>0. UNCHANGED <<main, step, toSend, held>> /\ enabled' = enabled
  BY DEF lifecycle, buffers, Callback, Frame, Flush, ReleaseBuffer,
         LooksAtEnabled, SendNext
<1>1. CASE q # p
  <2>1. /\ free'[q] = free[q] /\ atPort'[q] = atPort[q] /\ lost'[q] = lost[q]
        /\ callback'[q] = callback[q] /\ UNCHANGED lifecycle
    <3>1. CASE Frame(p) \/ ReleaseBuffer(p) \/ LooksAtEnabled(p)
      BY <1>1, <3>1 DEF Frame, ReleaseBuffer, LooksAtEnabled, Goto, buffers
    <3>2. CASE Flush(p)
      BY <1>1, <3>2 DEF Flush, Goto
    <3>3. CASE SendNext(p)
      BY <1>1, <3>3 DEF SendNext, Goto, GetAndSend
    <3>4. QED
      BY <3>1, <3>2, <3>3 DEF Callback
  <2>2. QED
    BY <1>0, <2>1, PortUntouched
<1>2. CASE q = p
  <2> USE <1>0 DEF BufferOf, Goto, Quiet, Sealed
  <2>0. (SentTo(p)' <=> SentTo(p)) /\ (Sending(p)' <=> Sending(p))
    BY DEF SentTo, Sending
  <2>1. CASE Frame(p)
    <3>1. /\ atPort[p] > 0 /\ callback[p] = "none" /\ enabled[p]
          /\ atPort'[p] = atPort[p] - 1 /\ free' = free /\ lost' = lost
          /\ callback'[p] \in {"check", "release"}
      BY <2>1 DEF Frame
    <3>2. /\ main \notin {"constructor", "thrown"}
          /\ main = "release" => p \in held
      BY <1>2, <3>1
    <3>3. free[p] \in Nat /\ atPort[p] \in Nat /\ lost[p] \in Nat
      OBVIOUS
    <3>4. free[p] + atPort[p] + lost[p] = Size
      BY <1>2, <3>1
    <3>5. free[p] + atPort'[p] + lost[p] = Size - 1
      <4> HIDE <1>0 DEF Typed, BufferOf
      <4>1. atPort'[p] = atPort[p] - 1
        BY <3>1
      <4>2. QED
        BY <3>3, <3>4, <4>1
    <3>6. QED
      BY <1>2, <2>0, <3>1, <3>2, <3>5 DEF Surplus
  <2>2. CASE Flush(p)
    <3>1. /\ atPort[p] > 0 /\ callback[p] = "none" /\ ~enabled[p]
          /\ atPort'[p] = atPort[p] - 1 /\ lost' = lost
          /\ \/ free'[p] = free[p] + 1 /\ callback'[p] = "none"
             \/ free'[p] = free[p] /\ callback'[p] = "release"
      BY <2>2 DEF Flush
    <3>2. ~SentTo(p) /\ ~Sending(p)
      BY <1>2, <3>1 DEF SentTo, Sending
    <3>3. /\ main \notin {"constructor", "thrown"}
          /\ main = "release" => p \in held
      BY <1>2, <3>1
    <3>4. /\ free[p] + atPort[p] + lost[p] = Size
          /\ free[p] \in Nat /\ atPort[p] \in Nat /\ lost[p] \in Nat
      BY <1>2, <3>1
    <3>5. free'[p] + atPort'[p] + lost[p]
             = IF callback'[p] = "none" THEN Size ELSE Size - 1
      <4> HIDE <1>0 DEF Typed, BufferOf
      <4>1. QED
        BY <3>1, <3>4
    <3>6. QED
      BY <1>2, <2>0, <3>1, <3>2, <3>3, <3>4, <3>5
  <2>3. CASE ReleaseBuffer(p)
    <3>1. /\ callback[p] = "release" /\ callback'[p] = "released"
          /\ free'[p] = free[p] + 1 /\ atPort' = atPort /\ lost' = lost
      BY <2>3 DEF ReleaseBuffer
    <3>2. QED
      BY <1>2, <2>0, <3>1 DEF Surplus
  <2>4. CASE LooksAtEnabled(p)
    <3>1. /\ callback[p] = "released"
          /\ callback'[p] = IF enabled[p] THEN "send" ELSE "none"
          /\ UNCHANGED <<free, atPort, lost>>
      BY <2>4 DEF LooksAtEnabled, SendsNext, buffers
    <3>2. ~enabled[p] => ~SentTo(p) /\ ~Sending(p)
      BY <1>2 DEF SentTo, Sending
    <3>3. QED
      BY <1>2, <2>0, <3>1, <3>2 DEF Surplus
  <2>5. CASE SendNext(p)
    <3>1. callback[p] = "send" /\ callback'[p] = "none"
      BY <2>5 DEF SendNext
    <3>2. CASE free[p] = 0
      <4>1. UNCHANGED <<free, atPort, lost>>
        BY <2>5, <3>2 DEF SendNext
      <4>2. QED
        BY <1>2, <2>0, <3>1, <3>2, <4>1 DEF Surplus
    <3>3. CASE free[p] # 0
      <4>1. PICK sent : GetAndSend(p, sent)
        BY <2>5, <3>3 DEF SendNext
      <4>2. /\ free'[p] = free[p] - 1
            /\ free'[p] + atPort'[p] + lost'[p]
                 = free[p] + atPort[p] + lost[p]
        BY <4>1 DEF GetAndSend
      <4>3. QED
        BY <1>2, <2>0, <3>1, <4>2 DEF Surplus
    <3>4. QED
      BY <3>2, <3>3
  <2>6. QED
    BY <2>1, <2>2, <2>3, <2>4, <2>5 DEF Callback
<1>3. QED
  BY <1>1, <1>2

\* While callbackRaw looks at a frame it keeps the buffer.
LEMMA RawKeeps ==
  ASSUME Typed, RawCallback, NEW q \in Ports, BufferOf(q)
  PROVE  BufferOf(q)'
<1>1. /\ UNCHANGED <<lifecycle, buffers>>
      /\ callback["rawPort"] \in InFrame
      /\ callback'["rawPort"] \in InFrame \cup {"release"}
      /\ q # "rawPort" => callback'[q] = callback[q]
  BY DEF RawCallback, Check, SetFirst, KeepFirst, Compare, LoadPosition,
         StorePosition, Raw, Goto, InFrame, Typed, Ports
<1>2. CASE q # "rawPort"
  BY <1>1, <1>2, PortUntouched DEF buffers
<1>3. CASE q = "rawPort"
  BY <1>1, <1>3 DEF BufferOf, SentTo, Sending, Quiet, Sealed, Surplus,
                    InFrame, lifecycle, buffers
<1>4. QED
  BY <1>2, <1>3

LEMMA BufferInit == Init => BufferInv
  BY AcquiredIs DEF Init, BufferInv, BufferOf, SentTo, Sending, Quiet

LEMMA BufferNext ==
  ASSUME Typed, HeldInv, BufferInv, [Next]_vars
  PROVE  BufferInv'
<1> SUFFICES ASSUME NEW q \in Ports PROVE BufferOf(q)'
  BY DEF BufferInv
<1>1. BufferOf(q)
  BY DEF BufferInv
<1>2. CASE ResetPosition \/ ZeroPosition
  BY <1>1, <1>2, PortUntouched DEF ResetPosition, ZeroPosition, buffers
<1>3. CASE UNCHANGED vars
  BY <1>1, <1>3, PortUntouched DEF vars, buffers
<1>4. CASE Over
  BY <1>3, <1>4 DEF Over
<1>5. QED
  BY <1>1, <1>2, <1>3, <1>4, StartKeeps, StopKeeps, CallbackKeeps, RawKeeps
     DEF Next, MainThread

\* No buffer disappears; while the camera runs none waits in a pool, so frames
\* keep coming; and none is away when its pool is destroyed.
THEOREM BuffersComeHome == Spec => []BuffersHome
<1>1. Typed /\ HeldInv /\ BufferInv /\ [Next]_vars => BufferInv'
  BY BufferNext
<1>2. Typed /\ HeldInv /\ BufferInv => BuffersHome
  <2> SUFFICES ASSUME Typed, HeldInv, BufferInv, NEW p \in Ports
               PROVE  /\ main = "running" /\ callback[p] = "none" =>
                            free[p] = 0
                      /\ PoolOf(p) \notin held => Quiet(p)
    BY DEF BuffersHome, BufferInv, BufferOf, Quiet
  <2>1. BufferOf(p) /\ free[p] \in Nat
    BY DEF BufferInv, Typed
  <2>2. main = "running" /\ callback[p] = "none" => free[p] = 0
    BY <2>1 DEF BufferOf, SentTo, Surplus
  <2>3. ASSUME PoolOf(p) \notin held PROVE Quiet(p)
    <3>1. PoolOf(p) \in Resources
      BY ResourcesAre DEF PoolOf
    <3>2. CASE main \in {"constructor", "thrown"}
      BY <2>1, <3>2 DEF BufferOf
    <3>3. CASE main = "release"
      <4>1. held = Resources \ {Released[k] : k \in 1 .. step - 1}
        BY <3>3 DEF HeldInv, Holds
      <4>2. PICK k \in 1 .. step - 1 : PoolOf(p) = Released[k]
        BY <2>3, <3>1, <4>1
      <4>3. step \in 1 .. 16
        BY <3>3, ReleasedIs DEF HeldInv, Typed
      <4>4. k \in {10, 11}
        BY <4>2, <4>3, ReleasedIs DEF PoolOf
      <4>5. p \in {Released[1], Released[2]}
        BY ReleasedIs, StartOrderIs
      <4>6. p \notin held
        BY <4>1, <4>2, <4>3, <4>4, <4>5
      <4>7. QED
        BY <2>1, <3>3, <4>6 DEF BufferOf, Sealed
    <3>4. CASE main \notin {"constructor", "thrown", "release"}
      BY <2>3, <3>1, <3>4 DEF HeldInv, Holds
    <3>5. QED
      BY <3>2, <3>3, <3>4
  <2>4. QED
    BY <2>2, <2>3
<1>3. QED
  BY <1>1, <1>2, HeldAlways, BufferInit, PTL DEF Spec

-----------------------------------------------------------------------------
(* The position.                                                           *)

LEMMA PictureInit == Init => PictureInv
  BY DEF Init, PictureInv, Ports, Zeroed

\* Between its steps, nothing a reset has cleared becomes stale.
LEMMA ZeroedKept ==
  ASSUME UNCHANGED resetting
  PROVE  Zeroed' = Zeroed
  BY DEF Zeroed

\* callbackRaw, a place at a time.
LEMMA RawKeepsPicture ==
  ASSUME Typed, PictureInv, RawCallback
  PROVE  PictureInv'
<1> USE DEF Typed, PictureInv, Goto, Raw, Ports
<1>0. Zeroed' = Zeroed /\ Zeroed \subseteq DOMAIN Axes
  <2>1. UNCHANGED resetting
    BY DEF RawCallback, Check, SetFirst, KeepFirst, Compare, LoadPosition,
           StorePosition, picture
  <2>2. QED
    BY <2>1, ZeroedKept, AxesFacts DEF Zeroed
<1>1. CASE Check
  <2>1. /\ callback["rawPort"] = "check"
        /\ callback'["rawPort"] = IF hasFirst THEN "compare" ELSE "set"
        /\ UNCHANGED <<hasFirst, first, position, overlapped>>
    BY <1>1 DEF Check, picture
  <2>2. QED
    BY <1>0, <2>1
<1>2. CASE SetFirst
  <2>1. /\ callback'["rawPort"] = "keep"
        /\ UNCHANGED <<position, overlapped>>
    BY <1>2 DEF SetFirst
  <2>2. QED
    BY <1>0, <2>1
<1>3. CASE KeepFirst
  <2>1. /\ callback'["rawPort"] = "compare" /\ first' = Fresh
        /\ UNCHANGED <<position, overlapped>>
    BY <1>3 DEF KeepFirst
  <2>2. QED
    BY <1>0, <2>1
<1>4. CASE Compare
  <2>1. /\ callback["rawPort"] = "compare"
        /\ callback'["rawPort"] \in {"load", "release"}
        /\ callback'["rawPort"] = "load" => estimate' \in {first, Fresh}
        /\ UNCHANGED <<hasFirst, first, position, overlapped>>
    BY <1>4 DEF Compare
  <2>2. QED
    BY <1>0, <2>1
<1>5. CASE LoadPosition
  <2>1. /\ callback["rawPort"] = "load" /\ callback'["rawPort"] = "store"
        /\ estimate' = Older(estimate, position[axis])
        /\ UNCHANGED <<hasFirst, first, position, axis, overlapped>>
    BY <1>5 DEF LoadPosition
  <2>2. ASSUME ~overlapped, 1 .. axis \subseteq Zeroed
        PROVE  estimate' = Fresh
    <3>1. axis \in 1 .. axis /\ 1 .. axis - 1 \subseteq 1 .. axis
      BY AxesFacts
    <3>2. position[axis] = Fresh /\ estimate = Fresh
      BY <2>1, <2>2, <3>1
    <3>3. QED
      BY <2>1, <3>2 DEF Older, Fresh, Stale
  <2>3. QED
    BY <1>0, <2>1, <2>2
<1>6. CASE StorePosition
  <2>1. /\ callback["rawPort"] = "store"
        /\ position' = [position EXCEPT ![axis] = estimate]
        /\ \/ callback'["rawPort"] = "release"
           \/ callback'["rawPort"] = "load" /\ axis' = axis + 1
        /\ UNCHANGED <<hasFirst, first, estimate, overlapped>>
    BY <1>6 DEF StorePosition
  <2>2. axis \in Zeroed => 1 .. axis \subseteq Zeroed
    BY AxesFacts DEF Zeroed
  <2>3. ASSUME ~overlapped, NEW a \in Zeroed PROVE position'[a] = Fresh
    <3>1. CASE a = axis
      BY <1>0, <2>1, <2>2, <2>3, <3>1
    <3>2. CASE a # axis
      BY <2>1, <2>3, <3>2
    <3>3. QED
      BY <3>1, <3>2
  <2>4. axis' = axis + 1 => 1 .. axis' - 1 = 1 .. axis
    BY AxesFacts
  <2>5. QED
    BY <1>0, <2>1, <2>3, <2>4
<1>7. QED
  BY <1>1, <1>2, <1>3, <1>4, <1>5, <1>6 DEF RawCallback

\* The other callbacks begin and end at places that promise nothing.
LEMMA CallbackKeepsPicture ==
  ASSUME Typed, PictureInv, NEW p \in Ports, Frame(p) \/ Callback(p)
  PROVE  PictureInv'
<1>1. UNCHANGED <<picture, resetting>>
  BY DEF Callback, Frame, Flush, ReleaseBuffer, LooksAtEnabled, SendNext
<1>2. \/ callback'["rawPort"] = callback["rawPort"]
      \/ /\ callback["rawPort"] \notin InFrame
         /\ callback'["rawPort"] \notin InFrame \ {"check"}
  BY DEF Callback, Frame, Flush, ReleaseBuffer, LooksAtEnabled, SendNext,
         Goto, Typed, Ports, InFrame, buffers
<1>3. QED
  BY <1>1, <1>2, ZeroedKept DEF PictureInv, InFrame, picture

LEMMA PictureNext ==
  ASSUME Typed, PictureInv, [Next]_vars
  PROVE  PictureInv'
<1>1. CASE MainThread
  <2>1. UNCHANGED <<callback, picture, resetting>>
    BY <1>1 DEF MainThread, Construct, ConstructThrows, Start, SampleQueue,
                SendBuffers, Started, Stop, Destructor, DisablePort, Release
  <2>2. QED
    BY <2>1, ZeroedKept DEF PictureInv, picture
<1>2. CASE ResetPosition
  <2>1. /\ hasFirst' = FALSE /\ resetting' = 1 /\ overlapped' = Overlaps
        /\ UNCHANGED callback
    BY <1>2 DEF ResetPosition, Cleared
  <2>2. Zeroed' = {}
    BY <2>1 DEF Zeroed
  <2>3. QED
    BY <2>1, <2>2 DEF PictureInv, Overlaps
<1>3. CASE ZeroPosition
  <2>1. /\ overlapped' = (overlapped \/ Overlaps)
        /\ position' = [position EXCEPT ![resetting] = Fresh]
        /\ UNCHANGED <<callback, hasFirst, first>>
    BY <1>3 DEF ZeroPosition
  <2>2. /\ Len(Axes) \in Nat /\ resetting \in 0 .. Len(Axes)
        /\ resetting # 0
        /\ resetting' = IF resetting = Len(Axes) THEN 0 ELSE resetting + 1
    BY <1>3, AxesFacts, Zenon DEF ZeroPosition, Typed
  <2>3. Zeroed = 1 .. resetting - 1
    BY <2>2 DEF Zeroed
  <2>4. Zeroed' = 1 .. resetting /\ 1 .. resetting \subseteq DOMAIN Axes
    <3>1. 1 .. resetting \subseteq DOMAIN Axes
      BY <2>2, ResetSteps, AxesFacts, Zenon
    <3>2. CASE resetting = Len(Axes)
      BY <2>2, <3>1, <3>2, AxesFacts, Zenon DEF Zeroed
    <3>3. CASE resetting # Len(Axes)
      <4> DEFINE n == Len(Axes)
      <4>1. n \in Nat /\ resetting \in 0 .. n /\ resetting' = resetting + 1
        BY <2>2, <3>3, Zenon
      <4> HIDE DEF n
      <4>2. QED
        BY <3>1, <4>1 DEF Zeroed
    <3>4. QED
      BY <3>2, <3>3, <3>1
  <2>5. ASSUME ~overlapped, NEW a \in Zeroed' PROVE position'[a] = Fresh
    <3>1. a \in DOMAIN Axes /\ (a # resetting => a \in Zeroed)
      BY <2>2, <2>3, <2>4, <2>5, ResetSteps, Zenon
    <3>2. a # resetting => position[a] = Fresh
      BY <2>5, <3>1, Zenon DEF PictureInv
    <3>3. QED
      BY <2>1, <3>1, <3>2 DEF Typed
  <2>6. QED
    BY <2>1, <2>5 DEF PictureInv, Overlaps
<1>4. CASE UNCHANGED vars
  BY <1>4, ZeroedKept DEF PictureInv, vars, picture
<1>5. CASE Over
  BY <1>4, <1>5 DEF Over
<1>6. QED
  BY <1>1, <1>2, <1>3, <1>4, <1>5, RawKeepsPicture, CallbackKeepsPicture
     DEF Next

\* Wherever a reset comes, the first frame is taken anew.  What was summed up
\* before it is gone unless it met a callback under way: such a reset may be
\* lost, for the callback stores a sum that it had loaded before.
THEOREM ResetHolds == Spec => []PositionFromReference
<1>1. Typed /\ PictureInv /\ [Next]_vars => PictureInv'
  BY PictureNext
<1>2. PictureInv => PositionFromReference
  BY DEF PictureInv, PositionFromReference, Overlaps
<1>3. QED
  BY <1>1, <1>2, PictureInit, TypeCorrect, PTL DEF Spec
=============================================================================
