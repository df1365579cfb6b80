------------------------------- MODULE Camera -------------------------------
(***************************************************************************)
(* The camera (hardware/Camera.cpp): a pipeline of MMAL components whose   *)
(* buffers travel between a pool and a port, and the position it keeps by  *)
(* comparing each frame with the first one.                                *)
(*                                                                         *)
(* Three kinds of threads: main constructs, starts, stops and destroys the *)
(* object, MMAL calls back, once at a time for each port, and do_recv      *)
(* calls resetPosition.  MMAL is external.  It calls back with a frame     *)
(* while the camera captures and, when a port is being disabled, with an   *)
(* empty buffer for each one it still has; a send to a disabled port       *)
(* fails, and it may fail anyhow.                                          *)
(***************************************************************************)
EXTENDS Naturals, SequencesExt

CONSTANTS
    Size,    \* buffers of a pool
    Axes     \* the coordinates, in the order they are stored; <<"X", "Y">>

ASSUME SizeAssumption == Size \in Nat \ {0}
ASSUME AxesAssumption == Axes \in Seq(STRING) \ {<<>>}

Ports == {"encoderPort", "rawPort"}
PoolOf(p) == IF p = "encoderPort" THEN "encoderPool" ELSE "splitterPool"

-----------------------------------------------------------------------------
(* What the constructor acquires, in order, and the destructor releases.   *)

CameraStage == <<"camera", "cameraEnabled">>
EncoderStage == <<"encoder", "encoderEnabled", "encoderPool">>
SplitterStage == <<"splitter", "splitterEnabled", "splitterPool">>
PreviewStage == <<"preview", "previewEnabled">>
ConnectionStage ==
    <<"previewConnection", "splitterConnection", "encoderConnection">>
PortStage == <<"rawPort", "encoderPort">>
Acquired == CameraStage \o EncoderStage \o SplitterStage \o PreviewStage
                \o ConnectionStage \o PortStage

ReleasedPoolsFirst ==
    <<"encoderPool", "splitterPool", "encoderPort", "rawPort",
      "splitterEnabled", "encoderEnabled", "previewEnabled",
      "cameraEnabled", "encoderConnection", "previewConnection",
      "splitterConnection", "splitter", "encoder", "preview", "camera">>
ReleasedNotTheRawPort ==
    <<"encoderPort", "splitterEnabled", "encoderEnabled",
      "previewEnabled", "cameraEnabled", "encoderConnection",
      "previewConnection", "splitterConnection", "encoderPool",
      "splitterPool", "splitter", "encoder", "preview", "camera">>
Released ==
    <<"encoderPort", "rawPort",
      "splitterEnabled", "encoderEnabled", "previewEnabled",
      "cameraEnabled", "encoderConnection", "previewConnection",
      "splitterConnection", "encoderPool", "splitterPool",
      "splitter", "encoder", "preview", "camera">>

Resources == ToSet(Acquired)

\* What a resource uses while it exists.
Needs ==
    [r \in Resources |->
        CASE r = "cameraEnabled" -> {"camera"}
          [] r \in {"encoderEnabled", "encoderPool"} -> {"encoder"}
          [] r \in {"splitterEnabled", "splitterPool"} -> {"splitter"}
          [] r = "previewEnabled" -> {"preview"}
          [] r = "previewConnection" -> {"camera", "preview"}
          [] r = "splitterConnection" -> {"camera", "splitter"}
          [] r = "encoderConnection" -> {"splitter", "encoder"}
          [] r = "encoderPort" -> {"encoder", "encoderPool"}
          [] r = "rawPort" -> {"splitter", "splitterPool"}
          [] OTHER -> {}]

-----------------------------------------------------------------------------
VARIABLES
    main,       \* where main is
    step,       \* the resource it acquires or releases next, or ...
    toSend,     \* ... the buffers sendBuffers has still to send
    held,       \* the resources there are
    running,    \* m_running
    capture,    \* MMAL_PARAMETER_CAPTURE
    enabled,    \* by port: is_enabled
    free,       \* by port: the buffers in the queue of its pool
    atPort,     \* by port: the buffers MMAL has
    lost,       \* by port: the buffers of sends that failed
    callback,   \* by port: where its callback is
    positionEnabled, hasFirst,     \* m_positionEnabled, m_hasFirstFrame
    first,      \* is m_firstFrame older than the frame at the last reset?
    position,   \* by axis: the age of what m_obs->positionX has summed up
    estimate,   \* callbackRaw: the age of what it computes
    axis,       \* and the coordinate it is at
    resetting,  \* do_recv: the coordinate that resetPosition is at, or 0
    overlapped  \* history: the last reset met a callback under way

lifecycle == <<main, step, toSend, held, running, capture>>
buffers == <<enabled, free, atPort, lost>>
picture == <<positionEnabled, hasFirst, first, position, estimate, axis,
             overlapped>>
vars == <<lifecycle, buffers, callback, picture, resetting>>

\* Ages, with respect to the last reset.
Stale == "stale"
Fresh == "fresh"
Older(a, b) == IF Stale \in {a, b} THEN Stale ELSE Fresh

Init ==
    /\ main = "constructor" /\ step = 1 /\ toSend = 0 /\ held = {}
    /\ running = FALSE /\ capture = FALSE
    /\ enabled = [p \in Ports |-> FALSE] /\ free = [p \in Ports |-> Size]
    /\ atPort = [p \in Ports |-> 0] /\ lost = [p \in Ports |-> 0]
    /\ callback = [p \in Ports |-> "none"]
    /\ positionEnabled = FALSE /\ hasFirst = FALSE /\ first = Stale
    /\ position = [i \in DOMAIN Axes |-> Fresh]
    /\ estimate = Fresh /\ axis = 1
    /\ resetting = 0 /\ overlapped = FALSE

-----------------------------------------------------------------------------
(* The main thread.                                                        *)

\* The constructor acquires the next resource, or throws: then nothing of
\* what it has acquired is released, for the destructor does not run.
Construct ==
    /\ main = "constructor" /\ step <= Len(Acquired)
    /\ LET r == Acquired[step] IN
       /\ held' = held \cup {r}
       /\ enabled' = [p \in Ports |-> enabled[p] \/ r = p]
    /\ step' = step + 1
    /\ UNCHANGED <<main, toSend, running, capture, free, atPort, lost,
                   callback, picture, resetting>>
ConstructThrows ==
    /\ main = "constructor" /\ step <= Len(Acquired)
    /\ main' = "thrown"
    /\ UNCHANGED <<step, toSend, held, running, capture, buffers, callback,
                   picture, resetting>>

\* start: capture, then sendBuffers for the one pool and the other.  When it
\* throws, the destructor runs.
StartOrder == <<"encoderPort", "rawPort">>
Start ==
    /\ main = "constructor" /\ step > Len(Acquired)
    /\ \/ /\ capture' = TRUE /\ main' = "start"
       \/ /\ main' = "destructor" /\ UNCHANGED capture
    /\ step' = 1
    /\ UNCHANGED <<toSend, held, running, buffers, callback, picture,
                   resetting>>
SampleQueue ==
    /\ main = "start" /\ step <= Len(StartOrder)
    /\ toSend' = free[StartOrder[step]]
    /\ main' = "sendBuffers"
    /\ UNCHANGED <<step, held, running, capture, buffers, callback, picture,
                   resetting>>

\* mmal_queue_get and mmal_port_send_buffer.
GetAndSend(p, sent) ==
    /\ free' = [free EXCEPT ![p] = @ - 1]
    /\ atPort' = [atPort EXCEPT ![p] = IF sent THEN @ + 1 ELSE @]
    /\ lost' = [lost EXCEPT ![p] = IF sent THEN @ ELSE @ + 1]

SendBuffers ==
    /\ main = "sendBuffers"
    /\ LET p == StartOrder[step] IN
       \/ /\ toSend > 0 /\ toSend' = toSend - 1
          /\ IF free[p] = 0 THEN UNCHANGED <<free, atPort, lost>>
             ELSE \E sent \in BOOLEAN : GetAndSend(p, sent)
          /\ UNCHANGED <<main, step>>
       \/ /\ toSend = 0 /\ main' = "start" /\ step' = step + 1
          /\ UNCHANGED <<toSend, free, atPort, lost>>
    /\ UNCHANGED <<held, running, capture, enabled, callback, picture,
                   resetting>>
Started ==
    /\ main = "start" /\ step > Len(StartOrder)
    /\ running' = TRUE /\ main' = "running"
    /\ UNCHANGED <<step, toSend, held, capture, buffers, callback, picture,
                   resetting>>

\* stop, when do_recv has been joined; the destructor runs either way ...
Stop ==
    /\ main = "running" /\ resetting = 0
    /\ main' = "destructor"
    /\ \/ capture' = FALSE /\ running' = FALSE
       \/ UNCHANGED <<capture, running>>
    /\ UNCHANGED <<step, toSend, held, buffers, callback, picture, resetting>>

\* ... and calls stop again: if that throws, the process is terminated.
Destructor ==
    /\ main = "destructor"
    /\ \/ main' = "release" /\ capture' = FALSE /\ running' = FALSE
       \/ running /\ main' = "terminated" /\ UNCHANGED <<capture, running>>
    /\ step' = 1
    /\ UNCHANGED <<toSend, held, buffers, callback, picture, resetting>>

\* mmal_port_disable waits for the buffers that MMAL has.
Quiet(p) == atPort[p] = 0 /\ callback[p] = "none"
DisablePort ==
    /\ main = "release" /\ step <= Len(Released)
    /\ Released[step] \in Ports /\ enabled[Released[step]]
    /\ enabled' = [enabled EXCEPT ![Released[step]] = FALSE]
    /\ UNCHANGED <<lifecycle, free, atPort, lost, callback, picture,
                   resetting>>
Release ==
    /\ main = "release" /\ step <= Len(Released)
    /\ LET r == Released[step] IN
       /\ r \in Ports => ~enabled[r] /\ Quiet(r)
       /\ held' = held \ {r}
    /\ step' = step + 1
    /\ UNCHANGED <<main, toSend, running, capture, buffers, callback,
                   picture, resetting>>

\* Nothing is left to do, or the process is dead.
Over ==
    /\ \/ main = "release" /\ step > Len(Released)
       \/ main \in {"thrown", "terminated"}
    /\ UNCHANGED vars

-----------------------------------------------------------------------------
(* The callbacks.                                                          *)

Goto(p, place) == callback' = [callback EXCEPT ![p] = place]
Lives == main \notin {"thrown", "terminated"}

\* MMAL calls with a frame; only callbackRaw looks at positionEnabled.
Frame(p) ==
    /\ Lives /\ capture /\ enabled[p] /\ atPort[p] > 0 /\ callback[p] = "none"
    /\ atPort' = [atPort EXCEPT ![p] = @ - 1]
    /\ Goto(p, IF p = "rawPort" /\ positionEnabled THEN "check"
               ELSE "release")
    /\ UNCHANGED <<lifecycle, enabled, free, lost, picture, resetting>>

\* MMAL returns a buffer, empty, to a port that is being disabled: the one
\* callback looks at is_enabled, the other returns before.
Flush(p) ==
    /\ Lives /\ ~enabled[p] /\ atPort[p] > 0 /\ callback[p] = "none"
    /\ atPort' = [atPort EXCEPT ![p] = @ - 1]
    /\ IF p = "rawPort"
       THEN free' = [free EXCEPT ![p] = @ + 1] /\ UNCHANGED callback
       ELSE Goto(p, "release") /\ UNCHANGED free
    /\ UNCHANGED <<lifecycle, enabled, lost, picture, resetting>>

\* The buffer goes back to the pool, and the next one to the port.
ReleaseBuffer(p) ==
    /\ Lives /\ callback[p] = "release"
    /\ free' = [free EXCEPT ![p] = @ + 1]
    /\ Goto(p, "released")
    /\ UNCHANGED <<lifecycle, enabled, atPort, lost, picture, resetting>>
SendsNever(p) == FALSE
SendsNext(p) == enabled[p]
LooksAtEnabled(p) ==
    /\ Lives /\ callback[p] = "released"
    /\ Goto(p, IF SendsNext(p) THEN "send" ELSE "none")
    /\ UNCHANGED <<lifecycle, buffers, picture, resetting>>
SendNext(p) ==
    /\ Lives /\ callback[p] = "send"
    /\ IF free[p] = 0 THEN UNCHANGED <<free, atPort, lost>>
       ELSE \E sent \in {enabled[p], FALSE} : GetAndSend(p, sent)
    /\ Goto(p, "none")
    /\ UNCHANGED <<lifecycle, enabled, picture, resetting>>

Raw(place) == Lives /\ callback["rawPort"] = place

\* if (!m_hasFirstFrame) m_hasFirstFrame = true ...
Check ==
    /\ Raw("check")
    /\ Goto("rawPort", IF hasFirst THEN "compare" ELSE "set")
    /\ UNCHANGED <<lifecycle, buffers, picture, resetting>>
SetFirst ==
    /\ Raw("set") /\ hasFirst' = TRUE
    /\ Goto("rawPort", "keep")
    /\ UNCHANGED <<lifecycle, buffers, positionEnabled, first, position,
                   estimate, axis, resetting, overlapped>>
KeepFirst ==
    /\ Raw("keep") /\ first' = Fresh
    /\ Goto("rawPort", "compare")
    /\ UNCHANGED <<lifecycle, buffers, positionEnabled, hasFirst, position,
                   estimate, axis, resetting, overlapped>>

\* The displacement from the first frame or, when that is lost from sight,
\* from the one before; or none.
Compare ==
    /\ Raw("compare")
    /\ \/ estimate' = first /\ Goto("rawPort", "load")
       \/ estimate' = Fresh /\ Goto("rawPort", "load")
       \/ UNCHANGED estimate /\ Goto("rawPort", "release")
    /\ axis' = 1
    /\ UNCHANGED <<lifecycle, buffers, positionEnabled, hasFirst, first,
                   position, resetting, overlapped>>

\* Both ways add to the position there is: a load and a store.
LoadPosition ==
    /\ Raw("load")
    /\ estimate' = Older(estimate, position[axis])
    /\ Goto("rawPort", "store")
    /\ UNCHANGED <<lifecycle, buffers, positionEnabled, hasFirst, first,
                   position, axis, resetting, overlapped>>
StorePosition ==
    /\ Raw("store")
    /\ position' = [position EXCEPT ![axis] = estimate]
    /\ IF axis = Len(Axes) THEN Goto("rawPort", "release") /\ UNCHANGED axis
       ELSE Goto("rawPort", "load") /\ axis' = axis + 1
    /\ UNCHANGED <<lifecycle, buffers, positionEnabled, hasFirst, first,
                   estimate, resetting, overlapped>>

-----------------------------------------------------------------------------
(* do_recv: enablePosition and resetPosition.                              *)

\* What came before is stale from now on; the frame at hand is not.
Overlaps ==
    callback["rawPort"] \in {"check", "set", "keep", "compare", "load",
                              "store"}
ClearedNot == hasFirst
Cleared == FALSE
ResetPosition ==
    /\ main = "running" /\ resetting = 0
    /\ positionEnabled' = TRUE /\ hasFirst' = Cleared
    /\ first' = Stale /\ estimate' = Stale
    /\ position' = [i \in DOMAIN Axes |-> Stale]
    /\ overlapped' = Overlaps
    /\ resetting' = 1
    /\ UNCHANGED <<lifecycle, buffers, callback, axis>>

\* The coordinates follow, one after the other.
ZeroPosition ==
    /\ main = "running" /\ resetting # 0
    /\ position' = [position EXCEPT ![resetting] = Fresh]
    /\ overlapped' = (overlapped \/ Overlaps)
    /\ resetting' = IF resetting = Len(Axes) THEN 0 ELSE resetting + 1
    /\ UNCHANGED <<lifecycle, buffers, callback, positionEnabled, hasFirst,
                   first, estimate, axis>>

-----------------------------------------------------------------------------
MainThread ==
    \/ Construct \/ ConstructThrows \/ Start \/ SampleQueue \/ SendBuffers
    \/ Started \/ Stop \/ Destructor \/ DisablePort \/ Release
RawCallback ==
    \/ Check \/ SetFirst \/ KeepFirst \/ Compare
    \/ LoadPosition \/ StorePosition
Callback(p) ==
    Flush(p) \/ ReleaseBuffer(p) \/ LooksAtEnabled(p) \/ SendNext(p)

Next ==
    \/ MainThread \/ RawCallback \/ ResetPosition \/ ZeroPosition \/ Over
    \/ \E p \in Ports : Frame(p) \/ Callback(p)

Spec == Init /\ [][Next]_vars

\* main goes on, and MMAL hands over, or back, what it has.
FairSpec ==
    /\ Spec /\ WF_vars(MainThread) /\ WF_vars(RawCallback)
    /\ WF_vars(ZeroPosition)
    /\ \A p \in Ports : WF_vars(Callback(p))

-----------------------------------------------------------------------------
\* Whatever the constructor got to, and all through the destructor, what a
\* resource uses exists: no connection outlives a component, no port its
\* pool.
Supported == \A r \in held : Needs[r] \subseteq held

\* Buffers are where they should be.  While the camera runs all of a pool
\* that no failed send has lost are with MMAL, between callbacks, so frames
\* keep coming; and none is away when its pool is destroyed.
BuffersHome ==
    \A p \in Ports :
        /\ free[p] + atPort[p] + lost[p] =
               IF callback[p] \in {"none", "released", "send"}
               THEN Size ELSE Size - 1
        /\ main = "running" /\ callback[p] = "none" => free[p] = 0
        /\ PoolOf(p) \notin held => atPort[p] = 0 /\ callback[p] = "none"

\* The coordinates that no reset has still to clear.
Zeroed == IF resetting = 0 THEN DOMAIN Axes ELSE 1 .. resetting - 1

\* Wherever a reset falls, the first frame is, between callbacks, one that
\* was being handled then or a later one.  A coordinate has nothing of before
\* the reset in it once it is cleared, unless the reset met a callback under
\* way: that may have loaded the sum before it was cleared, and store it.
PositionFromReference ==
    /\ hasFirst /\ ~Overlaps => first = Fresh
    /\ ~overlapped => \A i \in Zeroed : position[i] = Fresh

\* The destructor ends: the ports it disables return their buffers.
DestructorEnds == (main = "release") ~> (held = {})
=============================================================================
