---------------------------- MODULE ProgramProofs ----------------------------
(***************************************************************************)
(* Theorems about Program, for every configuration file and whatever the   *)
(* bounds on documents and numbers: the order in which cdrone() builds and *)
(* destroys, with its joins, keeps every thread on objects that are alive, *)
(* and no limit outlives the thread that set it.  Then theorems about      *)
(* Infrared, for every calibration: the converter is left as it was found, *)
(* and measures what it is asked for.                                      *)
(***************************************************************************)
EXTENDS Programs, SequenceTheorems, TLAPS

Objects == {"counts"} \cup Local

\* Where the main thread is, by what it has built for good.
WithCamera == {"startCamera", "block", "startUpdate", "startServe", "unblock",
               "joinUpdate", "joinServe", "stopCamera"}
WithServer == {"camera"} \cup WithCamera
WithFlight == {"server"} \cup WithServer
WithWatchdogs == {"cores", "vrpn", "flight"} \cup WithFlight
WithCounts == {"dispatch", "watchdogs", "unwind", "joinVRPN", "stopLibrary",
               "joinCheck"} \cup WithWatchdogs
Places == {"config", "signals", "library"} \cup WithCounts

Steps == {"none", "start", "loop", "accept", "session", "update",
          "updateSet", "io", "ioSet", "ended"}
Types ==
    /\ main \in Places
    /\ built \in Seq(Objects)
    /\ thread \in [Threads -> Steps]
    /\ limits \subseteq {"update", "io"}

\* What is alive, by where the main thread is.
Held ==
    /\ main \in WithCounts => "counts" \in ToSet(built)
    /\ main \in WithWatchdogs => ToSet(Watchdogs) \subseteq ToSet(built)
    /\ main \in WithFlight => "flight" \in ToSet(built)
    /\ main \in WithServer => "server" \in ToSet(built)
    /\ main \in WithCamera => "camera" \in ToSet(built)
    /\ main = "joinVRPN" => Last(built) = "vrpn"

\* Which threads run, by where the main thread is or by what is alive.
Run ==
    /\ ~Ended("check") => main \in WithCounts
    /\ ~Ended("vrpn") => "vrpn" \in ToSet(built)
    /\ ~Ended("camera") => "camera" \in ToSet(built)
    /\ ~Ended("update") => main \in {"startServe", "unblock", "joinUpdate"}
    /\ ~Ended("serve") => main \in {"unblock", "joinUpdate", "joinServe"}

\* Which watchdogs may have a limit.
Watched ==
    /\ "update" \in limits => thread["update"] = "loop"
    /\ "io" \in limits => thread["serve"] = "session"

Inv == Types /\ (ending = "no" => Held /\ Run /\ Watched)

-----------------------------------------------------------------------------
\* What a sequence contains after an addition at its end, or a removal.
LEMMA ToSetConcat ==
  ASSUME NEW S, NEW s \in Seq(S), NEW t \in Seq(S)
  PROVE  /\ s \o t \in Seq(S)
         /\ ToSet(s \o t) = ToSet(s) \cup ToSet(t)
<1>1. s \o t \in Seq(S) /\ Len(s \o t) = Len(s) + Len(t)
  BY ConcatProperties
<1>2. ASSUME NEW x \in ToSet(s \o t) PROVE x \in ToSet(s) \cup ToSet(t)
  <2>1. PICK i \in 1 .. Len(s \o t) : x = (s \o t)[i]
    BY <1>1, <1>2 DEF ToSet
  <2>2. CASE i <= Len(s)
    BY <2>1, <2>2 DEF ToSet
  <2>3. CASE i > Len(s)
    <3>1. i - Len(s) \in 1 .. Len(t) /\ x = t[i - Len(s)]
      BY <1>1, <2>1, <2>3
    <3>2. QED
      BY <3>1 DEF ToSet
  <2>4. QED
    BY <2>1, <2>2, <2>3
<1>3. ASSUME NEW x \in ToSet(s) PROVE x \in ToSet(s \o t)
  <2>1. PICK i \in 1 .. Len(s) : x = s[i]
    BY <1>3 DEF ToSet
  <2>2. i \in 1 .. Len(s \o t) /\ (s \o t)[i] = x
    BY <1>1, <2>1
  <2>3. QED
    BY <1>1, <2>2 DEF ToSet
<1>4. ASSUME NEW x \in ToSet(t) PROVE x \in ToSet(s \o t)
  <2>1. PICK i \in 1 .. Len(t) : x = t[i]
    BY <1>4 DEF ToSet
  <2>2. Len(s) + i \in 1 .. Len(s \o t) /\ (s \o t)[Len(s) + i] = x
    BY <1>1, <2>1
  <2>3. QED
    BY <1>1, <2>2 DEF ToSet
<1>5. QED
  BY <1>1, <1>2, <1>3, <1>4

\* What is left without the last element.
LEMMA ToSetFront ==
  ASSUME NEW S, NEW s \in Seq(S), ToSet(s) # {}
  PROVE  /\ Front(s) \in Seq(S)
         /\ Last(s) \in ToSet(s)
         /\ ToSet(s) \ {Last(s)} \subseteq ToSet(Front(s))
<1>1. Len(s) \in Nat \ {0}
  BY DEF ToSet
<1>2. /\ Front(s) \in Seq(S) /\ Len(Front(s)) = Len(s) - 1
      /\ \A i \in 1 .. Len(s) - 1 : Front(s)[i] = s[i]
  <2>1. Len(s) - 1 \in Int /\ \A i \in 1 .. Len(s) - 1 : s[i] \in S
    BY <1>1
  <2>2. Front(s) = SubSeq(s, 1, Len(s) - 1)
    BY DEF Front
  <2>3. Front(s) = [i \in 1 .. Len(s) - 1 |-> s[i]]
    BY <1>1, <2>2
  <2>4. QED
    BY <1>1, <2>1, <2>3
<1>3. ASSUME NEW x \in ToSet(s), x # Last(s) PROVE x \in ToSet(Front(s))
  <2>1. PICK i \in 1 .. Len(s) : x = s[i]
    BY <1>3 DEF ToSet
  <2>2. i \in 1 .. Len(s) - 1
    BY <1>1, <1>3, <2>1 DEF Last
  <2>3. i \in DOMAIN Front(s) /\ x = Front(s)[i]
    BY <1>2, <2>1, <2>2
  <2>4. QED
    BY <2>3 DEF ToSet
<1>4. Last(s) \in ToSet(s)
  BY <1>1 DEF Last, ToSet
<1>5. QED
  BY <1>2, <1>3, <1>4
-----------------------------------------------------------------------------
(* Every step keeps the invariant.                                         *)

\* Nothing is built, and no thread runs, when the program starts.
LEMMA InitInv == Init => Inv
<1> SUFFICES ASSUME Init PROVE Inv
  OBVIOUS
<1>1. Types
  BY DEF Init, Types, Places, Threads, Steps
<1>2. Held /\ Run /\ Watched
  BY DEF Init, Held, Run, Watched, Ended, Threads, WithCounts, WithWatchdogs,
         WithFlight, WithServer, WithCamera
<1>3. QED
  BY <1>1, <1>2 DEF Inv

\* What main() does before cdrone(), and the ends of the program.
LEMMA LoadInv ==
  ASSUME Inv, Load
  PROVE  Inv'
<1> USE DEF Inv, Types, Held, Run, Watched, Ended, mainThread, threads
<1>1. CASE Reading
  BY <1>1 DEF Reading
<1>2. CASE Missing
  BY <1>2 DEF Missing
<1>3. CASE Configure
  BY <1>3 DEF Configure, Places, WithCounts, WithWatchdogs, WithFlight,
              WithServer, WithCamera
<1>4. QED
  BY <1>1, <1>2, <1>3 DEF Load

\* A step that builds something: what is alive afterwards.
LEMMA BuildKeeps ==
  ASSUME Inv, NEW here, NEW objects \in Seq(Objects), NEW there,
         Build(here, objects, there)
  PROVE  /\ ending = "no" /\ ending' = "no" /\ main = here /\ main' = there
         /\ built' \in Seq(Objects)
         /\ ToSet(built') = ToSet(built) \cup ToSet(objects)
         /\ Types /\ Held /\ Run /\ Watched
  BY ToSetConcat DEF Build, Alive, Inv, Types

\* The sequences that are added.
LEMMA Added ==
  /\ <<>> \in Seq(Objects) /\ ToSet(<<>>) = {}
  /\ Watchdogs \in Seq(Objects)
  /\ \A o \in Objects : <<o>> \in Seq(Objects) /\ ToSet(<<o>>) = {o}
  BY DEF Objects, Local, Watchdogs, ToSet

\* A step that builds nothing, and one that builds one object.
LEMMA BuildNothing ==
  ASSUME Inv, NEW here, NEW there, Build(here, <<>>, there)
  PROVE  /\ ending = "no" /\ ending' = "no" /\ main = here /\ main' = there
         /\ built' \in Seq(Objects) /\ ToSet(built') = ToSet(built)
         /\ Types /\ Held /\ Run /\ Watched
<1>1. <<>> \in Seq(Objects) /\ ToSet(<<>>) = {}
  BY Added
<1>2. /\ ending = "no" /\ ending' = "no" /\ main = here /\ main' = there
      /\ Types /\ Held /\ Run /\ Watched
  BY <1>1, BuildKeeps
<1>3. /\ built' \in Seq(Objects)
      /\ ToSet(built') = ToSet(built) \cup ToSet(<<>>)
  BY <1>1, BuildKeeps
<1>4. QED
  BY <1>1, <1>2, <1>3

LEMMA BuildOne ==
  ASSUME Inv, NEW here, NEW there, NEW o \in Objects,
         Build(here, <<o>>, there)
  PROVE  /\ ending = "no" /\ ending' = "no" /\ main = here /\ main' = there
         /\ built' \in Seq(Objects)
         /\ ToSet(built') = ToSet(built) \cup {o}
         /\ Types /\ Held /\ Run /\ Watched
<1>1. <<o>> \in Seq(Objects) /\ ToSet(<<o>>) = {o}
  BY Added
<1>2. /\ ending = "no" /\ ending' = "no" /\ main = here /\ main' = there
      /\ Types /\ Held /\ Run /\ Watched
  BY <1>1, BuildKeeps
<1>3. /\ built' \in Seq(Objects)
      /\ ToSet(built') = ToSet(built) \cup ToSet(<<o>>)
  BY <1>1, BuildKeeps
<1>4. QED
  BY <1>1, <1>2, <1>3

\* A step that only leads the main thread on, no further than what is alive
\* allows and no earlier than what runs.
Follows(here, there) ==
    /\ there \in Places \ {"joinVRPN"}
    /\ there \in WithCounts => here \in WithCounts
    /\ there \in WithWatchdogs => here \in WithWatchdogs
    /\ there \in WithFlight => here \in WithFlight
    /\ there \in WithServer => here \in WithServer
    /\ there \in WithCamera => here \in WithCamera
    /\ here \in WithCounts => there \in WithCounts
    /\ Ended("update") \/ there \in {"startServe", "unblock", "joinUpdate"}
    /\ Ended("serve") \/ there \in {"unblock", "joinUpdate", "joinServe"}
LEMMA Passing ==
  ASSUME Types, Held, Run, Watched, NEW here, NEW there, Follows(here, there),
         main = here, main' = there, UNCHANGED <<thread, limits>>,
         built' \in Seq(Objects), ToSet(built') = ToSet(built)
  PROVE  Inv'
<1>1. Types'
  BY DEF Types, Follows
<1>2. Held'
  BY DEF Held, Follows
<1>3. Run' /\ Watched'
  BY DEF Run, Watched, Ended, Follows
<1>4. QED
  BY <1>1, <1>2, <1>3 DEF Inv

\* An exception unwinds, or ends the program.
LEMMA FailInv ==
  ASSUME Inv, NEW here \in WithWatchdogs
                  \ {"startServe", "unblock", "joinUpdate", "joinServe",
                     "cores"},
         Throw(here) \/ Abort(here)
  PROVE  Inv'
<1>1. CASE Throw(here)
  <2>1. /\ Types /\ Held /\ Run /\ Watched
        /\ main = here /\ main' = "unwind" /\ UNCHANGED <<thread, limits>>
        /\ built' \in Seq(Objects) /\ ToSet(built') = ToSet(built)
    BY <1>1 DEF Throw, Alive, Inv, Types, threads
  <2>2. Follows(here, "unwind")
    BY <2>1 DEF Follows, Run, Ended, Places, WithCounts, WithWatchdogs,
                WithFlight, WithServer, WithCamera
  <2>3. QED
    BY <2>1, <2>2, Passing
<1>2. CASE Abort(here)
  BY <1>2 DEF Abort, Inv, Types, mainThread, threads
<1>3. QED
  BY <1>1, <1>2

\* The steps of main() and cdrone() that only lead on.
LEMMA PassingInv ==
  ASSUME Inv, SetupSignals \/ Dispatch \/ CheckCores \/ BlockSIGINT
              \/ UnblockSIGINT \/ JoinUpdate \/ JoinServe
  PROVE  Inv'
<1>1. PICK here \in Places, there \in Places :
         /\ Build(here, <<>>, there) /\ UNCHANGED <<thread, limits>>
         /\ \/ <<here, there>> \in
                  {<<"signals", "library">>, <<"dispatch", "watchdogs">>,
                   <<"dispatch", "stopLibrary">>, <<"cores", "vrpn">>,
                   <<"cores", "unwind">>, <<"block", "startUpdate">>,
                   <<"unblock", "joinUpdate">>}
            \/ /\ <<here, there>> = <<"joinUpdate", "joinServe">>
               /\ Ended("update")
            \/ /\ <<here, there>> = <<"joinServe", "stopCamera">>
               /\ Ended("serve")
  BY DEF SetupSignals, Dispatch, CheckCores, BlockSIGINT, UnblockSIGINT,
         JoinUpdate, JoinServe, Ended, threads, Places, WithCounts,
         WithWatchdogs, WithFlight, WithServer, WithCamera
<1>2. /\ Types /\ Held /\ Run /\ Watched /\ main = here /\ main' = there
      /\ built' \in Seq(Objects) /\ ToSet(built') = ToSet(built)
  BY <1>1, BuildNothing
<1>3. Follows(here, there)
  BY <1>1, <1>2 DEF Follows, Run, Ended, Places, WithCounts, WithWatchdogs,
                    WithFlight, WithServer, WithCamera
<1>4. QED
  BY <1>1, <1>2, <1>3, Passing

\* The steps that build the objects threads use, or start threads.
LEMMA BuildingInv ==
  ASSUME Inv,
         \/ InitializeLibrary \/ BuildWatchdogs \/ BuildVRPN
         \/ BuildFlightController \/ BuildServer \/ BuildCamera
         \/ StartCamera \/ StartUpdate \/ StartServe \/ StopCamera
  PROVE  Inv'
<1> USE DEF Places, WithCounts, WithWatchdogs, WithFlight, WithServer,
            WithCamera, Objects, Local
<1>1. CASE InitializeLibrary
  <2>1. /\ Build("library", <<"counts">>, "dispatch") /\ limits' = limits
        /\ thread' = [thread EXCEPT !["check"] = "loop"]
    BY <1>1 DEF InitializeLibrary, Started
  <2>2. /\ ending' = "no" /\ main = "library" /\ main' = "dispatch"
        /\ Types /\ Held /\ Run /\ Watched
        /\ built' \in Seq(Objects)
        /\ ToSet(built') = ToSet(built) \cup {"counts"}
    BY <2>1, BuildOne
  <2>3. Types'
    BY <2>1, <2>2 DEF Types, Threads, Steps
  <2>4. Held'
    BY <2>1, <2>2 DEF Held
  <2>5. Run' /\ Watched'
    BY <2>1, <2>2 DEF Types, Run, Watched, Ended, Threads
  <2>6. QED
    BY <2>3, <2>4, <2>5 DEF Inv
<1>2. CASE BuildWatchdogs
  <2>1. Build("watchdogs", Watchdogs, "cores") /\ UNCHANGED <<limits, thread>>
    BY <1>2 DEF BuildWatchdogs, threads
  <2>2. Watchdogs \in Seq(Objects)
    BY Added
  <2>3. /\ ending' = "no" /\ main = "watchdogs" /\ main' = "cores"
        /\ Types /\ Held /\ Run /\ Watched
        /\ built' \in Seq(Objects)
        /\ ToSet(built') = ToSet(built) \cup ToSet(Watchdogs)
    BY <2>1, <2>2, BuildKeeps
  <2>4. Types'
    BY <2>1, <2>3 DEF Types
  <2>5. Held'
    BY <2>1, <2>3 DEF Held
  <2>6. Run' /\ Watched'
    BY <2>1, <2>3 DEF Run, Watched, Ended
  <2>7. QED
    BY <2>4, <2>5, <2>6 DEF Inv
<1>3. CASE BuildVRPN
  <2>1. CASE /\ Build("vrpn", <<"vrpn">>, "flight") /\ Started("vrpn", "loop")
             /\ UNCHANGED limits
    <3>1. /\ Build("vrpn", <<"vrpn">>, "flight") /\ limits' = limits
          /\ thread' = [thread EXCEPT !["vrpn"] = "loop"]
      BY <2>1 DEF Started
    <3>2. /\ ending' = "no" /\ main = "vrpn" /\ main' = "flight"
          /\ Types /\ Held /\ Run /\ Watched
          /\ built' \in Seq(Objects)
          /\ ToSet(built') = ToSet(built) \cup {"vrpn"}
      BY <3>1, BuildOne
    <3>3. Types'
      BY <3>1, <3>2 DEF Types, Threads, Steps
    <3>4. Held'
      BY <3>1, <3>2 DEF Held
    <3>5. Run' /\ Watched'
      BY <3>1, <3>2 DEF Types, Run, Watched, Ended, Threads
    <3>6. QED
      BY <3>3, <3>4, <3>5 DEF Inv
  <2>2. CASE Build("vrpn", <<>>, "flight") /\ UNCHANGED threads
    <3>1. /\ Build("vrpn", <<>>, "flight") /\ limits' = limits
          /\ UNCHANGED thread
      BY <2>2 DEF threads
    <3>2. /\ ending' = "no" /\ main = "vrpn" /\ main' = "flight"
          /\ Types /\ Held /\ Run /\ Watched
          /\ built' \in Seq(Objects) /\ ToSet(built') = ToSet(built)
      BY <3>1, BuildNothing
    <3>3. Types'
      BY <3>1, <3>2 DEF Types, Threads, Steps
    <3>4. Held'
      BY <3>1, <3>2 DEF Held
    <3>5. Run' /\ Watched'
      BY <3>1, <3>2 DEF Types, Run, Watched, Ended, Threads
    <3>6. QED
      BY <3>3, <3>4, <3>5 DEF Inv
  <2>3. CASE Abort("vrpn")
    BY <2>3, FailInv
  <2>4. QED
    BY <1>3, <2>1, <2>2, <2>3 DEF BuildVRPN
<1>4. CASE BuildFlightController
  <2>1. CASE Build("flight", <<"flight">>, "server") /\ UNCHANGED threads
    <3>1. /\ Build("flight", <<"flight">>, "server") /\ limits' = limits
          /\ UNCHANGED thread
      BY <2>1 DEF threads
    <3>2. /\ ending' = "no" /\ main = "flight" /\ main' = "server"
          /\ Types /\ Held /\ Run /\ Watched
          /\ built' \in Seq(Objects)
          /\ ToSet(built') = ToSet(built) \cup {"flight"}
      BY <3>1, BuildOne
    <3>3. Types'
      BY <3>1, <3>2 DEF Types, Threads, Steps
    <3>4. Held'
      BY <3>1, <3>2 DEF Held
    <3>5. Run' /\ Watched'
      BY <3>1, <3>2 DEF Types, Run, Watched, Ended, Threads
    <3>6. QED
      BY <3>3, <3>4, <3>5 DEF Inv
  <2>2. CASE Throw("flight")
    BY <2>2, FailInv
  <2>3. QED
    BY <1>4, <2>1, <2>2 DEF BuildFlightController
<1>5. CASE BuildServer
  <2>1. CASE Build("server", <<"server">>, "camera") /\ UNCHANGED threads
    <3>1. /\ Build("server", <<"server">>, "camera") /\ limits' = limits
          /\ UNCHANGED thread
      BY <2>1 DEF threads
    <3>2. /\ ending' = "no" /\ main = "server" /\ main' = "camera"
          /\ Types /\ Held /\ Run /\ Watched
          /\ built' \in Seq(Objects)
          /\ ToSet(built') = ToSet(built) \cup {"server"}
      BY <3>1, BuildOne
    <3>3. Types'
      BY <3>1, <3>2 DEF Types, Threads, Steps
    <3>4. Held'
      BY <3>1, <3>2 DEF Held
    <3>5. Run' /\ Watched'
      BY <3>1, <3>2 DEF Types, Run, Watched, Ended, Threads
    <3>6. QED
      BY <3>3, <3>4, <3>5 DEF Inv
  <2>2. CASE Throw("server")
    BY <2>2, FailInv
  <2>3. QED
    BY <1>5, <2>1, <2>2 DEF BuildServer
<1>6. CASE BuildCamera
  <2>1. CASE /\ Build("camera", <<"camera">>, "startCamera")
             /\ Started("camera", "loop") /\ UNCHANGED limits
    <3>1. /\ Build("camera", <<"camera">>, "startCamera") /\ limits' = limits
          /\ thread' = [thread EXCEPT !["camera"] = "loop"]
      BY <2>1 DEF Started
    <3>2. /\ ending' = "no" /\ main = "camera" /\ main' = "startCamera"
          /\ Types /\ Held /\ Run /\ Watched
          /\ built' \in Seq(Objects)
          /\ ToSet(built') = ToSet(built) \cup {"camera"}
      BY <3>1, BuildOne
    <3>3. Types'
      BY <3>1, <3>2 DEF Types, Threads, Steps
    <3>4. Held'
      BY <3>1, <3>2 DEF Held
    <3>5. Run' /\ Watched'
      BY <3>1, <3>2 DEF Types, Run, Watched, Ended, Threads
    <3>6. QED
      BY <3>3, <3>4, <3>5 DEF Inv
  <2>2. CASE Throw("camera")
    BY <2>2, FailInv
  <2>3. QED
    BY <1>6, <2>1, <2>2 DEF BuildCamera
<1>7. CASE StartCamera
  <2>1. CASE Build("startCamera", <<>>, "block") /\ UNCHANGED threads
    <3>1. /\ Build("startCamera", <<>>, "block") /\ limits' = limits
          /\ UNCHANGED thread
      BY <2>1 DEF threads
    <3>2. /\ ending' = "no" /\ main = "startCamera" /\ main' = "block"
          /\ Types /\ Held /\ Run /\ Watched
          /\ built' \in Seq(Objects) /\ ToSet(built') = ToSet(built)
      BY <3>1, BuildNothing
    <3>3. Types'
      BY <3>1, <3>2 DEF Types, Threads, Steps
    <3>4. Held'
      BY <3>1, <3>2 DEF Held
    <3>5. Run' /\ Watched'
      BY <3>1, <3>2 DEF Types, Run, Watched, Ended, Threads
    <3>6. QED
      BY <3>3, <3>4, <3>5 DEF Inv
  <2>2. CASE Throw("startCamera")
    BY <2>2, FailInv
  <2>3. QED
    BY <1>7, <2>1, <2>2 DEF StartCamera
<1>8. CASE StartUpdate
  <2>1. /\ Build("startUpdate", <<>>, "startServe") /\ limits' = limits
        /\ thread' = [thread EXCEPT !["update"] = "start"]
    BY <1>8 DEF StartUpdate, Started
  <2>2. /\ ending' = "no" /\ main = "startUpdate" /\ main' = "startServe"
        /\ Types /\ Held /\ Run /\ Watched
        /\ built' \in Seq(Objects) /\ ToSet(built') = ToSet(built)
    BY <2>1, BuildNothing
  <2>3. Types'
    BY <2>1, <2>2 DEF Types, Threads, Steps
  <2>4. Held'
    BY <2>1, <2>2 DEF Held
  <2>5. Run' /\ Watched'
    BY <2>1, <2>2 DEF Types, Run, Watched, Ended, Threads
  <2>6. QED
    BY <2>3, <2>4, <2>5 DEF Inv
<1>9. CASE StartServe
  <2>1. /\ Build("startServe", <<>>, "unblock") /\ limits' = limits
        /\ thread' = [thread EXCEPT !["serve"] = "loop"]
    BY <1>9 DEF StartServe, Started
  <2>2. /\ ending' = "no" /\ main = "startServe" /\ main' = "unblock"
        /\ Types /\ Held /\ Run /\ Watched
        /\ built' \in Seq(Objects) /\ ToSet(built') = ToSet(built)
    BY <2>1, BuildNothing
  <2>3. Types'
    BY <2>1, <2>2 DEF Types, Threads, Steps
  <2>4. Held'
    BY <2>1, <2>2 DEF Held
  <2>5. Run' /\ Watched'
    BY <2>1, <2>2 DEF Types, Run, Watched, Ended, Threads
  <2>6. QED
    BY <2>3, <2>4, <2>5 DEF Inv
<1>10. CASE StopCamera
  <2>1. CASE Build("stopCamera", <<>>, "unwind") /\ UNCHANGED threads
    <3>1. /\ Build("stopCamera", <<>>, "unwind") /\ limits' = limits
          /\ UNCHANGED thread
      BY <2>1 DEF threads
    <3>2. /\ ending' = "no" /\ main = "stopCamera" /\ main' = "unwind"
          /\ Types /\ Held /\ Run /\ Watched
          /\ built' \in Seq(Objects) /\ ToSet(built') = ToSet(built)
      BY <3>1, BuildNothing
    <3>3. Types'
      BY <3>1, <3>2 DEF Types, Threads, Steps
    <3>4. Held'
      BY <3>1, <3>2 DEF Held
    <3>5. Run' /\ Watched'
      BY <3>1, <3>2 DEF Types, Run, Watched, Ended, Threads
    <3>6. QED
      BY <3>3, <3>4, <3>5 DEF Inv
  <2>2. CASE Throw("stopCamera")
    BY <2>2, FailInv
  <2>3. QED
    BY <1>10, <2>1, <2>2 DEF StopCamera
<1>11. QED
  BY <1>1, <1>2, <1>3, <1>4, <1>5, <1>6, <1>7, <1>8, <1>9, <1>10

\* Destroying and leaving: a thread has ended before what it uses goes.
LEMMA EndingInv ==
  ASSUME Inv, TellVRPN \/ JoinVRPN \/ Destroy \/ Leave \/ StopLibrary
              \/ JoinCheck
  PROVE  Inv'
<1> USE DEF Places, WithCounts, WithWatchdogs, WithFlight, WithServer,
            WithCamera, Objects, Local
<1>1. Types /\ Held /\ Run /\ Watched
  BY DEF Inv, TellVRPN, JoinVRPN, Destroy, Leave, StopLibrary, JoinCheck, Alive
<1>2. CASE TellVRPN
  BY <1>1, <1>2 DEF TellVRPN, Inv, Types, Held, Run, Watched, Ended, signals
<1>3. CASE JoinVRPN
  <2>1. ToSet(built) # {} /\ Last(built) = "vrpn"
    BY <1>1, <1>3 DEF JoinVRPN, Held
  <2>2. /\ built' \in Seq(Objects)
        /\ ToSet(built) \ {"vrpn"} \subseteq ToSet(built')
    BY <1>1, <1>3, <2>1, ToSetFront DEF JoinVRPN, Types
  <2>3. Types'
    BY <1>1, <1>3, <2>2 DEF JoinVRPN, Types, threads
  <2>4. Held'
    BY <1>1, <1>3, <2>2 DEF JoinVRPN, Held
  <2>5. Run' /\ Watched'
    BY <1>1, <1>3, <2>2 DEF JoinVRPN, Run, Watched, Ended, threads
  <2>6. QED
    BY <2>3, <2>4, <2>5 DEF Inv
<1>4. CASE Destroy
  <2>1. ToSet(built) # {}
    BY <1>1, <1>4 DEF Destroy, Held
  <2>2. /\ built' \in Seq(Objects)
        /\ ToSet(built) \ {Last(built)} \subseteq ToSet(built')
    BY <1>1, <1>4, <2>1, ToSetFront DEF Destroy, Types
  <2>3. Types'
    BY <1>1, <1>4, <2>2 DEF Destroy, Types, Started, Threads, Steps
  <2>4. Held'
    <3>1. "counts" \notin ToSet(Watchdogs)
      BY DEF Watchdogs, ToSet
    <3>2. Last(built) # "counts" /\ main = "unwind" /\ main' = "unwind"
      BY <1>4, <3>1 DEF Destroy
    <3>3. QED
      BY <1>1, <2>2, <3>2 DEF Held
  <2>5. Run' /\ Watched'
    BY <1>1, <1>4, <2>2 DEF Destroy, Types, Run, Watched, Ended, Started,
                            Threads, Watchdogs
  <2>6. QED
    BY <2>3, <2>4, <2>5 DEF Inv
<1>5. CASE Leave
  BY <1>1, <1>5 DEF Leave, Inv, Types, Held, Run, Watched, Ended, threads
<1>6. CASE StopLibrary
  BY <1>1, <1>6 DEF StopLibrary, DeleteLater, Inv, Types, Held, Run, Watched,
                    Ended
<1>7. CASE JoinCheck
  BY <1>1, <1>7 DEF JoinCheck, Inv, Types, threads
<1>8. QED
  BY <1>2, <1>3, <1>4, <1>5, <1>6, <1>7

\* A step of check_thread that kills nobody leads it on, and nothing else.
CheckGoesOn ==
    /\ Alive /\ ~Ended("check")
    /\ \E there \in {"loop", "update", "updateSet", "io", "ioSet", "ended"} :
          thread' = [thread EXCEPT !["check"] = there]
    /\ UNCHANGED <<mainThread, limits, ending>>

LEMMA CheckStep == CheckThread => Kill \/ CheckGoesOn
<1>1. CASE Check
  BY <1>1 DEF Check, CheckGoesOn, Thread, Started, Ended
<1>2. ASSUME NEW w \in Looks, Look(w)
      PROVE  CheckGoesOn
  <2>1. \A v \in Looks : /\ FoundSet[v] \in {"updateSet", "ioSet"}
                          /\ After[v] \in {"io", "loop"}
    BY DEF Looks, FoundSet, After
  <2>2. PICK there \in {"loop", "update", "updateSet", "io", "ioSet"} :
           thread' = [thread EXCEPT !["check"] = there]
    BY <1>2, <2>1 DEF Look, Started
  <2>3. ~Ended("check")
    BY <1>2 DEF Look, Looks, Ended
  <2>4. QED
    BY <1>2, <2>2, <2>3 DEF Look, CheckGoesOn
<1>3. ASSUME NEW w \in Looks, Spare(w)
      PROVE  CheckGoesOn
  <2>1. FoundSet[w] \in {"updateSet", "ioSet"} /\ After[w] \in {"io", "loop"}
    BY DEF Looks, FoundSet, After
  <2>2. /\ thread' = [thread EXCEPT !["check"] = After[w]]
        /\ thread["check"] = FoundSet[w]
    BY <1>3 DEF Spare, Thread, Started
  <2>3. QED
    BY <1>3, <2>1, <2>2 DEF Spare, Thread, CheckGoesOn, Ended
<1>4. QED
  BY <1>1, <1>2, <1>3 DEF CheckThread

\* The steps of the other threads, and the signal.
LEMMA ThreadsInv ==
  ASSUME Inv, CheckThread \/ TrackVRPN \/ Update \/ Serve \/ SessionFlies
              \/ SessionEnds \/ Crash \/ Interrupt
  PROVE  Inv'
<1>0. CheckThread => Kill \/ CheckGoesOn
  BY CheckStep
<1>1. Types /\ Held /\ Run /\ Watched
  BY <1>0 DEF Inv, Kill, CheckGoesOn, TrackVRPN, Update, Serve, SessionFlies,
         SessionEnds, Crash, Interrupt, Thread, Alive
<1>2. CASE Interrupt
  BY <1>1, <1>2 DEF Interrupt, Inv, Types, Held, Run, Watched, Ended,
                    mainThread, threads
<1>3. CASE Kill \/ Crash
  BY <1>1, <1>3 DEF Kill, Crash, Thread, Inv, Types, mainThread
<1>4. ASSUME CheckGoesOn \/ TrackVRPN \/ Update \/ Serve \/ SessionFlies
             \/ SessionEnds
      PROVE  Inv'
  <2>1. Held'
    BY <1>1, <1>4 DEF CheckGoesOn, TrackVRPN, Update, Serve, SessionFlies,
         SessionEnds, Thread, Held, mainThread
  <2>t. Types'
    <3>1. CASE CheckGoesOn
      BY <1>1, <3>1 DEF CheckGoesOn, Types, Steps, Threads, mainThread
    <3>2. CASE TrackVRPN
      BY <1>1, <3>2 DEF TrackVRPN, Thread, Types, Steps, Threads, Started,
           StartedWatchdog, StoppedWatchdog, UpdateEnds, mainThread
    <3>3. CASE Update
      <4>1. \E where \in {"loop", "ended"} :
               thread' = [thread EXCEPT !["update"] = where]
        BY <3>3 DEF Update, Started
      <4>2. thread' \in [Threads -> Steps]
        BY <1>1, <4>1 DEF Types, Steps
      <4>3. limits' \subseteq limits \cup {"update"} /\ UNCHANGED mainThread
        BY <3>3 DEF Update, Thread, StartedWatchdog, StoppedWatchdog,
                    UpdateEnds
      <4>4. QED
        BY <1>1, <4>2, <4>3 DEF Types, mainThread
    <3>4. CASE Serve
      <4>1. \E where \in {"loop", "accept", "session", "ended"} :
               thread' = [thread EXCEPT !["serve"] = where]
        BY <3>4 DEF Serve, Started
      <4>2. thread' \in [Threads -> Steps]
        BY <1>1, <4>1 DEF Types, Steps
      <4>3. limits' \subseteq limits \cup {"io"} /\ UNCHANGED mainThread
        BY <3>4 DEF Serve, Thread, StartedWatchdog, StoppedWatchdog, UpdateEnds
      <4>4. QED
        BY <1>1, <4>2, <4>3 DEF Types, mainThread
    <3>5. CASE SessionFlies
      BY <1>1, <3>5 DEF SessionFlies, Thread, Types, Steps, Threads, Started,
           StartedWatchdog, StoppedWatchdog, UpdateEnds, mainThread
    <3>6. CASE SessionEnds
      BY <1>1, <3>6 DEF SessionEnds, Thread, Types, Steps, Threads, Started,
           StartedWatchdog, StoppedWatchdog, UpdateEnds, mainThread
    <3>7. QED
      BY <1>4, <3>1, <3>2, <3>3, <3>4, <3>5, <3>6
  <2>2. Run'
    <3>1. CASE CheckGoesOn
      BY <1>1, <3>1 DEF CheckGoesOn, Types, Run, Threads, Ended, mainThread
    <3>2. CASE ~CheckGoesOn
      BY <1>1, <1>4, <3>2 DEF TrackVRPN, Update, Serve, SessionFlies,
           SessionEnds, Thread, Types, Run, Threads, Ended, Started, mainThread
    <3>3. QED
      BY <3>1, <3>2
  <2>3. Watched'
    <3>1. CASE CheckGoesOn
      BY <1>1, <3>1 DEF CheckGoesOn, Types, Watched, Threads
    <3>2. CASE TrackVRPN
      BY <1>1, <3>2 DEF TrackVRPN, Thread, Types, Watched, Threads, Started,
           StartedWatchdog, StoppedWatchdog, UpdateEnds
    <3>3. CASE Update
      BY <1>1, <3>3 DEF Update, Thread, Types, Watched, Threads, Started,
           StartedWatchdog, StoppedWatchdog, UpdateEnds
    <3>4. CASE Serve
      BY <1>1, <3>4 DEF Serve, Thread, Types, Watched, Threads, Started,
           StartedWatchdog, StoppedWatchdog, UpdateEnds
    <3>5. CASE SessionFlies
      BY <1>1, <3>5 DEF SessionFlies, Thread, Types, Watched, Threads, Started,
           StartedWatchdog, StoppedWatchdog, UpdateEnds
    <3>6. CASE SessionEnds
      BY <1>1, <3>6 DEF SessionEnds, Thread, Types, Watched, Threads, Started,
           StartedWatchdog, StoppedWatchdog, UpdateEnds
    <3>7. QED
      BY <1>4, <3>1, <3>2, <3>3, <3>4, <3>5, <3>6
  <2>4. QED
    BY <2>1, <2>t, <2>2, <2>3 DEF Inv
<1>5. QED
  BY <1>0, <1>2, <1>3, <1>4

\* Every step keeps the invariant.
LEMMA StepInv ==
  ASSUME Inv, [Next]_vars
  PROVE  Inv'
<1>1. CASE MainNext
  BY <1>1, PassingInv, BuildingInv, EndingInv DEF MainNext
<1>2. CASE UNCHANGED vars
  BY <1>2 DEF vars, mainThread, threads, Inv, Types, Held, Run, Watched, Ended
<1>3. QED
  BY <1>1, <1>2, LoadInv, ThreadsInv DEF Next

-----------------------------------------------------------------------------
(* What follows from it.                                                   *)

LEMMA UsesAlive == Inv => NobodyUsesTheDead
<1>1. SUFFICES ASSUME Types, Held, Run, ending = "no", NEW t \in Threads,
                      ~Ended(t)
               PROVE  Uses[t] \subseteq ToSet(built)
  BY DEF Inv, NobodyUsesTheDead
<1>2. Uses[t] \subseteq Uses["serve"] \cup Uses["update"]
                        \cup {"vrpn", "camera"}
  BY DEF Threads, Uses
<1>3. ToSet(Watchdogs) \subseteq ToSet(built)
         => {"updateWatchdog", "ioWatchdog"} \subseteq ToSet(built)
  <2>1. /\ Watchdogs[1] = "updateWatchdog" /\ Watchdogs[2] = "ioWatchdog"
        /\ DOMAIN Watchdogs = 1 .. 3
    BY DEF Watchdogs
  <2>2. {"updateWatchdog", "ioWatchdog"} \subseteq ToSet(Watchdogs)
    BY <2>1 DEF ToSet
  <2>3. QED
    BY <2>2
<1>4. CASE t \in {"check", "vrpn", "camera"}
  BY <1>1, <1>4 DEF Held, Run, Uses
<1>5. CASE t \in {"update", "serve"}
  BY <1>1, <1>3, <1>5 DEF Held, Run, Uses, WithCounts, WithWatchdogs,
                          WithFlight, WithServer, WithCamera
<1>6. QED
  BY <1>4, <1>5 DEF Threads

\* What a thread uses is alive as long as the thread runs: however many
\* steps of cdrone() succeeded, whichever failed and wherever SIGINT came
\* (the order of construction in cdrone(), its joins, ~VRPN and
\* Watchdog::destroy).
THEOREM LivesLongEnough == Spec => []NobodyUsesTheDead
BY UsesAlive, InitInv, StepInv, PTL DEF Spec

\* What a limit read since the joins says: the main thread is on its way out,
\* and check_thread has no limit in hand that it found set.
Passed ==
    looked => /\ main \in AfterJoins
              /\ thread["check"] \notin {"updateSet", "ioSet"}
KillInv == (ending = "no" => Passed) /\ OnlyAnEarlierLimitKills

\* Once in AfterJoins the main thread stays there, and its steps kill nobody.
LEMMA MainStays ==
  ASSUME Inv, MainNext
  PROVE  /\ ending = "no" /\ ending' # "killed" /\ looked' = looked
         /\ main \in AfterJoins => /\ main' \in AfterJoins
                                  /\ thread'["check"] = thread["check"]
<1>1. Types
  BY DEF Inv
<1>2. ASSUME NEW here, NEW there, NEW objects, Build(here, objects, there)
      PROVE  ending = "no" /\ ending' = "no" /\ main = here /\ main' = there
  BY <1>2 DEF Build, Alive
<1>3. CASE SetupSignals \/ InitializeLibrary \/ Dispatch \/ BuildWatchdogs
           \/ CheckCores \/ BuildVRPN \/ BuildFlightController
           \/ BuildServer \/ BuildCamera \/ StartCamera \/ BlockSIGINT
           \/ StartUpdate \/ StartServe \/ UnblockSIGINT \/ JoinUpdate
           \/ JoinServe
  <2>1. /\ ending = "no" /\ ending' # "killed" /\ looked' = looked
        /\ main \notin AfterJoins
    BY <1>2, <1>3 DEF SetupSignals, InitializeLibrary, Dispatch,
         BuildWatchdogs, CheckCores, BuildVRPN, BuildFlightController,
         BuildServer, BuildCamera, StartCamera, BlockSIGINT, StartUpdate,
         StartServe, UnblockSIGINT, JoinUpdate, JoinServe, Throw, Abort,
         Alive, AfterJoins, threads
  <2>2. QED
    BY <2>1
<1>4. CASE StopCamera
  BY <1>2, <1>4 DEF StopCamera, Throw, Alive, AfterJoins, threads
<1>5. CASE TellVRPN \/ JoinVRPN \/ Leave \/ StopLibrary \/ JoinCheck
  BY <1>5 DEF TellVRPN, JoinVRPN, Leave, StopLibrary, JoinCheck, Alive,
              AfterJoins, threads
<1>6. CASE Destroy
  BY <1>1, <1>6 DEF Destroy, Started, Types, Threads, Alive
<1>7. QED
  BY <1>3, <1>4, <1>5, <1>6 DEF MainNext

LEMMA KillKept ==
  ASSUME Inv, KillInv, [Next]_vars
  PROVE  KillInv'
<1> USE DEF KillInv, Passed, OnlyAnEarlierLimitKills
<1>1. CASE MainNext
  BY <1>1, MainStays
<1>2. ASSUME NEW w \in Looks, Look(w)
      PROVE  KillInv'
  <2>1. /\ Types /\ Run /\ Watched /\ ending' = "no" /\ main' = main
        /\ w \in {"update", "io"}
        /\ looked' = (looked \/ main \in AfterJoins)
        /\ looked => main \in AfterJoins
    BY <1>2 DEF Inv, Look, Alive, Looks, mainThread
  <2>2. ASSUME main \in AfterJoins
        PROVE  w \notin limits
    BY <2>1, <2>2 DEF Run, Watched, Ended, AfterJoins
  <2>3. ASSUME main \in AfterJoins
        PROVE  thread'["check"] \in {"loop", "io"}
    BY <1>2, <2>1, <2>2, <2>3 DEF Look, Started, Types, Threads, After
  <2>4. QED
    BY <2>1, <2>3
<1>3. CASE Check
  BY <1>3 DEF Check, Thread, Alive, Started, Inv, Types, Threads, mainThread
<1>4. ASSUME NEW w \in Looks, Spare(w)
      PROVE  KillInv'
  <2>1. /\ thread["check"] \in {"updateSet", "ioSet"} /\ ending = "no"
        /\ looked' = looked /\ ending' = ending
    BY <1>4 DEF Spare, Thread, Alive, Looks, FoundSet
  <2>2. QED
    BY <2>1
<1>5. CASE Kill
  <2>1. /\ thread["check"] \in {"updateSet", "ioSet"} /\ ending = "no"
        /\ looked' = looked /\ ending' = "killed"
    BY <1>5 DEF Kill, Thread, Alive, Looks, FoundSet
  <2>2. QED
    BY <2>1
<1>6. CASE TrackVRPN \/ Update \/ Serve \/ SessionFlies \/ SessionEnds
           \/ Crash
  <2>1. /\ ending = "no" /\ ending' # "killed" /\ looked' = looked
        /\ main' = main /\ thread'["check"] = thread["check"]
    BY <1>6 DEF TrackVRPN, Update, Serve, SessionFlies, SessionEnds, Crash,
         Thread, Alive, Started, Inv, Types, Threads, mainThread
  <2>2. QED
    BY <2>1
<1>7. CASE Load \/ Interrupt \/ UNCHANGED vars
  <2>1. /\ looked' = looked /\ thread' = thread
        /\ \/ ending' = ending /\ main' = main
           \/ ending = "no" /\ ending' # "killed" /\ main \notin AfterJoins
           \/ ending = "no" /\ ending' = "interrupted"
    BY <1>7 DEF Load, Reading, Missing, Configure, Interrupt, vars, threads,
         mainThread, Alive, AfterJoins
  <2>2. QED
    BY <2>1
<1>8. QED
  BY <1>1, <1>2, <1>3, <1>4, <1>5, <1>6, <1>7 DEF Next, CheckThread

\* Once both threads have been joined, the first limit that check_thread looks
\* at is not set, and no later one is: a kill that cuts off the end of the
\* program is by a limit it had found set before, at most one (do_update and
\* do_recv stop their watchdogs, check_thread kills after the comparison).
THEOREM OnlyEarlierLimits == Spec => []OnlyAnEarlierLimitKills
<1>1. Init => KillInv
  BY DEF Init, KillInv, Passed, OnlyAnEarlierLimitKills
<1>2. KillInv => OnlyAnEarlierLimitKills
  BY DEF KillInv
<1>3. Inv /\ KillInv /\ [Next]_vars => KillInv'
  BY KillKept
<1>4. QED
  BY <1>1, <1>2, <1>3, InitInv, StepInv, PTL DEF Spec
-----------------------------------------------------------------------------
(* The program "infrared": theorems about Infrared.                        *)

Bytes == 0 .. 255
Registers == Bytes \X Bytes

InfraredPlaces ==
    {"open", "address", "save", "configure", "warm", "start", "loop",
     "update", "restore", "unwind", "left", "thrown"}

\* Between these places the program has the converter as it wants it, and
\* knows what it found.
Measuring == {"warm", "start", "loop", "update", "restore", "unwind"}

InfraredInv ==
    /\ step \in InfraredPlaces /\ reading \in BOOLEAN
    /\ register \in Registers /\ found \in Registers
    /\ pointer \in {"CONVERT", "CONFIG"}
    /\ step \in {"open", "address", "save", "configure"} => register = found
    /\ step = "save" /\ reading => pointer = "CONFIG"
    /\ reading => step \in {"save", "warm", "update"}
    /\ step \in {"configure"} \cup Measuring => I!ToWire(saved) = found
    /\ step \in Measuring => 256 * register[1] + register[2] = I!Wanted
    /\ step \in {"left", "thrown"} => register = found

\* htons and ntohs undo each other.
LEMMA WireAndBack ==
  ASSUME NEW bytes \in Registers
  PROVE  I!ToWire(I!FromWire(bytes)) = bytes
<1>1. /\ bytes = <<bytes[1], bytes[2]>>
      /\ bytes[1] \in Bytes /\ bytes[2] \in Bytes
  BY DEF Registers
<1>2. \A a, b \in Bytes :
         (256 * a + b) \div 256 = a /\ (256 * a + b) % 256 = b
  BY DEF Bytes
<1>3. QED
  BY <1>1, <1>2 DEF I!ToWire, I!FromWire

LEMMA Constants ==
  /\ Conversions \subseteq I!Words /\ PowerOn \in I!Words
  /\ K \in Nat /\ B \in Int /\ Tenths \in 0 .. 10
BY InfraredAssumption, Zenon DEF I!ConstantsKnown

LEMMA PowerOnBytes == I!AtPowerOn \in Registers
<1>1. PowerOn \in Int /\ 0 <= PowerOn /\ PowerOn < 256 * 256
  <2>1. \A n \in Int : \A w \in 0 .. n - 1 : w \in Int /\ 0 <= w /\ w < n
    OBVIOUS
  <2>2. 256 * 256 \in Int
    OBVIOUS
  <2>3. PowerOn \in 0 .. 256 * 256 - 1
    BY Constants, Zenon DEF I!Words
  <2>4. QED
    BY <2>1, <2>2, <2>3, Zenon
<1>2. \A w \in Int : 0 <= w /\ w < 256 * 256 =>
          /\ w \div 256 \in Int /\ 0 <= w \div 256 /\ w \div 256 <= 255
          /\ w % 256 \in Int /\ 0 <= w % 256 /\ w % 256 <= 255
  OBVIOUS
<1>3. PowerOn \div 256 \in Bytes /\ PowerOn % 256 \in Bytes
  BY <1>1, <1>2 DEF Bytes
<1>4. QED
  BY <1>3 DEF I!AtPowerOn, Registers

LEMMA WireForm ==
  /\ I!ToWire(I!Wanted) \in Registers
  /\ 256 * I!ToWire(I!Wanted)[1] + I!ToWire(I!Wanted)[2] = I!Wanted
<1>1. I!Wanted = 256 * 66 + 131
  BY DEF I!Wanted, I!Gain, I!Config
<1>2. /\ (256 * 66 + 131) \div 256 = 66 /\ (256 * 66 + 131) % 256 = 131
      /\ 66 \in Bytes /\ 131 \in Bytes
  BY DEF Bytes
<1>3. I!ToWire(I!Wanted) = <<66, 131>>
  BY <1>1, <1>2 DEF I!ToWire
<1>4. <<66, 131>> \in Registers
  BY <1>2 DEF Registers
<1>5. QED
  BY <1>1, <1>3, <1>4

LEMMA InfraredInit == I!Init => InfraredInv
BY PowerOnBytes DEF I!Init, InfraredInv, InfraredPlaces, Measuring

\* An update takes the converter nowhere but to the register it reads.
LEMMA UpdateKeeps ==
  ASSUME InfraredInv, NEW here \in {"warm", "update"},
         NEW there \in {"warm", "start", "loop"}, I!Update(here, there),
         UNCHANGED <<saved, found>>
  PROVE  InfraredInv'
<1>1. /\ step = here /\ step' \in {here, there}
      /\ reading' \in BOOLEAN /\ (reading' => step' = here)
      /\ pointer' \in {"CONVERT", "CONFIG"} /\ register' = register
  BY DEF I!Update, I!Goes, I!PointTo, I!Value, I!converter, InfraredInv
<1>2. QED
  BY <1>1 DEF InfraredInv, InfraredPlaces, Measuring

LEMMA InfraredNext == InfraredInv /\ [I!Next]_I!vars => InfraredInv'
<1> SUFFICES ASSUME InfraredInv, [I!Next]_I!vars
             PROVE  InfraredInv'
  OBVIOUS
<1>4. CASE I!Warm
  <2>1. \E there \in {"warm", "start", "loop"} : I!Update("warm", there)
    BY <1>4 DEF I!Warm
  <2>2. UNCHANGED <<saved, found>>
    BY <1>4 DEF I!Warm
  <2>3. QED
    BY <2>1, <2>2, UpdateKeeps
<1>7. CASE I!UpdateInLoop
  <2>1. I!Update("update", "loop") /\ UNCHANGED <<saved, found>>
    BY <1>7 DEF I!UpdateInLoop
  <2>2. QED
    BY <2>1, UpdateKeeps
<1>10. CASE I!Fails
  <2>1. /\ step' = step \/ (step = "update" /\ step' = "unwind")
        /\ reading' = FALSE /\ UNCHANGED <<pointer, register, saved, found>>
    BY <1>10 DEF I!Fails, I!converter
  <2>2. /\ step' \in InfraredPlaces
        /\ step' \in Measuring <=> step \in Measuring
    <3>1. step \in InfraredPlaces
      BY Zenon DEF InfraredInv
    <3>2. QED
      BY <2>1, <3>1 DEF InfraredPlaces, Measuring
  <2>3. \A here \in {"open", "address", "save", "configure", "left",
                       "thrown"} :
            step' = here => step = here
    BY <2>1
  <2>4. QED
    BY <2>1, <2>2, <2>3 DEF InfraredInv
<1> USE DEF InfraredInv, InfraredPlaces, Measuring, I!Goes, I!converter,
            I!program
<1>1. CASE I!Open
  BY <1>1 DEF I!Open
<1>2. CASE I!Save
  <2>1. CASE reading
    <3>1. saved' = I!FromWire(register) /\ step' = "configure"
      BY <1>2, <2>1 DEF I!Save, I!PointTo, I!Value, I!Values
    <3>2. QED
      BY <1>2, <2>1, <3>1, WireAndBack DEF I!Save, I!PointTo, I!Value
  <2>2. CASE ~reading
    BY <1>2, <2>2 DEF I!Save, I!PointTo, I!Value
  <2>3. QED
    BY <2>1, <2>2
<1>3. CASE I!Configure
  BY <1>3, WireForm DEF I!Configure, I!WriteConfig
<1>5. CASE I!StartWatchdog
  BY <1>5 DEF I!StartWatchdog
<1>6. CASE I!Loop
  BY <1>6 DEF I!Loop
<1>8. CASE I!Restore
  <2>1. /\ step \in {"restore", "unwind"} /\ step' \in {"left", "thrown"}
        /\ pointer' = "CONFIG" /\ register' = I!ToWire(saved)
        /\ UNCHANGED <<reading, saved, found>>
    BY <1>8 DEF I!Restore, I!WriteConfig, I!Kept
  <2>2. I!ToWire(saved) = found /\ reading = FALSE
    BY <2>1
  <2>3. QED
    BY <2>1, <2>2
<1>9. CASE I!Leave
  BY <1>9 DEF I!Leave
<1>11. CASE I!Interrupt \/ I!Kill
  BY <1>11 DEF I!Interrupt, I!Kill
<1>12. CASE I!RunAgain
  BY <1>12, PowerOnBytes DEF I!RunAgain
<1>13. CASE UNCHANGED I!vars
  BY <1>13 DEF I!vars
<1>14. QED
  BY <1>1, <1>2, <1>3, <1>4, <1>5, <1>6, <1>7, <1>8, <1>9, <1>10, <1>11,
     <1>12, <1>13
  DEF I!Next, I!Step

LEMMA InfraredKept == I!Spec => []InfraredInv
BY InfraredInit, InfraredNext, PTL DEF I!Spec

\* However often the program is run, interrupted, killed or thrown out: when
\* Infrared is gone the converter has the configuration that this run found
\* (Infrared::~Infrared, ADS1115::readRegister, I2C).
THEOREM ConverterRestored == I!Spec => []RestoresWhatItFound
<1>1. InfraredInv => RestoresWhatItFound
  BY DEF InfraredInv, RestoresWhatItFound, I!RestoresWhatItFound
<1>2. QED
  BY InfraredKept, <1>1, PTL

\* Whatever an earlier run left in the converter, the height is updated from
\* the channel, gain and rate that Infrared asked for.
THEOREM OwnChannel == I!Spec => []I!OurChannel
<1>1. InfraredInv => I!OurChannel
  BY DEF InfraredInv, Measuring, I!OurChannel
<1>2. QED
  BY InfraredKept, <1>1, PTL
-----------------------------------------------------------------------------
(* The height.                                                             *)

LEMMA Division ==
  ASSUME NEW a \in Nat, NEW b \in Nat \ {0}
  PROVE  /\ a \div b \in Nat
         /\ b * (a \div b) <= a
         /\ a <= b * (a \div b) + b - 1
  OBVIOUS

\* A larger reading is a smaller distance.
LEMMA Antitone ==
  \A x, large, small \in Nat : 0 < small /\ small <= large =>
     /\ x \div large \in Nat /\ x \div small \in Nat
     /\ x \div large <= x \div small
<1> SUFFICES ASSUME NEW x \in Nat, NEW large \in Nat, NEW small \in Nat,
                    0 < small, small <= large
             PROVE  /\ x \div large \in Nat /\ x \div small \in Nat
                    /\ x \div large <= x \div small
  OBVIOUS
<1>1. PICK q \in Nat : q = x \div large /\ large * q <= x
  BY Division
<1>2. PICK r \in Nat : r = x \div small /\ x <= small * r + small - 1
  BY Division
<1>3. SUFFICES ASSUME r + 1 <= q PROVE FALSE
  BY <1>1, <1>2
<1>4. small * q <= large * q
  <2>1. (large - small) * q >= 0
    BY <1>1
  <2>2. (large - small) * q = large * q - small * q
    BY <1>1
  <2>3. large * q \in Int /\ small * q \in Int
    BY <1>1
  <2>4. QED
    BY <2>1, <2>2, <2>3
<1>5. small * (r + 1) <= small * q
  <2>1. small * (q - (r + 1)) >= 0
    BY <1>1, <1>2, <1>3
  <2>2. small * (q - (r + 1)) = small * q - small * (r + 1)
    BY <1>1, <1>2
  <2>3. small * q \in Int /\ small * (r + 1) \in Int
    BY <1>1, <1>2
  <2>4. QED
    BY <2>1, <2>2, <2>3
<1>6. small * (r + 1) = small * r + small
  BY <1>2
<1>7. large * q \in Int /\ small * q \in Int /\ small * r \in Int
  BY <1>1, <1>2
<1>8. QED
  BY <1>1, <1>2, <1>4, <1>5, <1>6, <1>7

\* The calibration puts the farthest reading above the ground.
Grounded == K \div (I!SignBit - 1) + B >= 0

LEMMA DistanceInReach ==
  ASSUME Grounded, NEW v \in Int
  PROVE  I!Distance(v) \in 0 .. I!Distance(I!MinReading)
<1> DEFINE most == I!SignBit - 1
           least == I!MinReading
           c == I!Clamp(v)
<1>1. /\ most \in Nat /\ least \in Nat /\ 0 < least /\ least <= most
      /\ I!SignBit \in Nat /\ most < I!SignBit
  BY DEF I!SignBit, I!MinReading
<1>2. \A r \in Int : r < I!SignBit => r <= most
  BY <1>1
<1>3. c \in Nat /\ least <= c /\ c <= most
  BY <1>1, <1>2 DEF I!Clamp, I!ClampSmall
<1>4. I!Clamp(least) = least
  BY <1>1 DEF I!Clamp, I!ClampSmall
<1> HIDE DEF most, least, c
<1>5. /\ K \div most \in Nat /\ K \div c \in Nat /\ K \div least \in Nat
      /\ K \div most <= K \div c /\ K \div c <= K \div least
  BY <1>1, <1>3, Constants, Antitone
<1>6. /\ I!Distance(v) = K \div c + B
      /\ I!Distance(least) = K \div least + B
  BY <1>4 DEF I!Distance, c
<1>7. I!Distance(v) \in 0 .. I!Distance(least)
  BY <1>5, <1>6, Constants DEF Grounded, most
<1>8. QED
  BY <1>7 DEF least

LEMMA SmoothedInReach ==
  ASSUME NEW m \in Nat, NEW a \in 0 .. m, NEW b \in 0 .. m
  PROVE  I!Smoothed(a, b) \in 0 .. m
<1>1. Tenths \in 0 .. 10
  BY Constants
<1>2. \A t \in 0 .. 10 : ((10 - t) * a + t * b) \div 10 \in 0 .. m
  <2>1. SUFFICES ASSUME NEW t \in 0 .. 10
                PROVE  ((10 - t) * a + t * b) \div 10 \in 0 .. m
    OBVIOUS
  <2>2. PICK s \in Int : s = (10 - t) * a + t * b
    OBVIOUS
  <2>3. t \in {0, 1, 2, 3, 4, 5, 6, 7, 8, 9, 10}
    OBVIOUS
  <2>4. 0 <= s /\ s <= 10 * m
    BY <2>2, <2>3
  <2>5. QED
    BY <2>2, <2>4
<1>3. QED
  BY <1>1, <1>2 DEF I!Smoothed

LEMMA HeightKept ==
  ASSUME Grounded, InfraredInv, I!HeightInReach, [I!Next]_I!vars
  PROVE  I!HeightInReach'
<1>1. \A v \in I!Values : v \in Int
  <2>1. Conversions \subseteq Int
    <3>1. I!Words \subseteq Int
      BY DEF I!Words
    <3>2. QED
      BY <3>1, Constants
  <2>2. I!FromWire(register) \in Int
    <3>1. register[1] \in Int /\ register[2] \in Int
      BY DEF InfraredInv, Registers, Bytes
    <3>2. QED
      BY <3>1 DEF I!FromWire
  <2>3. QED
    BY <2>1, <2>2 DEF I!Values
<1>2. I!Distance(I!MinReading) \in Nat
  BY DistanceInReach DEF I!MinReading
<1>3. \A v \in I!Values :
         I!Smoothed(height, I!Distance(v)) \in 0 .. I!Distance(I!MinReading)
  BY <1>1, <1>2, DistanceInReach, SmoothedInReach DEF I!HeightInReach
<1>4. \/ height' \in {0, height}
      \/ \E v \in I!Values : height' = I!Smoothed(height, I!Distance(v))
  BY DEF I!Next, I!Step, I!vars, I!program, I!converter, I!Open, I!Save,
         I!Configure, I!Warm, I!StartWatchdog, I!Loop, I!UpdateInLoop,
         I!Update, I!Restore, I!Leave, I!Fails, I!Interrupt, I!Kill,
         I!RunAgain
<1>5. QED
  BY <1>2, <1>3, <1>4 DEF I!HeightInReach

\* For every calibration that puts the farthest reading above the ground, and
\* whatever the converter measures, the height is above the ground and not
\* beyond that of the smallest reading that makes sense (Infrared::update).
THEOREM HeightReached == Grounded /\ I!Spec => []I!HeightInReach
<1>1. Grounded /\ I!Init => I!HeightInReach
  <2>1. Grounded => I!Distance(I!MinReading) \in Nat
    BY DistanceInReach DEF I!MinReading
  <2>2. QED
    BY <2>1 DEF I!Init, I!HeightInReach
<1>2. Grounded /\ InfraredInv /\ I!HeightInReach /\ [I!Next]_I!vars
         => (Grounded /\ I!HeightInReach)'
  BY HeightKept DEF Grounded
<1>3. QED
  BY <1>1, <1>2, InfraredKept, PTL DEF I!Spec

-----------------------------------------------------------------------------
(* Either program.                                                         *)

LEMMA EitherProgram == SpecPrograms => Init /\ [][Next]_vars /\ I!Spec
<1>1. InitPrograms => Init /\ I!Init
  BY DEF InitPrograms
<1>2. [NextPrograms]_<<program, vars, infrared>>
         => [Next]_vars /\ [I!Next]_I!vars
  BY DEF NextPrograms, infrared, I!vars, I!converter, I!program
<1>3. QED
  BY <1>1, <1>2, PTL DEF SpecPrograms, I!Spec

\* Whichever program main() runs, no thread of it uses what is gone, and the
\* converter is left as it was found (main, cdrone, test_infrared).
THEOREM EitherIsSafe ==
  SpecPrograms => [](NobodyUsesTheDead /\ RestoresWhatItFound)
BY EitherProgram, UsesAlive, InitInv, StepInv, ConverterRestored, PTL
=============================================================================
