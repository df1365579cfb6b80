--------------------------- MODULE FlightOperations ---------------------------
(***************************************************************************)
(* The flight modes of cdrone and the operations that change them, as      *)
(* tables (controller/FlightController.cpp).                               *)
(*                                                                         *)
(* The modes Disarming, Arming, TouchDown and Hover are never stored by    *)
(* any line of the code, so their branches are dead and left out (TypeOK   *)
(* of FlightController says so for every value of the constants).          *)
(***************************************************************************)

\* The modes that some setMode call, or the constructor, stores.
Modes == {"Disarmed", "Armed", "TakeOff", "Calibrating", "RawControl",
          "VelocityControl", "PositionControl"}

FlightModes == {"RawControl", "VelocityControl", "PositionControl"}

Operations == {"arm", "disarm", "takeoff", "rawControl", "velocityControl",
               "positionControl", "calibrate"}

\* The modes in which an operation proceeds ...
From == [arm             |-> {"Disarmed"},
         disarm          |-> Modes,
         takeoff         |-> {"Armed"},
         rawControl      |-> {"VelocityControl", "PositionControl", "TakeOff"},
         velocityControl |-> {"RawControl", "PositionControl", "TakeOff"},
         positionControl |-> {"RawControl", "VelocityControl", "TakeOff"},
         calibrate       |-> Modes]

\* ... and the mode it stores.
Target == [arm             |-> "Armed",
           disarm          |-> "Disarmed",
           takeoff         |-> "TakeOff",
           rawControl      |-> "RawControl",
           velocityControl |-> "VelocityControl",
           positionControl |-> "PositionControl",
           calibrate       |-> "Calibrating"]
=============================================================================
