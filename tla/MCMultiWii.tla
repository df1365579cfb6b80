----------------------------- MODULE MCMultiWii -----------------------------
(* Instances of MultiWii for TLC. *)
EXTENDS MultiWii

\* Bytes are numbers below 8; the preamble is one that data may contain too.
SomePreamble == <<7>>
SomeCode == [RC |-> 3, IMU |-> 4, ANALOG |-> 5, CALIBRATION |-> 6]
SomeData == [c \in Commands |-> IF c = "RC" THEN {<<0>>, <<7>>} ELSE {<<>>}]
SomeAnswers ==
    [RC |-> {<<>>}, IMU |-> {<<3, 7>>}, ANALOG |-> {<<0>>},
     CALIBRATION |-> {<<>>}]
=============================================================================
