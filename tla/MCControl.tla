----------------------------- MODULE MCControl -----------------------------
(* Instances of Control and Observations for TLC. *)
EXTENDS Flights

\* Half of the six controllers and of the six setpoints; posZ is the one
\* that resetPIDs leaves out.
SomeSetpoints == {"ioRawRoll", "ioRawThrottle", "ioVelocityX"}
SomeMessages ==
    [raw |-> <<"ioRawRoll", "ioRawThrottle">>, velocity |-> <<"ioVelocityX">>,
     both |-> <<"ioRawRoll", "ioRawThrottle", "ioVelocityX">>]
SomePIDs == {"roll", "posX", "posZ"}
SomeResetOrder == <<"roll", "posX">>
SomeWork ==
    [RawControl |-> <<[load |-> "ioRawRoll"], [load |-> "ioRawThrottle"]>>,
     VelocityControl |-> <<[step |-> "posZ"], [load |-> "ioVelocityX"],
                           [step |-> "roll"]>>,
     PositionControl |-> <<[step |-> "posX"], [step |-> "posZ"],
                           [step |-> "roll"]>>]

\* Two parts of the orientation, an axis of the velocity and two of the
\* position.
SomeFields == {"quat0", "quat3", "velocityX", "positionX", "positionZ"}
=============================================================================
