------------------------------ MODULE MCProgram ------------------------------
(* Program with integers of five bits, the largest of six, ports of three, *)
(* and documents of a few lexemes; Infrared with two runs.                 *)
EXTENDS Programs, JsonGrammar

Q == "\""
MCSpelling ==
    "{" :> <<"{">> @@ "}" :> <<"}">> @@ "[" :> <<"[">> @@ "]" :> <<"]">>
    @@ "," :> <<",">> @@ ":" :> <<":">> @@ Comment :> <<"/", "*", "*", "/">>
    @@ "port" :> <<Q, "\\", "u", "0", "0", "7", "0", "o", "r", "t", Q>>
    @@ "vrpn" :> <<Q, "v", "r", "p", "n",
                   "E", "n", "a", "b", "l", "e", "d", Q>>
    @@ "empty" :> <<Q, Q>>
    @@ "5" :> <<"5">> @@ "-1" :> <<"-", "1">> @@ "10" :> <<"1", "0">>
    @@ "20" :> <<"2", "0">> @@ "64" :> <<"6", "4">>
    @@ "2.5" :> <<"2", ".", "5">>
    @@ "true" :> <<"t", "r", "u", "e">>
    @@ "bad" :> <<"-", ".">> @@ "open" :> <<Q, "a">>
MCLexemes == DOMAIN MCSpelling
Port == String(<<112, 111, 114, 116>>)
VRPN == String(<<118, 114, 112, 110, 69, 110, 97, 98, 108, 101, 100>>)
MCMeaning ==
    "port" :> Port @@ "vrpn" :> VRPN @@ "empty" :> String(<<>>)
    @@ "5" :> IntValue(5) @@ "-1" :> IntValue(-1) @@ "10" :> IntValue(10)
    @@ "20" :> UIntValue(20) @@ "64" :> Real(64, TRUE)
    @@ "2.5" :> Real(2, FALSE) @@ "true" :> BoolValue(TRUE)
MCName == "port" :> Port.bytes @@ "vrpnEnabled" :> VRPN.bytes

\* The calibration of cdrone.conf; conversions that are negative, without an
\* echo, far, near, and the largest.
MCB == -50
MCConversions == {65526, 500, 8000, 20000, 32767}
=============================================================================
