-------------------------------- MODULE Config --------------------------------
(***************************************************************************)
(* Config (misc/Config.cpp): what the program takes from the value that    *)
(* the reader made of cdrone.conf, through Value::get and the conversions  *)
(* of json/jsoncpp.cpp.                                                    *)
(*                                                                         *)
(* A conversion that is not possible is a Json::LogicError, which nothing  *)
(* catches; the constructor turns only a RuntimeError, and a bad port,     *)
(* into the ConfigException that main() expects.                           *)
(***************************************************************************)
EXTENDS JsonText

CONSTANTS
    Name,         \* Name[k]: the bytes of key k, for the keys documents use
    PortMax,      \* 0xFFFF
    DefaultPort   \* 6006

ASSUME PortAssumption == PortMax \in Nat /\ DefaultPort \in 0..PortMax

MinInt == -MaxInt - 1

-----------------------------------------------------------------------------
(* The conversions of a Json::Value: may it be converted, and to what.     *)

Numeric == {"int", "uint", "real"}
Simple == Numeric \cup {"null", "bool"}

IsInt(v) == v.n \in MinInt..MaxInt
InRange(v) == IsInt(v) /\ (v.whole \/ v.n \notin {MinInt, MaxInt})

ConvertibleTo(kind, v) ==
    CASE kind = "string" -> v.type \in Simple \cup {"string"}
      [] kind = "double" -> v.type \in Simple
      [] kind = "bool" -> v.type \in Simple
      [] kind = "int" -> /\ v.type \in Simple
                         /\ IF v.type = "real" THEN InRange(v) ELSE IsInt(v)

AsInt(v) == v.n
AsBool(v) == v.n # 0 \/ (v.type = "real" /\ ~v.whole)

-----------------------------------------------------------------------------
(* The constructor.                                                        *)

\* The keys it reads, with their conversions, before the port and after it.
BeforePort ==
    [string |-> {"name", "key", "ca"},
     double |-> {"infraredAlpha", "infraredB", "infraredK"},
     int |-> {"updateWatchdog", "ioWatchdog", "analysisWatchdog",
              "controllerWatchdog", "port"}]
Gains ==
    {c \o g : c \in {"rollPID", "pitchPID"}, g \in {"P", "I", "D"}}
    \cup {"throttlePID" \o g : g \in {"P", "I", "D", "K"}}
    \cup {"position" \o c \o "PID" \o g :
             c \in {"X", "Y", "Z"}, g \in {"P", "I", "D", "K", "Center"}}
AfterPort ==
    [string |-> {"skylinePort", "vrpnName"},
     double |-> Gains \cup {"maxPositionDelta" \o c : c \in {"X", "Y", "Z"}},
     bool |-> {"ssl", "vrpnEnabled"},
     int |-> {"cameraPort", "vrpnID"}]

\* get(): what is there, or the default.
Has(root, k) ==
    /\ root.type = "object" /\ k \in DOMAIN Name
    /\ Name[k] \in DOMAIN root.members
Get(root, k, default) ==
    IF Has(root, k) THEN root.members[Name[k]] ELSE default

\* Every key is of the kind asked for, if it is there.
Converts(root, keys) ==
    \A kind \in DOMAIN keys : \A k \in keys[kind] :
        Has(root, k) => ConvertibleTo(kind, root.members[Name[k]])

PortOf(root) == AsInt(Get(root, "port", IntValue(DefaultPort)))

\* The result of the constructor.
NoConfig(exception) ==
    [result |-> exception, port |-> DefaultPort, vrpn |-> FALSE]
ConfigException == NoConfig("ConfigException")
Configured(root) ==
    IF root.type \notin {"object", "null"} \/ ~Converts(root, BeforePort)
    THEN NoConfig("LogicError")
    ELSE IF PortOf(root) \notin 0..PortMax THEN ConfigException
    ELSE IF ~Converts(root, AfterPort) THEN NoConfig("LogicError")
    ELSE [result |-> "ok", port |-> PortOf(root),
          vrpn |-> AsBool(Get(root, "vrpnEnabled", BoolValue(FALSE)))]
=============================================================================
