--------------------------------- MODULE IO ---------------------------------
(***************************************************************************)
(* Messages on the socket from the base station to the drone: SendMessage  *)
(* of gobase/base/base.go, and IO::recvMessage of wire/IO.cpp as do_recv   *)
(* calls it.                                                               *)
(*                                                                         *)
(* A message travels as its length, in HeaderLen bytes, and its body.  The *)
(* socket is a stream that keeps no boundaries: a write puts some of the   *)
(* bytes in, a read takes some of those that are there.  recvMessage never *)
(* blocks for longer than its time-out: it returns false in the middle of  *)
(* a length or a body and goes on from there in the next call.             *)
(*                                                                         *)
(* Abstracted: a message is the sequence of its serialised bytes; bytes    *)
(* are digits of base Base; messages fit the receive buffer.               *)
(***************************************************************************)
EXTENDS Integers, SequencesExt

CONSTANTS
    Base,         \* number of values of a byte; 256 in the code
    HeaderLen,    \* sizeof(uint32_t); 4 in the code
    Messages,     \* the messages the base station sends, serialised
    SocketSize,   \* bytes the socket holds before a write blocks
    MaxSent       \* bound: messages sent

Bytes == 0 .. Base - 1

ASSUME BaseAssumption == Base \in Nat \ {0, 1}
ASSUME HeaderAssumption == HeaderLen \in Nat \ {0}
ASSUME SocketAssumption == SocketSize \in Nat \ {0}
ASSUME SentAssumption == MaxSent \in Nat

VARIABLES
    unsent,     \* what SendMessage has still to write
    peer,       \* the base station: "open", "closed" or "crashed"
    wire,       \* the bytes in the socket
    buffer,     \* m_recvBuffer up to m_recvBufferIter
    recvLen,    \* m_recvLen
    connected,  \* m_connected
    rpc,        \* do_recv: "call", or inside recvMessage "length" or "body",
                \*   or "true" when it returned true, "thrown" when it threw
    update,     \* do_recv's update
    sent,       \* history: the messages sent
    delivered   \* history: the messages do_recv applied

sender == <<unsent, peer, sent>>
receiver == <<buffer, recvLen, connected, rpc, update, delivered>>
vars == <<sender, wire, receiver>>

-----------------------------------------------------------------------------
\* What is left of n after so many of its bytes, the lowest first.
Shifted(n) ==
    LET rest[k \in 0 .. HeaderLen] ==
            IF k = 0 THEN n ELSE rest[k - 1] \div Base
    IN  rest

\* A length as the bytes of a little-endian number, and back.
Digits(n) == [k \in 1 .. HeaderLen |-> Shifted(n)[k - 1] % Base]
Number(bytes) ==
    LET value[j \in 0 .. HeaderLen] ==
            IF j = 0 THEN 0
            ELSE bytes[HeaderLen - j + 1] + Base * value[j - 1]
    IN  value[HeaderLen]

\* The length of a message is one that HeaderLen bytes can hold.
Fits(n) == Shifted(n)[HeaderLen] = 0
ASSUME MessagesAssumption ==
    \A m \in Messages : m \in Seq(Bytes) /\ Fits(Len(m))

\* What SendMessage writes.
EncodeWithoutEmpty(m) == IF m = <<>> THEN <<>> ELSE Digits(Len(m)) \o m
Encode(m) == Digits(Len(m)) \o m

Init ==
    /\ unsent = <<>> /\ peer = "open" /\ wire = <<>>
    /\ buffer = <<>> /\ recvLen = 0 /\ connected = TRUE
    /\ rpc = "call" /\ update = <<>>
    /\ sent = <<>> /\ delivered = <<>>

-----------------------------------------------------------------------------
(* The base station.                                                       *)

\* SendMessage begins; one goroutine calls it, for one message at a time.
SendMessage ==
    /\ peer = "open" /\ unsent = <<>> /\ Len(sent) < MaxSent
    /\ \E m \in Messages :
          /\ sent' = Append(sent, m)
          /\ unsent' = Encode(m)
    /\ UNCHANGED <<peer, wire, receiver>>

\* A write puts some of the bytes into the socket; writeFull goes on with the
\* rest, and blocks while the socket is full.
Write ==
    /\ peer = "open"
    /\ \E n \in 1 .. Len(unsent) :
          /\ Len(wire) + n <= SocketSize
          /\ wire' = wire \o SubSeq(unsent, 1, n)
          /\ unsent' = SubSeq(unsent, n + 1, Len(unsent))
    /\ UNCHANGED <<peer, sent, receiver>>

\* Close(), which waits for the goroutine that sends.
Close ==
    /\ peer = "open" /\ unsent = <<>>
    /\ peer' = "closed"
    /\ UNCHANGED <<unsent, sent, wire, receiver>>

\* The base station dies, perhaps in the middle of a message; if it has not
\* read all it was sent this is a reset, which drops what is in the socket.
Crash ==
    /\ peer = "open"
    /\ unsent' = <<>>
    /\ \/ peer' = "crashed" /\ UNCHANGED wire
       \/ peer' = "reset" /\ wire' = <<>>
    /\ UNCHANGED <<sent, receiver>>

-----------------------------------------------------------------------------
(* IO::recvMessage, in the receive thread.                                 *)

\* Its head: it throws when disconnected, reads the length when it has none
\* yet, and otherwise goes on with the body.
Call ==
    /\ rpc = "call"
    /\ rpc' = IF ~connected THEN "thrown"
              ELSE IF recvLen = 0 THEN "length" ELSE "body"
    /\ UNCHANGED <<sender, wire, buffer, recvLen, connected, update,
                   delivered>>

\* The time-out (EAGAIN), or the end of file, which reads as zero bytes: the
\* length or the body is not complete, so recvMessage returns false.
ReadNothing ==
    /\ rpc \in {"length", "body"} /\ wire = <<>> /\ peer # "reset"
    /\ rpc' = "call"
    /\ UNCHANGED <<sender, wire, buffer, recvLen, connected, update,
                   delivered>>

\* Any other error of a read disconnects.
ReadFails ==
    /\ rpc \in {"length", "body"} /\ peer = "reset"
    /\ connected' = FALSE /\ rpc' = "thrown"
    /\ UNCHANGED <<sender, wire, buffer, recvLen, update, delivered>>

\* The bytes a read asks for.
LengthWantedFromStart == HeaderLen
LengthWanted == HeaderLen - Len(buffer)
BodyWanted == recvLen - Len(buffer)

\* A read takes the first n of the bytes that are there and leaves the others.
Taken(n) == SubSeq(wire, 1, n)
Left(n) == SubSeq(wire, n + 1, Len(wire))

\* The length.  Once it is complete the read of the body follows in the same
\* call, unless the length is zero: such a message is not parsed.
ReadLength ==
    /\ rpc = "length"
    /\ \E n \in 1 .. Min({LengthWanted, Len(wire)}) :
          LET got == buffer \o Taken(n) IN
          /\ wire' = Left(n)
          /\ \/ /\ Len(got) < HeaderLen
                /\ buffer' = got /\ rpc' = "call"
                /\ UNCHANGED recvLen
             \/ /\ Len(got) >= HeaderLen
                /\ buffer' = <<>>
                /\ recvLen' = Number(SubSeq(got, 1, HeaderLen))
                /\ rpc' = IF recvLen' = 0 THEN "true" ELSE "body"
    /\ UNCHANGED <<sender, connected, update, delivered>>

\* The body.  When it is complete it parses, or recvMessage disconnects and
\* leaves the parser as it is.
ReadBody ==
    /\ rpc = "body"
    /\ \E n \in 1 .. Min({BodyWanted, Len(wire)}) :
          LET got == buffer \o Taken(n) IN
          /\ wire' = Left(n)
          /\ \/ /\ Len(got) # recvLen
                /\ buffer' = got /\ rpc' = "call"
                /\ UNCHANGED <<recvLen, connected, update>>
             \/ /\ Len(got) = recvLen
                /\ update' = got
                /\ buffer' = <<>> /\ recvLen' = 0 /\ rpc' = "true"
                /\ UNCHANGED connected
             \/ /\ Len(got) = recvLen
                /\ buffer' = got
                /\ connected' = FALSE /\ rpc' = "thrown"
                /\ UNCHANGED <<recvLen, update>>
    /\ UNCHANGED <<sender, delivered>>

\* do_recv applies the message, and clears it before it waits for another.
ClearedNot == update
Cleared == <<>>

Apply ==
    /\ rpc = "true"
    /\ delivered' = Append(delivered, update)
    /\ update' = Cleared
    /\ rpc' = "call"
    /\ UNCHANGED <<sender, wire, buffer, recvLen, connected>>

\* The send thread's write fails: it disconnects the same IO.
SendThreadFails ==
    /\ connected /\ peer # "open"
    /\ connected' = FALSE
    /\ UNCHANGED <<sender, wire, buffer, recvLen, rpc, update, delivered>>

-----------------------------------------------------------------------------
Receive == Call \/ ReadNothing \/ ReadFails \/ ReadLength \/ ReadBody \/ Apply

Next ==
    \/ SendMessage \/ Write \/ Close \/ Crash
    \/ Receive \/ SendThreadFails

Spec == Init /\ [][Next]_vars

(* The base station writes what it began, and the receive thread calls      *)
(* recvMessage again and again.                                             *)
FairSpec == Spec /\ WF_vars(Write) /\ WF_vars(Receive)

-----------------------------------------------------------------------------
(* Properties.                                                             *)

\* What recvMessage has consumed of messages not yet delivered.
InHand ==
    IF rpc = "true" THEN Encode(update)
    ELSE (IF recvLen = 0 THEN <<>> ELSE Digits(recvLen)) \o buffer

\* The bytes of the messages not yet delivered.
Outstanding ==
    FlattenSeq([k \in 1 .. Len(sent) - Len(delivered) |->
                    Encode(sent[Len(delivered) + k])])

\* The parser state kept between calls of recvMessage (m_recvBufferIter,
\* m_recvLen) never loses its place in the stream: what is in hand, in the
\* socket and unwritten are the messages not yet delivered, or, when the base
\* station died, the first bytes of them.
StreamConserved ==
    LET stream == InHand \o wire \o unsent IN
    /\ IsPrefix(stream, Outstanding)
    /\ peer \in {"open", "closed"} => stream = Outstanding

\* The connection keeps the promise of Mailbox: messages are delivered whole,
\* once, in order, and all of them unless the connection breaks.
Channel == INSTANCE Mailbox WITH
    broken <- ~connected \/ peer \in {"crashed", "reset"}

ImplementsMailbox == Channel!FairSpec
=============================================================================
