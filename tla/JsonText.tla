------------------------------ MODULE JsonText ------------------------------
(***************************************************************************)
(* The text of a JSON document: how Json::OurReader (json/jsoncpp.cpp)     *)
(* cuts it into tokens, and what numbers and strings in it stand for.      *)
(*                                                                         *)
(* A document is a sequence of characters, a position one of 1..Len(d)+1;  *)
(* strings decode to bytes.  The features are those of CharReaderBuilder's *)
(* defaults.  Abstracted: the wording and the place of an error, the       *)
(* offsets kept in values, the text of comments.                           *)
(***************************************************************************)
EXTENDS Integers, SequencesExt

CONSTANTS
    MaxInt,      \* Value::maxInt; minInt is -MaxInt - 1
    LargestUInt  \* Value::maxLargestUInt; 2^64 - 1

ASSUME WidthAssumption ==
    MaxInt \in Nat /\ LargestUInt \in Nat /\ MaxInt < LargestUInt

Digits == {"0", "1", "2", "3", "4", "5", "6", "7", "8", "9"}
Hex == <<"0", "1", "2", "3", "4", "5", "6", "7", "8", "9",
         "a", "b", "c", "d", "e", "f">>
Capitals == <<"A", "B", "C", "D", "E", "F">>
IsHex(c) == Contains(Hex, c) \/ Contains(Capitals, c)
HexDigit(c) == IF Contains(Hex, c) THEN SelectInSeq(Hex, LAMBDA h : h = c) - 1
               ELSE SelectInSeq(Capitals, LAMBDA h : h = c) + 9
Blank == {" ", "\t", "\r", "\n"}
NUL == "NUL"

-----------------------------------------------------------------------------
(* The tokens.                                                             *)

\* getNextChar() gives 0 at the end.
At(d, i) == IF i \in 1..Len(d) THEN d[i] ELSE NUL
Next1(d, i) == IF i > Len(d) THEN i ELSE i + 1

\* The first position from i on whose character is not in S.
Past(d, S, i) == CHOOSE j \in i..(Len(d) + 1) :
                     /\ At(d, j) \notin S
                     /\ \A k \in i..(j - 1) : d[k] \in S

Match(d, i, word) == SubSeq(d, i, i + Len(word) - 1) = word

\* Did the lexeme end well, and where.
EndsAt(ok, next) == [ok |-> ok, next |-> next]

\* The string whose characters begin at i ends after the first quote that no
\* backslash precedes.
ReadString(d, i) ==
    LET end[j \in 1..(Len(d) + 2)] ==
            IF j > Len(d) THEN EndsAt(FALSE, Len(d) + 1)
            ELSE IF d[j] = "\\" THEN end[j + 2]
            ELSE IF d[j] = "\"" THEN EndsAt(TRUE, j + 1)
            ELSE end[j + 1]
    IN end[i]

\* A comment whose first character is before i.  When "*/" is missing, a "/"
\* that ends the document ends the comment too.
ReadComment(d, i) ==
    LET closing == {j \in (i + 1)..(Len(d) - 1) : Match(d, j, <<"*", "/">>)}
        line == Past(d, ToSet(d) \ {"\n", "\r"}, i + 1)
    IN  CASE At(d, i) = "*" /\ closing # {} ->
                EndsAt(TRUE,
                      (CHOOSE j \in closing : \A k \in closing : j <= k) + 2)
          [] At(d, i) = "*" /\ closing = {} ->
                EndsAt(i < Len(d) /\ d[Len(d)] = "/", Len(d) + 1)
          [] At(d, i) = "/" ->
                EndsAt(TRUE, IF Match(d, line, <<"\r", "\n">>) THEN line + 2
                            ELSE Next1(d, line))
          [] OTHER -> EndsAt(FALSE, Next1(d, i))

\* The end of a number whose digits begin at i.
ReadNumber(d, i) ==
    LET whole == Past(d, Digits, i)
        fraction == IF At(d, whole) = "." THEN Past(d, Digits, whole + 1)
                    ELSE whole
        exponent == IF At(d, fraction + 1) \in {"+", "-"} THEN fraction + 2
                    ELSE Next1(d, fraction)
    IN  IF At(d, fraction) \in {"e", "E"} THEN Past(d, Digits, exponent)
        ELSE fraction

Marks == "{" :> "objectBegin" @@ "}" :> "objectEnd" @@ "[" :> "arrayBegin"
         @@ "]" :> "arrayEnd" @@ "," :> "separator" @@ ":" :> "colon"
         @@ NUL :> "end"
Literals == "t" :> [type |-> "true", rest |-> <<"r", "u", "e">>]
            @@ "f" :> [type |-> "false", rest |-> <<"a", "l", "s", "e">>]
            @@ "n" :> [type |-> "null", rest |-> <<"u", "l", "l">>]

\* The token at position p: its type, and where it starts and ends.  Not a
\* number and the infinities are not allowed; "'" begins a comment, since
\* its case falls through.
ReadToken(d, p) ==
    LET s == Past(d, Blank, p)
        c == At(d, s)
        n == Next1(d, s)
        Token(type, next) == [type |-> type, start |-> s, next |-> next]
        Found(type, lexeme) ==
            Token(IF lexeme.ok THEN type ELSE "error", lexeme.next)
    IN  CASE c \in DOMAIN Marks -> Token(Marks[c], n)
          [] c = "\"" -> Found("string", ReadString(d, n))
          [] c \in {"/", "'"} -> Found("comment", ReadComment(d, n))
          [] c \in Digits -> Token("number", ReadNumber(d, n))
          [] c = "-" -> IF At(d, n) = "I" THEN Token("error", n + 1)
                        ELSE Token("number", ReadNumber(d, n))
          [] c \in DOMAIN Literals ->
                LET w == Literals[c]
                IN IF Match(d, n, w.rest) THEN Token(w.type, n + Len(w.rest))
                   ELSE Token("error", n)
          [] OTHER -> Token("error", n)

TextOf(d, token) == SubSeq(d, token.start, token.next - 1)

-----------------------------------------------------------------------------
(* Numbers.                                                                *)

IntValue(n) == [type |-> "int", n |-> n]
UIntValue(n) == [type |-> "uint", n |-> n]
BoolValue(b) == [type |-> "bool", n |-> IF b THEN 1 ELSE 0]
NullValue == [type |-> "null", n |-> 0]
\* A double: its integral part, and is it that part?
Real(n, whole) == [type |-> "real", n |-> n, whole |-> whole]
NotANumber == [type |-> "none"]

DigitOf(c) == HexDigit(c)

\* sscanf("%lf") of a number without exponent.
DecodeDouble(text) ==
    LET negative == At(text, 1) = "-"
        from == IF negative THEN 2 ELSE 1
        dot == Past(text, Digits, from)
        value[i \in (from - 1)..Len(text)] ==
            IF i < from THEN 0
            ELSE IF i >= dot THEN value[i - 1]
            ELSE value[i - 1] * 10 + DigitOf(text[i])
        n == value[Len(text)]
        rest == SubSeq(text, dot + 1, Len(text))
    IN  IF \E i \in 1..Len(text) : text[i] \in Digits
        THEN Real(IF negative THEN -n ELSE n,
                  \A i \in 1..Len(rest) : rest[i] = "0")
        ELSE NotANumber

\* An integer of as many digits as LargestInt (a negative number) or
\* LargestUInt have room for; anything else is a double.
Limit(negative) == IF negative THEN LargestUInt \div 2 + 1 ELSE LargestUInt
FitsUnchecked(value, digit, last, max) ==
    value <= max \div 10
Fits(value, digit, last, max) ==
    \/ value < max \div 10
    \/ value = max \div 10 /\ last /\ digit <= max % 10
DecodeNumber(text) ==
    LET negative == At(text, 1) = "-"
        from == IF negative THEN 2 ELSE 1
        TooLarge == -1
        value[i \in (from - 1)..Len(text)] ==
            IF i < from THEN 0
            ELSE LET v == value[i - 1]
                 IN IF /\ v # TooLarge
                       /\ text[i] \in Digits
                       /\ Fits(v, DigitOf(text[i]), i = Len(text),
                               Limit(negative))
                    THEN v * 10 + DigitOf(text[i])
                    ELSE TooLarge
        n == value[Len(text)]
    IN  CASE n = TooLarge -> DecodeDouble(text)
          [] n # TooLarge /\ negative -> IntValue(-n)
          [] n # TooLarge /\ ~negative /\ n <= MaxInt -> IntValue(n)
          [] n # TooLarge /\ ~negative /\ n > MaxInt -> UIntValue(n)

-----------------------------------------------------------------------------
(* Strings.                                                                *)

\* The characters that documents use.
Ascii == <<"a", "b", "c", "d", "e", "f", "g", "h", "i", "j", "k", "l", "m",
           "n", "o", "p", "q", "r", "s", "t", "u", "v", "w", "x", "y", "z">>
Plain == "/" :> 47 @@ "\\" :> 92 @@ "\"" :> 34
Byte(c) == CASE c \in DOMAIN Plain -> Plain[c]
             [] Contains(Ascii, c) ->
                    96 + SelectInSeq(Ascii, LAMBDA x : x = c)
             [] Contains(Capitals, c) ->
                    64 + SelectInSeq(Capitals, LAMBDA x : x = c)
             [] c \in Digits -> 48 + DigitOf(c)
Escapes == "\"" :> 34 @@ "/" :> 47 @@ "\\" :> 92 @@ "b" :> 8 @@ "f" :> 12
           @@ "n" :> 10 @@ "r" :> 13 @@ "t" :> 9

\* codePointToUTF8()
CodePointToUTF8(cp) ==
    LET Trail(shift) == 128 + ((cp \div shift) % 64)
    IN  CASE cp <= 127 -> <<cp>>
          [] cp \in 128..2047 -> <<192 + ((cp \div 64) % 32), Trail(1)>>
          [] cp \in 2048..65535 ->
                <<224 + ((cp \div 4096) % 16), Trail(64), Trail(1)>>
          [] cp \in 65536..1114111 ->
                <<240 + ((cp \div 262144) % 8), Trail(4096), Trail(64),
                  Trail(1)>>
          [] OTHER -> <<>>

\* The number of the four digits from i on; -1 without them.
Bad == -1
DecodeUnicodeEscapeSequence(text, i, end) ==
    IF end - i >= 4 /\ \A k \in 0..3 : IsHex(text[i + k])
    THEN FoldLeft(LAMBDA n, c : n * 16 + HexDigit(c), 0,
                  SubSeq(text, i, i + 3))
    ELSE Bad

\* The code point from i on and the position after it.  The second half of a
\* pair may be any escape.
High == 55296..56319
PairSwapped(high, low) == 65536 + (low % 1024) * 1024 + (high % 1024)
PairOf(high, low) == 65536 + (high % 1024) * 1024 + (low % 1024)
DecodeUnicodeCodePoint(text, i, end) ==
    LET high == DecodeUnicodeEscapeSequence(text, i, end)
        low == DecodeUnicodeEscapeSequence(text, i + 6, end)
        paired == /\ end - (i + 4) >= 6
                  /\ Match(text, i + 4, <<"\\", "u">>)
    IN  CASE high \notin High -> [cp |-> high, next |-> i + 4]
          [] high \in High /\ paired /\ low # Bad ->
                [cp |-> PairOf(high, low), next |-> i + 10]
          [] OTHER -> [cp |-> Bad, next |-> i]

\* The bytes of a string; Undecodable for one with a bad escape.
Undecodable == <<Bad>>
DecodeString(text) ==
    LET end == Len(text)
        After(head, rest) == IF rest = Undecodable THEN rest ELSE head \o rest
        from[i \in 2..(end + 12)] ==
            IF i >= end THEN <<>>
            ELSE IF text[i] # "\\" THEN After(<<Byte(text[i])>>, from[i + 1])
            ELSE IF i + 1 = end THEN Undecodable
            ELSE IF text[i + 1] \in DOMAIN Escapes
            THEN After(<<Escapes[text[i + 1]]>>, from[i + 2])
            ELSE IF text[i + 1] = "u"
            THEN LET u == DecodeUnicodeCodePoint(text, i + 2, end)
                 IN IF u.cp = Bad THEN Undecodable
                    ELSE After(CodePointToUTF8(u.cp), from[u.next])
            ELSE Undecodable
    IN from[2]
=============================================================================
