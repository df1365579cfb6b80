----------------------------- MODULE JsonGrammar -----------------------------
(***************************************************************************)
(* What JsonReader reads, as a grammar: which sequences of lexemes are a   *)
(* value, and which one.  It is JSON with the liberties that the reader    *)
(* takes: comments, text after the value, a separator that can be anything *)
(* after a comment, and "," before "}" after a member with the empty name. *)
(* It knows nothing of tokens, of a stack or of errors.                    *)
(***************************************************************************)
EXTENDS JsonReader

CONSTANT Meaning    \* the values of the lexemes that are scalars

Comment == "/**/"
Inner(s) == SubSeq(s, 2, Len(s) - 1)
Comments(s) == ToSet(s) \subseteq {Comment}
\* The ways to cut s in two, and what separates two members.
Cuts(s) == {<<SubSeq(s, 1, k), SubSeq(s, k + 1, Len(s))>> : k \in 0..Len(s)}
Separator(s) ==
    \/ s = <<",">>
    \/ /\ Len(s) > 1 /\ Comments(Front(s))
       /\ Last(s) \notin {Comment, "}"}

RECURSIVE Values(_, _), Members(_, _, _, _), Items(_, _)

\* The values of s with at most n values inside one another.
Values(s, n) ==
    IF s = <<>> \/ n = 0 THEN {}
    ELSE IF s[1] = Comment THEN Values(Tail(s), n)
    ELSE IF Len(s) = 1 THEN {Meaning[l] : l \in DOMAIN Meaning \cap {s[1]}}
    ELSE IF s[1] = "{" /\ Last(s) = "}"
    THEN {Object(m) : m \in Members(Inner(s), n - 1, NoMembers, <<>>)}
    ELSE IF s[1] = "[" /\ Last(s) = "]"
    THEN IF Len(s) = 2 THEN {Array(<<>>)}
         ELSE {Array(i) : i \in Items(Inner(s), n - 1)}
    ELSE {}

\* The members of s, which come after those of m, the last called name.
Members(s, n, m, name) ==
    IF Comments(s) THEN IF name = <<>> THEN {m} ELSE {}
    ELSE IF s[1] = Comment THEN Members(Tail(s), n, m, name)
    ELSE IF Len(s) < 3 THEN {}
    ELSE IF s[2] # ":" \/ s[1] \notin DOMAIN Meaning THEN {}
    ELSE IF Meaning[s[1]].type # "string" THEN {}
    ELSE UNION {LET key == Meaning[s[1]].bytes
                    More(v) == key :> v @@ m
                IN UNION {
                     (IF Comments(c[2]) THEN {More(v)} ELSE {})
                     \cup UNION {Members(d[2], n, More(v), key) :
                                    d \in {x \in Cuts(c[2]) : Separator(x[1])}}
                     : v \in Values(c[1], n)}
                : c \in Cuts(SubSeq(s, 3, Len(s)))}

Items(s, n) ==
    UNION {UNION {(IF Comments(c[2]) THEN {<<v>>} ELSE {})
                  \cup UNION {{<<v>> \o rest : rest \in Items(d[2], n)} :
                                 d \in {x \in Cuts(c[2]) :
                                          /\ x[1] # <<>> /\ Last(x[1]) = ","
                                          /\ Comments(Front(x[1]))}}
                  : v \in Values(c[1], n)}
           : c \in Cuts(s)}

Read1 == UNION {Values(SubSeq(fed, 1, k), StackLimit) : k \in 0..Len(fed)}

\* The reader accepts exactly the documents that begin with a value, and
\* gives that value; otherwise it reports one error, however many brackets
\* are open, or gives up on a document that is nested too deep
\* (OurReader::readValue, readObject, readArray, recoverFromError).
ReadsAsSpecified ==
    at \in Final =>
        IF Read1 = {}
        THEN at = "thrown" /\ (errors = 1 \/ Len(nodes) > StackLimit)
        ELSE at = "done" /\ Read1 = {root}

-----------------------------------------------------------------------------
(* What numbers and strings stand for, by their textbook definitions.      *)

Numerals == UNION {[1..n -> {"0", "1", "3", "6", "9"}] : n \in 1..3}
Amount(w) == FoldLeft(LAMBDA n, c : n * 10 + DigitOf(c), 0, w)
Written(negative, w, fraction) ==
    LET n == IF negative THEN -Amount(w) ELSE Amount(w)
    IN  CASE fraction # <<>> -> Real(n, Last(fraction) # "5")
          [] fraction = <<>> /\ n \notin -Limit(TRUE)..LargestUInt ->
                Real(n, TRUE)
          [] fraction = <<>> /\ n \in -Limit(TRUE)..MaxInt -> IntValue(n)
          [] fraction = <<>> /\ n \in (MaxInt + 1)..LargestUInt ->
                UIntValue(n)
NumbersDecode ==
    \A w \in Numerals, f \in {<<>>, <<".">>, <<".", "0">>, <<".", "5">>} :
        /\ DecodeNumber(w \o f) = Written(FALSE, w, f)
        /\ DecodeNumber(<<"-">> \o w \o f) = Written(TRUE, w, f)

\* \uXXXX, or the two of a pair; and the number that bytes of UTF-8 encode.
Escape(n) == <<"\\", "u">> \o [i \in 1..4 |->
                 Hex[((n \div <<4096, 256, 16, 1>>[i]) % 16) + 1]]
Escaped(cp) ==
    IF cp < 65536 THEN Escape(cp)
    ELSE Escape(55296 + ((cp - 65536) \div 1024))
         \o Escape(56320 + ((cp - 65536) % 1024))
Encoded(bytes) ==
    FoldLeft(LAMBDA n, b : n * 64 + (b - 128),
             bytes[1] - <<0, 192, 224, 240>>[Len(bytes)], Tail(bytes))
BytesOf(cp) == CASE cp < 128 -> 1 [] cp \in 128..2047 -> 2
                 [] cp \in 2048..65535 -> 3 [] cp > 65535 -> 4
StringsDecode ==
    \A cp \in {1, 65, 127, 128, 233, 2047, 2048, 8364, 55295, 57344, 65535,
               65536, 66560, 128512, 1114111} :
        LET bytes == DecodeString(<<"\"">> \o Escaped(cp) \o <<"\"">>)
        IN Len(bytes) = BytesOf(cp) /\ Encoded(bytes) = cp

\* A numeral decodes to the number it writes, of the kind that holds it,
\* at and around the largest integers, and an escaped character to its UTF-8
\* (decodeNumber, decodeDouble, decodeUnicodeCodePoint, codePointToUTF8).
TextDecodes == fed = <<>> => NumbersDecode /\ StringsDecode
=============================================================================
