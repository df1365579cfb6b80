------------------------------ MODULE JsonReader ------------------------------
(***************************************************************************)
(* Json::OurReader (json/jsoncpp.cpp) as a machine that reads one token a  *)
(* step: the reader behind "config_file >> m_root" of misc/Config.cpp.     *)
(*                                                                         *)
(* The calls of readValue, readObject and readArray that are under way are *)
(* the stack nodes; `at` is where the innermost of them stands.  The       *)
(* document is chosen lexeme by lexeme as the reader comes to it, each     *)
(* lexeme followed by a blank, so that the bound on its length is reached  *)
(* only by documents whose beginning is well formed.                       *)
(*                                                                         *)
(* Abstracted: comments leave no trace (setComment asserts that a comment  *)
(* begins with "/": none of the lexemes begins with "'"); of an error only *)
(* that there is one; offsets.  Numbers have no exponent.                  *)
(***************************************************************************)
EXTENDS JsonText

CONSTANTS
    Lexemes,     \* names of the lexemes a document is made of
    Spelling,    \* their characters
    Unended,     \* the lexemes that swallow what follows: they come last
    AfterError,  \* bound: the lexemes after an error
    MaxLexemes,  \* bound: lexemes of a document
    StackLimit   \* setting "stackLimit"; 1000

ASSUME LexemesAssumption ==
    /\ DOMAIN Spelling = Lexemes
    /\ Unended \subseteq Lexemes /\ AfterError \subseteq Lexemes
ASSUME LimitsAssumption == MaxLexemes \in Nat /\ StackLimit \in Nat \ {0}

VARIABLES
    fed,        \* history: the lexemes of the document so far
    ended,      \* is that all of it?
    ahead,      \* the characters not read yet
    at,         \* where the reader is
    nodes,      \* the values being read, the outermost first, each with the
                \* name of the member that is read in it
    ok,         \* what the call that ended last has returned
    commented,  \* has a comment come instead of the separator?
    errors,     \* errors_.size()
    root        \* the value, once the reader has returned

document == <<fed, ended, ahead>>
calls == <<nodes, ok, commented, errors>>
reader == <<document, at, calls, root>>

Object(members) == [type |-> "object", members |-> members]
Array(items) == [type |-> "array", items |-> items]
String(bytes) == [type |-> "string", bytes |-> bytes]
NoMembers == <<>>
Node == [value |-> NullValue, name |-> <<>>]

\* OurReader() and the beginning of parse().
ReaderInit ==
    /\ fed = <<>> /\ ended = FALSE /\ ahead = <<>>
    /\ at = "value" /\ nodes = <<Node>> /\ ok = TRUE /\ commented = FALSE
    /\ errors = 0 /\ root = NullValue

-----------------------------------------------------------------------------
(* The document.                                                           *)

Exhausted == ToSet(ahead) \subseteq Blank
Final == {"done", "thrown"}

\* The document goes on with lexeme l ...
Feed(l) ==
    /\ at \notin Final /\ Exhausted /\ ~ended
    /\ Len(fed) < MaxLexemes
    /\ errors > 0 => l \in AfterError
    /\ fed' = Append(fed, l)
    /\ ahead' = Append(Spelling[l], " ")
    /\ ended' = (l \in Unended)
    /\ UNCHANGED <<at, calls, root>>

\* ... or ends here.
EndOfDocument ==
    /\ at \notin Final /\ Exhausted /\ ~ended
    /\ ended' = TRUE
    /\ UNCHANGED <<fed, ahead, at, calls, root>>

Ready == ended \/ ~Exhausted

\* readToken(): token t is read.
Read(t) ==
    /\ Ready
    /\ t = ReadToken(ahead, 1)
    /\ ahead' = SubSeq(ahead, t.next, Len(ahead))
    /\ UNCHANGED <<fed, ended, root>>

Token == ReadToken(ahead, 1)
Text(t) == TextOf(ahead, t)

-----------------------------------------------------------------------------
(* Values.                                                                 *)

Top == nodes[Len(nodes)]
Container == Top.value.type
SetTop(value) == [nodes EXCEPT ![Len(nodes)].value = value]
Continue(where) == at' = where /\ UNCHANGED <<ok, errors>>
Return(result) == at' = "return" /\ ok' = result
\* addError(), and then recoverFromError() in the container.
Closer == IF Container = "object" THEN "objectEnd" ELSE "arrayEnd"
AddErrorAndRecover ==
    at' = "recover" /\ errors' = errors + 1 /\ UNCHANGED ok

\* The value of a token that is a value by itself; NotANumber for a string
\* or a number that cannot be decoded.
Scalar(t) ==
    CASE t.type = "number" -> DecodeNumber(Text(t))
      [] t.type = "string" ->
            LET bytes == DecodeString(Text(t))
            IN IF bytes = Undecodable THEN NotANumber ELSE String(bytes)
      [] t.type = "true" -> BoolValue(TRUE)
      [] t.type = "false" -> BoolValue(FALSE)
      [] t.type = "null" -> NullValue
Scalars == {"number", "string", "true", "false", "null"}

\* The caller of skipCommentTokens() reads on.
SkipComment ==
    /\ at \in {"value", "member", "afterItem", "rest"}
    /\ at = "value" => Len(nodes) <= StackLimit
    /\ Read(Token) /\ Token.type = "comment"
    /\ UNCHANGED <<at, calls>>

TooDeep ==
    /\ at = "value" /\ Len(nodes) > StackLimit
    /\ at' = "thrown"
    /\ UNCHANGED <<document, calls, root>>

ReadValue ==
    /\ at = "value" /\ Len(nodes) <= StackLimit
    /\ Read(Token) /\ Token.type # "comment"
    /\ UNCHANGED commented
    /\ \/ /\ Token.type = "objectBegin"
          /\ nodes' = SetTop(Object(NoMembers))
          /\ Continue("member")
       \/ /\ Token.type = "arrayBegin"
          /\ nodes' = SetTop(Array(<<>>))
          /\ Continue("firstItem")
       \/ /\ Token.type \in Scalars /\ Scalar(Token) # NotANumber
          /\ nodes' = SetTop(Scalar(Token))
          /\ Return(TRUE)
          /\ UNCHANGED errors
       \/ /\ \/ Token.type \in Scalars /\ Scalar(Token) = NotANumber
             \/ Token.type \in {"objectEnd", "arrayEnd", "separator",
                                "colon", "end", "error"}
          /\ errors' = errors + 1
          /\ Return(FALSE)
          /\ UNCHANGED nodes

-----------------------------------------------------------------------------
(* Objects and arrays.                                                     *)

\* The name of a member, or the end of the object: right after its beginning
\* or, since that is how readObject() knows it is there, after the member
\* with the empty name.
ReadMember ==
    /\ at = "member"
    /\ Read(Token) /\ Token.type # "comment"
    /\ UNCHANGED commented
    /\ \/ /\ Token.type = "objectEnd" /\ Top.name = <<>>
          /\ Return(TRUE)
          /\ UNCHANGED <<nodes, errors>>
       \/ /\ Token.type = "string" /\ Scalar(Token) # NotANumber
          /\ nodes' = [nodes EXCEPT ![Len(nodes)].name = Scalar(Token).bytes]
          /\ Continue("colon")
       \/ /\ \/ Token.type = "string" /\ Scalar(Token) = NotANumber
             \/ Token.type = "objectEnd" /\ Top.name # <<>>
             \/ Token.type \notin {"objectEnd", "string"}
          /\ AddErrorAndRecover
          /\ UNCHANGED nodes

ReadColon ==
    /\ at = "colon"
    /\ Read(Token)
    /\ UNCHANGED commented
    /\ \/ /\ Token.type = "colon"
          /\ nodes' = Append(nodes, Node)
          /\ Continue("value")
       \/ /\ Token.type # "colon"
          /\ AddErrorAndRecover
          /\ UNCHANGED nodes

\* After a member.  If a comment comes first, whatever follows it separates
\* this member from the next.
SeparatesAlways(t) == TRUE
Separates(t) == t.type = "separator" \/ commented
AfterMember ==
    /\ at = "afterMember"
    /\ Read(Token)
    /\ UNCHANGED nodes
    /\ \/ /\ Token.type = "comment"
          /\ commented' = TRUE
          /\ Continue("afterMember")
       \/ /\ Token.type = "objectEnd"
          /\ commented' = FALSE
          /\ Return(TRUE)
          /\ UNCHANGED errors
       \/ /\ Token.type \notin {"comment", "objectEnd"} /\ Separates(Token)
          /\ commented' = FALSE
          /\ Continue("member")
       \/ /\ Token.type \notin {"comment", "objectEnd"} /\ ~Separates(Token)
          /\ commented' = FALSE
          /\ AddErrorAndRecover

\* An array is empty only if "]" is the very next character but blanks.
FirstItem ==
    /\ at = "firstItem" /\ Ready
    /\ \/ /\ Token.type = "arrayEnd"
          /\ Read(Token)
          /\ Return(TRUE)
          /\ UNCHANGED <<nodes, commented, errors>>
       \/ /\ Token.type # "arrayEnd"
          /\ nodes' = Append(nodes, Node)
          /\ Continue("value")
          /\ UNCHANGED <<document, root, commented>>

AfterItem ==
    /\ at = "afterItem"
    /\ Read(Token) /\ Token.type # "comment"
    /\ UNCHANGED commented
    /\ \/ /\ Token.type = "arrayEnd"
          /\ Return(TRUE)
          /\ UNCHANGED <<nodes, errors>>
       \/ /\ Token.type = "separator"
          /\ nodes' = Append(nodes, Node)
          /\ Continue("value")
       \/ /\ Token.type \notin {"arrayEnd", "separator"}
          /\ AddErrorAndRecover
          /\ UNCHANGED nodes

\* recoverFromError(): up to the end of the container, or what looks like it.
Recover ==
    /\ at = "recover"
    /\ Read(Token)
    /\ IF Token.type \in {Closer, "end"}
       THEN Return(FALSE) ELSE at' = at /\ UNCHANGED ok
    /\ UNCHANGED <<nodes, commented, errors>>

-----------------------------------------------------------------------------
(* The end of a call.                                                      *)

\* The container that got the value of its member or item.  operator[]
\* finds the member of that name if there is one: the last value counts.
Put(container, name, value) ==
    IF container.type = "object"
    THEN Object([k \in DOMAIN container.members \cup {name} |->
                    IF k = name THEN value ELSE container.members[k]])
    ELSE Array(Append(container.items, value))

\* readValue() returns to readObject() or readArray().
ReturnInside ==
    /\ at = "return" /\ Len(nodes) > 1
    /\ LET parent == nodes[Len(nodes) - 1]
           value == Put(parent.value, parent.name, Top.value)
           parents == Front(nodes)
       IN  /\ nodes' = [parents EXCEPT ![Len(parents)].value = value]
           /\ at' = IF ~ok THEN "recover"
                    ELSE IF parent.value.type = "object" THEN "afterMember"
                    ELSE "afterItem"
    /\ UNCHANGED <<document, ok, commented, errors, root>>

\* readValue() returns to parse(), which reads one more token: text after
\* the value is no error.
ReturnOutside ==
    /\ at = "return" /\ Len(nodes) = 1
    /\ at' = "rest"
    /\ UNCHANGED <<document, calls, root>>

\* operator>> throws a RuntimeError if parse() has failed.
ReadRest ==
    /\ at = "rest" /\ Ready /\ Token.type # "comment"
    /\ ahead' = SubSeq(ahead, Token.next, Len(ahead))
    /\ IF ok THEN at' = "done" /\ root' = Top.value
       ELSE at' = "thrown" /\ UNCHANGED root
    /\ UNCHANGED <<fed, ended, calls>>

ReaderNext ==
    \/ \E l \in Lexemes : Feed(l)
    \/ EndOfDocument
    \/ SkipComment \/ TooDeep \/ ReadValue
    \/ ReadMember \/ ReadColon \/ AfterMember
    \/ FirstItem \/ AfterItem \/ Recover
    \/ ReturnInside \/ ReturnOutside \/ ReadRest
=============================================================================
