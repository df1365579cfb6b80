---------------------------- MODULE StreamProofs ----------------------------
(***************************************************************************)
(* Theorems about the three streams of bytes that the program takes apart  *)
(* again: the messages of IO, for every size of a byte and of a length,    *)
(* every set of messages and every way the socket cuts up the stream; the  *)
(* records of VariableLogger, for every set of loggers, every size of a    *)
(* record and of the buffer, and every way a write cuts up the buffer; and *)
(* the frames of MultiWii, for every preamble, code and data that fit its  *)
(* buffers, and every way read and write cut up the line.                  *)
(*                                                                         *)
(* They rest on facts about data: what FlattenSeq and the two halves of    *)
(* the length's code compute.  Those are proved by induction, in a form    *)
(* that has a set or a function where the library's theorems have an       *)
(* operator, from the well-foundedness of the naturals.                    *)
(***************************************************************************)
EXTENDS IO, VariableLogger, MultiWii, SequenceTheorems, FiniteSetTheorems,
        WellFoundedInduction, TLAPS

-----------------------------------------------------------------------------
(* Induction and recursion.                                                *)

\* A set of naturals that is not empty has a least element.
LEMMA Least ==
  ASSUME NEW T, T \subseteq Nat, T # {}
  PROVE  \E x \in T : \A y \in T : x <= y
<1> DEFINE R == OpToRel(<, Nat)
<1>1. IsWellFoundedOn(R, Nat)
  BY NatLessThanWellFounded
<1>2. \A x, y \in Nat : x < y => <<x, y>> \in R
  BY DEF OpToRel
<1> HIDE DEF R
<1>3. PICK x \in T : \A y \in T : ~(<<y, x>> \in R)
  BY <1>1, WFMin
<1>4. \A y \in T : ~(y < x)
  BY <1>2, <1>3
<1>5. QED
  BY <1>4

\* Induction: a set that has 0 and is closed under successors has all of Nat.
LEMMA Induction ==
  ASSUME NEW P, 0 \in P, \A n \in Nat : n \in P => n + 1 \in P
  PROVE  \A n \in Nat : n \in P
<1> DEFINE T == Nat \ P
<1> SUFFICES ASSUME T # {} PROVE FALSE
  OBVIOUS
<1>1. PICK x \in T : \A y \in T : x <= y
  BY Least
<1>2. x \in Nat /\ x # 0
  BY <1>1
<1>3. x - 1 \in Nat /\ x - 1 \notin T
  BY <1>1, <1>2
<1>4. (x - 1) + 1 \in P
  BY <1>3
<1>5. QED
  BY <1>1, <1>2, <1>4

\* Recursion: a start and a step define a function.
Recurs(S, a, step) ==
    \E f \in [Nat -> S] :
        f[0] = a /\ \A n \in Nat : f[n + 1] = step[n][f[n]]

LEMMA Recursion ==
  ASSUME NEW S, NEW a \in S, NEW step \in [Nat -> [S -> S]]
  PROVE  Recurs(S, a, step)
<1> DEFINE Upto(n, g) ==
              /\ g \in [0 .. n -> S] /\ g[0] = a
              /\ \A k \in 0 .. n - 1 : g[k + 1] = step[k][g[k]]
<1>1. \A n \in Nat : \E g : Upto(n, g)
  <2> DEFINE P == {n \in Nat : \E g : Upto(n, g)}
  <2>1. 0 \in P
    <3>1. Upto(0, [k \in 0 .. 0 |-> a])
      OBVIOUS
    <3>2. QED
      BY <3>1
  <2>2. ASSUME NEW n \in Nat, n \in P PROVE n + 1 \in P
    <3>1. PICK g : Upto(n, g)
      BY <2>2
    <3> DEFINE h == [k \in 0 .. n + 1 |->
                        IF k = n + 1 THEN step[n][g[n]] ELSE g[k]]
    <3>2. g[n] \in S /\ step[n][g[n]] \in S
      BY <3>1
    <3>3. h \in [0 .. n + 1 -> S] /\ h[0] = a
      BY <3>1, <3>2
    <3>4. \A k \in 0 .. n : h[k] = g[k]
      OBVIOUS
    <3>5. ASSUME NEW k \in 0 .. (n + 1) - 1
          PROVE  h[k + 1] = step[k][h[k]]
      <4>1. CASE k = n
        BY <3>4, <4>1
      <4>2. CASE k # n
        BY <3>1, <3>4, <4>2
      <4>3. QED
        BY <4>1, <4>2
    <3> HIDE DEF h
    <3>6. Upto(n + 1, h)
      BY <3>3, <3>5
    <3>7. QED
      BY <3>6
  <2> HIDE DEF P
  <2>3. \A n \in Nat : n \in P
    BY <2>1, <2>2, Induction
  <2>4. QED
    BY <2>3 DEF P
<1>2. ASSUME NEW m \in Nat, NEW g, Upto(m, g)
      PROVE  \A n \in Nat : n <= m =>
                 \A h : Upto(n, h) => \A k \in 0 .. n : h[k] = g[k]
  <2> SUFFICES ASSUME NEW n \in Nat, n <= m, NEW h, Upto(n, h)
               PROVE  \A k \in 0 .. n : h[k] = g[k]
    OBVIOUS
  <2> DEFINE P == {k \in Nat : k <= n => h[k] = g[k]}
  <2>1. 0 \in P
    BY <1>2
  <2>2. ASSUME NEW k \in Nat, k \in P PROVE k + 1 \in P
    BY <1>2, <2>2
  <2> HIDE DEF P
  <2>3. \A k \in Nat : k \in P
    BY <2>1, <2>2, Induction
  <2>4. QED
    BY <2>3 DEF P
<1> DEFINE G(n) == CHOOSE g : Upto(n, g)
           f == [n \in Nat |-> G(n)[n]]
<1>3. ASSUME NEW n \in Nat PROVE Upto(n, G(n))
  BY <1>1
<1> HIDE DEF G
<1>4. f \in [Nat -> S] /\ f[0] = a
  BY <1>3
<1>5. ASSUME NEW n \in Nat PROVE f[n + 1] = step[n][f[n]]
  <2>1. Upto(n, G(n)) /\ Upto(n + 1, G(n + 1)) /\ n <= n + 1
    BY <1>3
  <2>2. n \in 0 .. n /\ n + 1 \in Nat
    OBVIOUS
  <2>3. G(n)[n] = G(n + 1)[n]
    <3> HIDE DEF Upto
    <3> QED
      BY <1>2, <2>1, <2>2
  <2>4. G(n + 1)[n + 1] = step[n][G(n + 1)[n]]
    BY <2>1
  <2>5. QED
    BY <2>3, <2>4
<1> HIDE DEF f
<1>6. QED
  BY <1>4, <1>5 DEF Recurs

-----------------------------------------------------------------------------
(* FlattenSeq.                                                             *)

\* Strings over an alphabet and sequences of them.  (The provers do better with
\* names for these sets, and with what follows from them.)
StringsOf(A) == Seq(A)
TextsOf(A) == Seq(StringsOf(A))

\* Strings are a monoid.
LEMMA MonoidOf ==
  ASSUME NEW A
  PROVE  /\ <<>> \in StringsOf(A)
         /\ \A x, y \in StringsOf(A) : x \o y \in StringsOf(A)
         /\ \A x \in StringsOf(A) : x \o <<>> = x /\ <<>> \o x = x
         /\ \A x, y, z \in StringsOf(A) : (x \o y) \o z = x \o (y \o z)
<1>1. <<>> \in StringsOf(A)
  BY DEF StringsOf
<1>2. ASSUME NEW x \in StringsOf(A), NEW y \in StringsOf(A)
      PROVE  x \o y \in StringsOf(A)
  BY ConcatProperties DEF StringsOf
<1>3. ASSUME NEW x \in StringsOf(A) PROVE x \o <<>> = x /\ <<>> \o x = x
  BY ConcatEmptySeq DEF StringsOf
<1>4. ASSUME NEW x \in StringsOf(A), NEW y \in StringsOf(A),
             NEW z \in StringsOf(A)
      PROVE  (x \o y) \o z = x \o (y \o z)
  BY ConcatAssociative DEF StringsOf
<1>5. QED
  BY <1>1, <1>2, <1>3, <1>4

\* The first N elements of s are strings.
Strung(A, s, N) == \A k \in 1 .. N : s[k] \in StringsOf(A)

\* What a text is made of.
LEMMA TextTypeOf ==
  ASSUME NEW A, NEW s \in TextsOf(A)
  PROVE  Len(s) \in Nat /\ Strung(A, s, Len(s))
  BY ElementOfSeq, LenProperties DEF TextsOf, Strung

\* f has in f[n] the first n strings of s, one after the other.
Joins(A, s, N, f) ==
    /\ f \in [Nat -> StringsOf(A)] /\ f[0] = <<>>
    /\ \A n \in Nat : n < N => f[n + 1] = f[n] \o s[n + 1]

\* There is such a function.
LEMMA JoinsExists ==
  ASSUME NEW A, NEW N \in Nat, NEW s, Strung(A, s, N)
  PROVE  \E f : Joins(A, s, N, f)
<1> DEFINE step == [n \in Nat |-> [x \in StringsOf(A) |->
                        IF n < N THEN x \o s[n + 1] ELSE x]]
<1>1. ASSUME NEW n \in Nat, NEW x \in StringsOf(A), n < N
      PROVE  x \o s[n + 1] \in StringsOf(A)
  <2>1. n + 1 \in 1 .. N
    BY <1>1
  <2>2. QED
    BY <2>1, MonoidOf DEF Strung
<1>2. step \in [Nat -> [StringsOf(A) -> StringsOf(A)]]
  BY <1>1
<1>3. ASSUME NEW n \in Nat, NEW x \in StringsOf(A), n < N
      PROVE  step[n][x] = x \o s[n + 1]
  BY <1>3
<1> HIDE DEF step
<1>4. <<>> \in StringsOf(A)
  BY MonoidOf
<1>5. Recurs(StringsOf(A), <<>>, step)
  BY <1>2, <1>4, Recursion
<1>6. PICK f \in [Nat -> StringsOf(A)] :
          f[0] = <<>> /\ \A n \in Nat : f[n + 1] = step[n][f[n]]
  BY <1>5 DEF Recurs
<1>7. ASSUME NEW n \in Nat, n < N PROVE f[n + 1] = f[n] \o s[n + 1]
  <2>1. f[n] \in StringsOf(A)
    BY <1>6
  <2>2. QED
    BY <1>3, <1>6, <1>7, <2>1
<1>8. Joins(A, s, N, f)
  BY <1>6, <1>7 DEF Joins
<1>9. QED
  BY <1>8

\* The recursion in FlattenSeq defines the same function.
Recursive(s, N, g) ==
    g = [k \in 1 .. N |-> IF k = 1 THEN s[k] ELSE g[k - 1] \o s[k]]

LEMMA JoinsUnique ==
  ASSUME NEW A, NEW N \in Nat, NEW s, Strung(A, s, N),
         NEW f, Joins(A, s, N, f),
         NEW g, Recursive(s, N, g)
  PROVE  \A k \in 1 .. N : g[k] = f[k]
<1> DEFINE P == {k \in Nat : k \in 1 .. N => g[k] = f[k]}
<1>1. 0 \in P
  OBVIOUS
<1>2. ASSUME NEW k \in Nat, k \in P PROVE k + 1 \in P
  <2> SUFFICES ASSUME k + 1 \in 1 .. N PROVE g[k + 1] = f[k + 1]
    OBVIOUS
  <2>1. f[k + 1] = f[k] \o s[k + 1] /\ f[k] \in StringsOf(A)
    BY DEF Joins
  <2>2. g[k + 1] = IF k + 1 = 1 THEN s[k + 1] ELSE g[(k + 1) - 1] \o s[k + 1]
    BY DEF Recursive
  <2>3. CASE k = 0
    <3>1. s[k + 1] \in StringsOf(A) /\ f[k] = <<>>
      BY <2>3 DEF Joins, Strung
    <3>2. QED
      BY <2>1, <2>2, <2>3, <3>1, MonoidOf
  <2>4. CASE k # 0
    <3>1. k \in 1 .. N /\ (k + 1) - 1 = k /\ k + 1 # 1
      BY <2>4
    <3>2. g[k] = f[k]
      BY <1>2, <3>1
    <3>3. g[k + 1] = g[k] \o s[k + 1]
      BY <2>2, <3>1
    <3>4. QED
      BY <2>1, <3>2, <3>3
  <2>5. QED
    BY <2>3, <2>4
<1> HIDE DEF P
<1>3. \A k \in Nat : k \in P
  BY <1>1, <1>2, Induction
<1>4. QED
  BY <1>3 DEF P

LEMMA JoinsRecursive ==
  ASSUME NEW A, NEW N \in Nat, NEW s, Strung(A, s, N),
         NEW f, Joins(A, s, N, f)
  PROVE  \E g : Recursive(s, N, g)
<1> DEFINE g == [k \in 1 .. N |-> f[k]]
<1>1. ASSUME NEW k \in 1 .. N
      PROVE  g[k] = IF k = 1 THEN s[k] ELSE g[k - 1] \o s[k]
  <2>1. k - 1 \in Nat /\ k - 1 < N /\ (k - 1) + 1 = k
    OBVIOUS
  <2>2. f[(k - 1) + 1] = f[k - 1] \o s[(k - 1) + 1]
    BY <2>1 DEF Joins
  <2>3. f[k] = f[k - 1] \o s[k]
    BY <2>1, <2>2
  <2>4. CASE k = 1
    <3>1. f[k - 1] = <<>> /\ s[k] \in StringsOf(A)
      BY <2>4 DEF Joins, Strung
    <3>2. QED
      BY <2>3, <2>4, <3>1, MonoidOf
  <2>5. CASE k # 1
    <3>1. k - 1 \in 1 .. N
      BY <2>5
    <3>2. g[k - 1] = f[k - 1] /\ g[k] = f[k]
      BY <3>1
    <3>3. QED
      BY <2>3, <2>5, <3>2
  <2>6. QED
    BY <2>4, <2>5
<1>2. Recursive(s, N, g)
  BY <1>1 DEF Recursive
<1> HIDE DEF g
<1>3. QED
  BY <1>2

\* FlattenSeq computes it.
LEMMA FlattenJoins ==
  ASSUME NEW A, NEW s \in TextsOf(A), NEW f, Joins(A, s, Len(s), f)
  PROVE  FlattenSeq(s) = f[Len(s)]
<1> DEFINE N == Len(s)
<1>1. N \in Nat /\ Strung(A, s, N)
  BY TextTypeOf
<1>2. CASE N = 0
  <2>1. s = <<>>
    BY <1>2, EmptySeq DEF TextsOf
  <2>2. FlattenSeq(s) = s
    BY <1>2 DEF FlattenSeq
  <2>3. QED
    BY <1>2, <2>1, <2>2 DEF Joins
<1>3. CASE N # 0
  <2> DEFINE g == CHOOSE h : Recursive(s, N, h)
  <2>1. FlattenSeq(s) = g[N]
    BY <1>3 DEF FlattenSeq, Recursive
  <2>2. \E h : Recursive(s, N, h)
    BY <1>1, JoinsRecursive
  <2>3. Recursive(s, N, g)
    BY <2>2
  <2> HIDE DEF g
  <2>4. \A k \in 1 .. N : g[k] = f[k]
    BY <1>1, <2>3, JoinsUnique
  <2>5. QED
    BY <1>1, <1>3, <2>1, <2>4
<1>4. QED
  BY <1>2, <1>3

\* The empty text, and the type of the result.
LEMMA FlattenEmpty == FlattenSeq(<<>>) = <<>>
  BY DEF FlattenSeq

LEMMA FlattenTypeOf ==
  ASSUME NEW A, NEW s \in TextsOf(A)
  PROVE  FlattenSeq(s) \in StringsOf(A)
<1>1. Len(s) \in Nat /\ Strung(A, s, Len(s))
  BY TextTypeOf
<1>2. PICK f : Joins(A, s, Len(s), f)
  BY <1>1, JoinsExists
<1>3. FlattenSeq(s) = f[Len(s)]
  BY <1>2, FlattenJoins
<1>4. QED
  BY <1>1, <1>2, <1>3 DEF Joins

\* The first N strings of t make y.
Make(A, t, N, y) == \E g : Joins(A, t, N, g) /\ g[N] = y

\* A string more at the end ...
Extends(s, N, t) == \A k \in 1 .. N : t[k] = s[k]

LEMMA JoinsMore ==
  ASSUME NEW A, NEW N \in Nat, NEW s, NEW t, NEW x \in StringsOf(A),
         NEW f, Joins(A, s, N, f),
         Extends(s, N, t), t[N + 1] = x
  PROVE  Make(A, t, N + 1, f[N] \o x)
<1> DEFINE g == [f EXCEPT ![N + 1] = f[N] \o x]
<1>1. f \in [Nat -> StringsOf(A)] /\ f[N] \o x \in StringsOf(A)
  BY MonoidOf DEF Joins
<1>2. /\ g \in [Nat -> StringsOf(A)] /\ g[N + 1] = f[N] \o x
      /\ \A k \in 0 .. N : g[k] = f[k]
  BY <1>1
<1> HIDE DEF g
<1>3. ASSUME NEW k \in Nat, k < N + 1 PROVE g[k + 1] = g[k] \o t[k + 1]
  <2>1. CASE k = N
    <3>1. g[k] = f[N] /\ g[k + 1] = f[N] \o x /\ t[k + 1] = x
      BY <1>2, <2>1
    <3>2. QED
      BY <3>1
  <2>2. CASE k # N
    <3>1. k < N /\ k \in 0 .. N /\ k + 1 \in 0 .. N /\ k + 1 \in 1 .. N
      BY <1>3, <2>2
    <3>2. f[k + 1] = f[k] \o s[k + 1]
      BY <3>1 DEF Joins
    <3>3. QED
      BY <1>2, <3>1, <3>2 DEF Extends
  <2>3. QED
    BY <2>1, <2>2
<1>4. g[0] = <<>>
  BY <1>2 DEF Joins
<1>5. Joins(A, t, N + 1, g)
  BY <1>2, <1>3, <1>4 DEF Joins
<1>6. QED
  BY <1>2, <1>5 DEF Make

LEMMA FlattenAppendOf ==
  ASSUME NEW A, NEW s \in TextsOf(A), NEW t \in TextsOf(A),
         NEW x \in StringsOf(A),
         Len(t) = Len(s) + 1, t[Len(s) + 1] = x,
         Extends(s, Len(s), t)
  PROVE  FlattenSeq(t) = FlattenSeq(s) \o x
<1>1. Len(s) \in Nat /\ Strung(A, s, Len(s))
  BY TextTypeOf
<1>2. PICK f : Joins(A, s, Len(s), f)
  BY <1>1, JoinsExists
<1> DEFINE N == Len(s)
<1>3. Make(A, t, N + 1, f[N] \o x)
  <2>1. N \in Nat /\ Joins(A, s, N, f) /\ Extends(s, N, t) /\ t[N + 1] = x
    BY <1>1, <1>2
  <2> HIDE DEF N
  <2>2. QED
    BY <2>1, JoinsMore
<1>6. PICK g : Joins(A, t, Len(s) + 1, g) /\ g[Len(s) + 1] = f[Len(s)] \o x
  BY <1>3 DEF Make
<1>4. FlattenSeq(s) = f[Len(s)]
  BY <1>2, FlattenJoins
<1>5. FlattenSeq(t) = g[Len(t)]
  BY <1>6, FlattenJoins
<1>7. QED
  BY <1>4, <1>5, <1>6

\* ... or at the beginning.
Follows(s, N, t) == \A k \in 1 .. N : t[k + 1] = s[k]

LEMMA JoinsBefore ==
  ASSUME NEW A, NEW N \in Nat, NEW s, NEW t, NEW x \in StringsOf(A),
         Strung(A, s, N),
         NEW f, Joins(A, s, N, f),
         Follows(s, N, t), t[1] = x
  PROVE  Make(A, t, N + 1, x \o f[N])
<1>1. ASSUME NEW k \in Nat
      PROVE  f[k] \in StringsOf(A) /\ x \o f[k] \in StringsOf(A)
  BY MonoidOf DEF Joins
<1> DEFINE g == [n \in Nat |-> IF n = 0 THEN <<>> ELSE x \o f[n - 1]]
<1>2. ASSUME NEW k \in Nat PROVE g[k + 1] = x \o f[k]
  <2>1. (k + 1) - 1 = k /\ k + 1 \in Nat /\ k + 1 # 0
    OBVIOUS
  <2>2. g[k + 1] = x \o f[(k + 1) - 1]
    BY <2>1
  <2>3. QED
    BY <2>1, <2>2
<1>3. g \in [Nat -> StringsOf(A)] /\ g[0] = <<>>
  <2>1. ASSUME NEW n \in Nat, n # 0 PROVE x \o f[n - 1] \in StringsOf(A)
    <3>1. n - 1 \in Nat
      BY <2>1
    <3>2. QED
      BY <1>1, <3>1
  <2>2. QED
    BY <2>1, MonoidOf
<1> HIDE DEF g
<1>4. ASSUME NEW k \in Nat, k < N + 1 PROVE g[k + 1] = g[k] \o t[k + 1]
  <2>1. CASE k = 0
    <3>1. f[k] = <<>> /\ g[k] = <<>> /\ t[k + 1] = x
      BY <1>3, <2>1 DEF Joins
    <3>2. x \o <<>> = <<>> \o x
      BY MonoidOf
    <3>3. QED
      BY <1>2, <3>1, <3>2
  <2>2. CASE k # 0
    <3> DEFINE j == k - 1
    <3>1. j \in Nat /\ j < N /\ j + 1 = k /\ k \in 1 .. N
      BY <1>4, <2>2
    <3> HIDE DEF j
    <3>2. f[j + 1] = f[j] \o s[j + 1]
      BY <3>1 DEF Joins
    <3>3. f[k] = f[j] \o t[k + 1]
      BY <3>1, <3>2 DEF Follows
    <3>4. g[k + 1] = x \o f[k] /\ g[j + 1] = x \o f[j]
      BY <1>2, <3>1
    <3>5. t[k + 1] \in StringsOf(A) /\ f[j] \in StringsOf(A)
      BY <1>1, <3>1 DEF Strung, Follows
    <3>6. (x \o f[j]) \o t[k + 1] = x \o (f[j] \o t[k + 1])
      <4>1. \A u, v, w \in StringsOf(A) : (u \o v) \o w = u \o (v \o w)
        BY MonoidOf, Zenon
      <4>2. QED
        BY <3>5, <4>1, Zenon
    <3>7. QED
      BY <3>1, <3>3, <3>4, <3>6
  <2>3. QED
    BY <2>1, <2>2
<1>5. Joins(A, t, N + 1, g)
  BY <1>3, <1>4 DEF Joins
<1>6. QED
  BY <1>2, <1>5 DEF Make

LEMMA FlattenFirstOf ==
  ASSUME NEW A, NEW s \in TextsOf(A), NEW t \in TextsOf(A),
         NEW x \in StringsOf(A),
         Len(t) = Len(s) + 1, t[1] = x,
         Follows(s, Len(s), t)
  PROVE  FlattenSeq(t) = x \o FlattenSeq(s)
<1>1. Len(s) \in Nat /\ Strung(A, s, Len(s))
  BY TextTypeOf
<1>2. PICK f : Joins(A, s, Len(s), f)
  BY <1>1, JoinsExists
<1> DEFINE N == Len(s)
<1>3. N \in Nat /\ Strung(A, s, N) /\ Joins(A, s, N, f) /\ Follows(s, N, t)
  BY <1>1, <1>2
<1> HIDE DEF N
<1>4. Make(A, t, N + 1, x \o f[N])
  BY <1>3, JoinsBefore
<1>5. PICK g : Joins(A, t, Len(s) + 1, g) /\ g[Len(s) + 1] = x \o f[Len(s)]
  BY <1>4 DEF N, Make
<1>6. FlattenSeq(s) = f[Len(s)]
  BY <1>2, FlattenJoins
<1>7. FlattenSeq(t) = g[Len(t)]
  BY <1>5, FlattenJoins
<1>8. QED
  BY <1>5, <1>6, <1>7

\* Strings of bytes.
Strings == Seq(Bytes)
Texts == Seq(Strings)

LEMMA OfBytes == Strings = StringsOf(Bytes) /\ Texts = TextsOf(Bytes)
BY DEF Strings, Texts, StringsOf, TextsOf

LEMMA Monoid ==
  /\ <<>> \in Strings
  /\ \A x, y \in Strings : x \o y \in Strings
  /\ \A x \in Strings : x \o <<>> = x /\ <<>> \o x = x
  /\ \A x, y, z \in Strings : (x \o y) \o z = x \o (y \o z)
BY MonoidOf, OfBytes

LEMMA Associative ==
  \A x, y, z \in Strings : (x \o y) \o z = x \o (y \o z)
BY Monoid, Zenon

\* Four strings, put together one after the other or from the middle.
FourRegroup(w, x, y, z) == ((w \o x) \o y) \o z = w \o ((x \o y) \o z)

LEMMA FourRegrouped ==
  ASSUME NEW w \in Strings, NEW x \in Strings, NEW y \in Strings,
         NEW z \in Strings
  PROVE  FourRegroup(w, x, y, z)
<1> DEFINE P == {b \in Strings : (w \o b) \o z = w \o (b \o z)}
<1>1. (w \o x) \o y = w \o (x \o y)
  BY ConcatAssociative DEF Strings
<1>2. x \o y \in Strings
  BY ConcatProperties DEF Strings
<1>3. ASSUME NEW b \in Strings PROVE (w \o b) \o z = w \o (b \o z)
  BY ConcatAssociative DEF Strings
<1>4. Strings \subseteq P
  BY <1>3
<1> HIDE DEF P
<1>5. x \o y \in P
  BY <1>2, <1>4
<1>6. (w \o (x \o y)) \o z = w \o ((x \o y) \o z)
  BY <1>5, Zenon DEF P
<1>7. QED
  BY <1>1, <1>6, Zenon DEF FourRegroup

LEMMA FlattenType ==
  ASSUME NEW s \in Texts
  PROVE  FlattenSeq(s) \in Strings
BY FlattenTypeOf, OfBytes

LEMMA FlattenAppend ==
  ASSUME NEW s \in Texts, NEW t \in Texts, NEW x \in Strings,
         Len(t) = Len(s) + 1, t[Len(s) + 1] = x,
         Extends(s, Len(s), t)
  PROVE  FlattenSeq(t) = FlattenSeq(s) \o x
BY FlattenAppendOf, OfBytes

LEMMA FlattenFirst ==
  ASSUME NEW s \in Texts, NEW t \in Texts, NEW x \in Strings,
         Len(t) = Len(s) + 1, t[1] = x,
         Follows(s, Len(s), t)
  PROVE  FlattenSeq(t) = x \o FlattenSeq(s)
BY FlattenFirstOf, OfBytes

-----------------------------------------------------------------------------
(* The code of a length.                                                   *)

\* Taking a byte off a number, and putting it back.
LEMMA Division ==
  ASSUME NEW x \in Nat
  PROVE  /\ x \div Base \in Nat /\ x % Base \in Bytes
         /\ x = (x % Base) + Base * (x \div Base)
  BY BaseAssumption DEF Bytes

LEMMA Multiplication ==
  ASSUME NEW x \in Nat, NEW d \in Bytes
  PROVE  /\ d + Base * x \in Nat
         /\ (d + Base * x) \div Base = x /\ (d + Base * x) % Base = d
  BY BaseAssumption DEF Bytes

\* What the recursions in Shifted and in Number define.
Shifts(n, q) ==
    q = [k \in 0 .. HeaderLen |-> IF k = 0 THEN n ELSE q[k - 1] \div Base]

LEMMA ShiftedRecursive ==
  ASSUME NEW n \in Nat
  PROVE  /\ Shifted(n)[0] = n
         /\ \A k \in 0 .. HeaderLen : Shifted(n)[k] \in Nat
         /\ \A k \in 0 .. HeaderLen - 1 :
                Shifted(n)[k + 1] = Shifted(n)[k] \div Base
<1> DEFINE step == [k \in Nat |-> [x \in Nat |-> x \div Base]]
<1>1. step \in [Nat -> [Nat -> Nat]]
  BY Division
<1>2. \A k \in Nat : \A x \in Nat : step[k][x] = x \div Base
  OBVIOUS
<1> HIDE DEF step
<1>3. Recurs(Nat, n, step)
  BY <1>1, Recursion
<1>4. PICK f \in [Nat -> Nat] :
          f[0] = n /\ \A k \in Nat : f[k + 1] = step[k][f[k]]
  BY <1>3 DEF Recurs
<1>5. \E q : Shifts(n, q)
  <2> DEFINE q == [k \in 0 .. HeaderLen |-> f[k]]
  <2>1. ASSUME NEW k \in 0 .. HeaderLen
        PROVE  q[k] = IF k = 0 THEN n ELSE q[k - 1] \div Base
    <3>1. CASE k = 0
      BY <1>4, <3>1
    <3>2. CASE k # 0
      <4>1. k - 1 \in Nat /\ (k - 1) + 1 = k /\ k - 1 \in 0 .. HeaderLen
        BY <3>2, HeaderAssumption
      <4>2. f[k - 1] \in Nat
        BY <1>4, <4>1
      <4>3. f[(k - 1) + 1] = f[k - 1] \div Base
        BY <1>2, <1>4, <4>1, <4>2
      <4>4. q[k - 1] = f[k - 1] /\ q[k] = f[k]
        BY <4>1
      <4>5. QED
        BY <3>2, <4>1, <4>3, <4>4
    <3>3. QED
      BY <3>1, <3>2
  <2>2. Shifts(n, q)
    BY <2>1 DEF Shifts
  <2> HIDE DEF q
  <2>3. QED
    BY <2>2
<1> DEFINE q == Shifted(n)
<1>6. Shifted(n) = CHOOSE r : Shifts(n, r)
  BY DEF Shifted, Shifts
<1>7. Shifts(n, q)
  BY <1>5, <1>6
<1> HIDE DEF q
<1>8. q[0] = n
  BY <1>7, HeaderAssumption DEF Shifts
<1>9. ASSUME NEW k \in 0 .. HeaderLen - 1 PROVE q[k + 1] = q[k] \div Base
  <2>1. /\ k + 1 \in 0 .. HeaderLen /\ k + 1 # 0 /\ (k + 1) - 1 = k
    BY HeaderAssumption
  <2>2. q[k + 1] = q[(k + 1) - 1] \div Base
    BY <1>7, <2>1 DEF Shifts
  <2>3. QED
    BY <2>1, <2>2
<1>10. ASSUME NEW k \in Nat, k <= HeaderLen PROVE q[k] \in Nat
  <2> DEFINE P == {j \in Nat : j <= HeaderLen => q[j] \in Nat}
  <2>1. 0 \in P
    BY <1>8
  <2>2. ASSUME NEW j \in Nat, j \in P PROVE j + 1 \in P
    <3>1. CASE j + 1 <= HeaderLen
      <4>1. j \in 0 .. HeaderLen - 1 /\ q[j] \in Nat
        BY <2>2, <3>1, HeaderAssumption
      <4>2. q[j + 1] \in Nat
        BY <1>9, <4>1, Division
      <4>3. QED
        BY <4>2
    <3>2. CASE ~(j + 1 <= HeaderLen)
      BY <3>2
    <3>3. QED
      BY <3>1, <3>2
  <2> HIDE DEF P
  <2>3. k \in P
    BY <2>1, <2>2, Induction
  <2>4. QED
    BY <1>10, <2>3 DEF P
<1>11. QED
  BY <1>8, <1>9, <1>10, HeaderAssumption DEF q

\* The bytes of a code.
Coded(d) == \A k \in 1 .. HeaderLen : d[k] \in Bytes

Values(d, v) ==
    v = [j \in 0 .. HeaderLen |->
            IF j = 0 THEN 0 ELSE d[HeaderLen - j + 1] + Base * v[j - 1]]

LEMMA NumberRecursive ==
  ASSUME NEW d, Coded(d)
  PROVE  \E v : /\ Number(d) = v[HeaderLen] /\ v[0] = 0
                /\ \A j \in 0 .. HeaderLen : v[j] \in Nat
                /\ \A j \in 0 .. HeaderLen - 1 :
                       v[j + 1] = d[HeaderLen - j] + Base * v[j]
<1> DEFINE step == [j \in Nat |-> [x \in Nat |->
                       IF j < HeaderLen THEN d[HeaderLen - j] + Base * x
                       ELSE x]]
<1>1. ASSUME NEW j \in Nat, j < HeaderLen, NEW x \in Nat
      PROVE  d[HeaderLen - j] + Base * x \in Nat
  <2>1. HeaderLen - j \in 1 .. HeaderLen
    BY <1>1, HeaderAssumption
  <2>2. d[HeaderLen - j] \in Bytes
    BY <2>1 DEF Coded
  <2>3. QED
    BY <2>2, Multiplication
<1>2. step \in [Nat -> [Nat -> Nat]]
  BY <1>1
<1>3. \A j \in Nat : j < HeaderLen => \A x \in Nat :
          step[j][x] = d[HeaderLen - j] + Base * x
  OBVIOUS
<1> HIDE DEF step
<1>4. Recurs(Nat, 0, step)
  BY <1>2, Recursion
<1>5. PICK f \in [Nat -> Nat] :
          f[0] = 0 /\ \A j \in Nat : f[j + 1] = step[j][f[j]]
  BY <1>4 DEF Recurs
<1>6. ASSUME NEW j \in Nat, j < HeaderLen
      PROVE  f[j + 1] = d[HeaderLen - j] + Base * f[j]
  <2>1. f[j] \in Nat
    BY <1>5
  <2>2. QED
    BY <1>3, <1>5, <1>6, <2>1
<1>7. \E v : Values(d, v)
  <2> DEFINE v == [j \in 0 .. HeaderLen |-> f[j]]
  <2>1. ASSUME NEW j \in 0 .. HeaderLen
        PROVE  v[j] = IF j = 0 THEN 0
                      ELSE d[HeaderLen - j + 1] + Base * v[j - 1]
    <3>1. CASE j = 0
      BY <1>5, <3>1
    <3>2. CASE j # 0
      <4> DEFINE i == j - 1
      <4>1. /\ i \in Nat /\ i + 1 = j /\ i \in 0 .. HeaderLen
            /\ i < HeaderLen /\ HeaderLen - j + 1 = HeaderLen - i
        BY <3>2, HeaderAssumption
      <4>2. v[i] = f[i] /\ v[j] = f[j]
        BY <4>1
      <4>3. f[i + 1] = d[HeaderLen - i] + Base * f[i]
        BY <1>6, <4>1
      <4>4. v[j] = d[HeaderLen - j + 1] + Base * v[i]
        <5> HIDE DEF v, i
        <5> QED
          BY <4>1, <4>2, <4>3
      <4>5. QED
        BY <3>2, <4>4
    <3>3. QED
      BY <3>1, <3>2
  <2>2. Values(d, v)
    BY <2>1 DEF Values
  <2> HIDE DEF v
  <2>3. QED
    BY <2>2
<1>8. PICK v : Values(d, v) /\ Number(d) = v[HeaderLen]
  <2> DEFINE v == CHOOSE w : Values(d, w)
  <2>1. Values(d, v)
    BY <1>7
  <2>2. Number(d) = v[HeaderLen]
    BY DEF Number, Values
  <2> HIDE DEF v
  <2>3. QED
    BY <2>1, <2>2
<1>9. v[0] = 0
  BY <1>8, HeaderAssumption DEF Values
<1>10. ASSUME NEW j \in 0 .. HeaderLen - 1
       PROVE  v[j + 1] = d[HeaderLen - j] + Base * v[j]
  <2>1. /\ j + 1 \in 0 .. HeaderLen /\ j + 1 # 0 /\ (j + 1) - 1 = j
        /\ HeaderLen - (j + 1) + 1 = HeaderLen - j
    BY HeaderAssumption
  <2>2. v[j + 1] = d[HeaderLen - (j + 1) + 1] + Base * v[(j + 1) - 1]
    BY <1>8, <2>1 DEF Values
  <2>3. QED
    BY <2>1, <2>2
<1>11. ASSUME NEW j \in Nat, j <= HeaderLen PROVE v[j] \in Nat
  <2> DEFINE P == {i \in Nat : i <= HeaderLen => v[i] \in Nat}
  <2>1. 0 \in P
    BY <1>9
  <2>2. ASSUME NEW i \in Nat, i \in P PROVE i + 1 \in P
    <3>1. CASE i + 1 <= HeaderLen
      <4>1. i \in 0 .. HeaderLen - 1 /\ i < HeaderLen /\ v[i] \in Nat
        BY <2>2, <3>1, HeaderAssumption
      <4>2. v[i + 1] \in Nat
        BY <1>1, <1>10, <4>1
      <4>3. QED
        BY <4>2
    <3>2. CASE ~(i + 1 <= HeaderLen)
      BY <3>2
    <3>3. QED
      BY <3>1, <3>2
  <2> HIDE DEF P
  <2>3. j \in P
    BY <2>1, <2>2, Induction
  <2>4. QED
    BY <1>11, <2>3 DEF P
<1>12. QED
  BY <1>8, <1>9, <1>10, <1>11, HeaderAssumption

\* The receiver reads the number whose code it got: it could write it again.
LEMMA DigitsOfNumber ==
  ASSUME NEW d, Coded(d)
  PROVE  /\ Number(d) \in Nat
         /\ \A k \in 1 .. HeaderLen : Digits(Number(d))[k] = d[k]
<1>1. PICK v : /\ Number(d) = v[HeaderLen] /\ v[0] = 0
               /\ \A j \in 0 .. HeaderLen : v[j] \in Nat
               /\ \A j \in 0 .. HeaderLen - 1 :
                      v[j + 1] = d[HeaderLen - j] + Base * v[j]
  BY NumberRecursive
<1> DEFINE n == Number(d)
           q == Shifted(n)
<1>2. n = v[HeaderLen] /\ n \in Nat
  BY <1>1, HeaderAssumption
<1> HIDE DEF n
<1>3. /\ q[0] = n
      /\ \A k \in 0 .. HeaderLen - 1 : q[k + 1] = q[k] \div Base
  BY <1>2, ShiftedRecursive
<1>4. Digits(n) = [k \in 1 .. HeaderLen |-> q[k - 1] % Base]
  BY DEF Digits
<1> HIDE DEF q
<1>5. ASSUME NEW k \in Nat, k < HeaderLen
      PROVE  LET i == HeaderLen - (k + 1) IN
             /\ i \in 0 .. HeaderLen - 1 /\ i + 1 = HeaderLen - k
             /\ v[i] \in Nat /\ d[k + 1] \in Bytes
             /\ v[HeaderLen - k] = d[k + 1] + Base * v[i]
  <2> DEFINE i == HeaderLen - (k + 1)
  <2>1. /\ i \in 0 .. HeaderLen - 1 /\ i \in 0 .. HeaderLen
        /\ i + 1 = HeaderLen - k /\ HeaderLen - i = k + 1
        /\ k + 1 \in 1 .. HeaderLen
    BY <1>5, HeaderAssumption
  <2> HIDE DEF i
  <2>2. v[i + 1] = d[HeaderLen - i] + Base * v[i] /\ v[i] \in Nat
    BY <1>1, <2>1
  <2>3. d[k + 1] \in Bytes
    BY <2>1 DEF Coded
  <2>4. v[HeaderLen - k] = d[k + 1] + Base * v[i]
    BY <2>1, <2>2
  <2>5. QED
    BY <2>1, <2>2, <2>3, <2>4 DEF i
<1>6. ASSUME NEW k \in Nat, k <= HeaderLen PROVE q[k] = v[HeaderLen - k]
  <2> DEFINE P == {j \in Nat : j <= HeaderLen => q[j] = v[HeaderLen - j]}
  <2>1. 0 \in P
    BY <1>2, <1>3, HeaderAssumption
  <2>2. ASSUME NEW j \in Nat, j \in P PROVE j + 1 \in P
    <3>1. CASE j + 1 <= HeaderLen
      <4> DEFINE i == HeaderLen - (j + 1)
      <4>1. j < HeaderLen /\ j \in 0 .. HeaderLen - 1
        BY <3>1, HeaderAssumption
      <4>2. j <= HeaderLen
        BY <3>1, HeaderAssumption
      <4>3. q[j] = v[HeaderLen - j]
        BY <2>2, <4>2
      <4>4. q[j] = v[HeaderLen - j] /\ q[j + 1] = q[j] \div Base
        BY <1>3, <4>1, <4>3
      <4>5. /\ v[i] \in Nat /\ d[j + 1] \in Bytes
            /\ v[HeaderLen - j] = d[j + 1] + Base * v[i]
        BY <1>5, <4>1
      <4> HIDE DEF i
      <4>6. (d[j + 1] + Base * v[i]) \div Base = v[i]
        BY <4>5, Multiplication
      <4>7. q[j + 1] = v[i]
        BY <4>4, <4>5, <4>6
      <4>8. QED
        BY <4>7 DEF i
    <3>2. CASE ~(j + 1 <= HeaderLen)
      BY <3>2
    <3>3. QED
      BY <3>1, <3>2
  <2> HIDE DEF P
  <2>3. k \in P
    BY <2>1, <2>2, Induction
  <2>4. QED
    BY <1>6, <2>3 DEF P
<1>7. ASSUME NEW k \in Nat, k < HeaderLen PROVE Digits(n)[k + 1] = d[k + 1]
  <2> DEFINE i == HeaderLen - (k + 1)
  <2>1. /\ v[i] \in Nat /\ d[k + 1] \in Bytes
        /\ v[HeaderLen - k] = d[k + 1] + Base * v[i]
    BY <1>5, <1>7
  <2> HIDE DEF i
  <2>2. q[k] = d[k + 1] + Base * v[i]
    BY <1>6, <1>7, <2>1, HeaderAssumption
  <2>3. q[k] % Base = d[k + 1]
    BY <2>1, <2>2, Multiplication
  <2>4. k + 1 \in 1 .. HeaderLen /\ (k + 1) - 1 = k
    BY <1>7, HeaderAssumption
  <2>5. QED
    BY <1>4, <2>3, <2>4
<1>8. ASSUME NEW k \in 1 .. HeaderLen PROVE Digits(n)[k] = d[k]
  <2>1. k - 1 \in Nat /\ k - 1 < HeaderLen /\ (k - 1) + 1 = k
    BY HeaderAssumption
  <2>2. Digits(n)[(k - 1) + 1] = d[(k - 1) + 1]
    BY <1>7, <2>1
  <2>3. QED
    BY <2>1, <2>2
<1>9. QED
  BY <1>2, <1>8 DEF n

\* A code is HeaderLen bytes long.
LEMMA DigitsCoded ==
  ASSUME NEW n \in Nat
  PROVE  Digits(n) \in Strings /\ Len(Digits(n)) = HeaderLen
         /\ Coded(Digits(n))
<1> DEFINE q == Shifted(n)
<1>1. \A k \in 0 .. HeaderLen : q[k] \in Nat
  BY ShiftedRecursive
<1>2. Digits(n) = [k \in 1 .. HeaderLen |-> q[k - 1] % Base]
  BY DEF Digits
<1> HIDE DEF q
<1>3. ASSUME NEW k \in 1 .. HeaderLen PROVE q[k - 1] % Base \in Bytes
  <2>1. k - 1 \in 0 .. HeaderLen
    BY HeaderAssumption
  <2>2. q[k - 1] \in Nat
    BY <1>1, <2>1
  <2>3. QED
    BY <2>2, Division
<1>4. Digits(n) \in [1 .. HeaderLen -> Bytes]
  BY <1>2, <1>3
<1>5. Coded(Digits(n))
  BY <1>4 DEF Coded
<1>6. Digits(n) \in Seq(Bytes) /\ Len(Digits(n)) = HeaderLen
  BY <1>4, HeaderAssumption, LenProperties
<1>7. QED
  BY <1>5, <1>6 DEF Strings

\* The length of a message that fits is read as it was written.
LEMMA NumberOfDigits ==
  ASSUME NEW n \in Nat, Fits(n)
  PROVE  Number(Digits(n)) = n
<1> DEFINE q == Shifted(n)
           d == Digits(n)
<1>1. /\ q[0] = n
      /\ \A k \in 0 .. HeaderLen : q[k] \in Nat
      /\ \A k \in 0 .. HeaderLen - 1 : q[k + 1] = q[k] \div Base
  BY ShiftedRecursive
<1>2. d = [k \in 1 .. HeaderLen |-> q[k - 1] % Base] /\ q[HeaderLen] = 0
  BY DEF Digits, Fits
<1>3. Coded(d)
  BY DigitsCoded
<1> HIDE DEF q, d
<1>4. PICK v : /\ Number(d) = v[HeaderLen] /\ v[0] = 0
               /\ \A j \in 0 .. HeaderLen : v[j] \in Nat
               /\ \A j \in 0 .. HeaderLen - 1 :
                      v[j + 1] = d[HeaderLen - j] + Base * v[j]
  BY <1>3, NumberRecursive
<1>5. ASSUME NEW j \in Nat, j <= HeaderLen PROVE v[j] = q[HeaderLen - j]
  <2> DEFINE P == {i \in Nat : i <= HeaderLen => v[i] = q[HeaderLen - i]}
  <2>1. 0 \in P
    BY <1>2, <1>4, HeaderAssumption
  <2>2. ASSUME NEW i \in Nat, i \in P PROVE i + 1 \in P
    <3>1. CASE i + 1 <= HeaderLen
      <4> DEFINE k == HeaderLen - (i + 1)
      <4>1. /\ i \in 0 .. HeaderLen - 1 /\ k \in 0 .. HeaderLen - 1
            /\ k \in 0 .. HeaderLen /\ k + 1 = HeaderLen - i
            /\ k + 1 \in 1 .. HeaderLen /\ (k + 1) - 1 = k
        BY <3>1, HeaderAssumption
      <4> HIDE DEF k
      <4>2. v[i + 1] = d[k + 1] + Base * v[i]
        BY <1>4, <4>1
      <4>3. d[k + 1] = q[k] % Base
        BY <1>2, <4>1
      <4>4. i <= HeaderLen
        BY <3>1, HeaderAssumption
      <4>5. v[i] = q[HeaderLen - i]
        BY <2>2, <4>4
      <4>6. q[k + 1] = q[k] \div Base
        BY <1>1, <4>1
      <4>7. v[i] = q[k] \div Base
        BY <4>1, <4>5, <4>6
      <4>8. q[k] = (q[k] % Base) + Base * (q[k] \div Base)
        BY <1>1, <4>1, Division
      <4>9. v[i + 1] = q[k]
        BY <4>2, <4>3, <4>7, <4>8
      <4>10. QED
        BY <4>9 DEF k
    <3>2. CASE ~(i + 1 <= HeaderLen)
      BY <3>2
    <3>3. QED
      BY <3>1, <3>2
  <2> HIDE DEF P
  <2>3. j \in P
    BY <2>1, <2>2, Induction
  <2>4. QED
    BY <1>5, <2>3 DEF P
<1>6. v[HeaderLen] = q[0]
  BY <1>5, HeaderAssumption
<1>7. QED
  BY <1>1, <1>4, <1>6 DEF d

-----------------------------------------------------------------------------
(* Strings.                                                                *)

\* The elements and the length of a string, and of two put together.
LEMMA JoinedOf ==
  ASSUME NEW A, NEW x \in StringsOf(A), NEW y \in StringsOf(A)
  PROVE  /\ x \o y \in StringsOf(A)
         /\ Len(x) \in Nat /\ Len(y) \in Nat
         /\ Len(x \o y) = Len(x) + Len(y)
         /\ \A i \in 1 .. Len(x) : (x \o y)[i] = x[i] /\ x[i] \in A
         /\ \A i \in 1 .. Len(y) : (x \o y)[Len(x) + i] = y[i]
<1>1. /\ x \o y \in Seq(A)
      /\ Len(x \o y) = Len(x) + Len(y)
      /\ \A i \in 1 .. Len(x) + Len(y) : (x \o y)[i] =
             IF i <= Len(x) THEN x[i] ELSE y[i - Len(x)]
  BY ConcatProperties DEF StringsOf
<1>2. Len(x) \in Nat /\ Len(y) \in Nat /\ \A i \in 1 .. Len(x) : x[i] \in A
  BY LenProperties, ElementOfSeq DEF StringsOf
<1>3. ASSUME NEW i \in 1 .. Len(x) PROVE (x \o y)[i] = x[i]
  <2>1. i \in 1 .. Len(x) + Len(y) /\ i <= Len(x)
    BY <1>2
  <2>2. QED
    BY <1>1, <2>1
<1>4. ASSUME NEW i \in 1 .. Len(y) PROVE (x \o y)[Len(x) + i] = y[i]
  <2>1. /\ Len(x) + i \in 1 .. Len(x) + Len(y) /\ ~(Len(x) + i <= Len(x))
        /\ (Len(x) + i) - Len(x) = i
    BY <1>2
  <2>2. QED
    BY <1>1, <2>1
<1>5. QED
  BY <1>1, <1>2, <1>3, <1>4 DEF StringsOf

\* Two strings with the same elements are the same.
LEMMA EqualOf ==
  ASSUME NEW A, NEW x \in StringsOf(A), NEW y \in StringsOf(A),
         Len(x) = Len(y),
         \A i \in 1 .. Len(x) : x[i] = y[i]
  PROVE  x = y
  BY SeqEqual DEF StringsOf

\* Two strings put together come apart where their lengths say.
LEMMA ApartOf ==
  ASSUME NEW A, NEW x \in StringsOf(A), NEW y \in StringsOf(A),
         NEW u \in StringsOf(A), NEW v \in StringsOf(A),
         Len(x) = Len(u), x \o y = u \o v
  PROVE  x = u /\ y = v
<1>1. ASSUME NEW i \in 1 .. Len(x) PROVE x[i] = u[i]
  <2>1. (x \o y)[i] = x[i]
    BY JoinedOf
  <2>2. (u \o v)[i] = u[i]
    BY JoinedOf
  <2>3. QED
    BY <2>1, <2>2
<1>2. x = u
  BY <1>1, EqualOf
<1>3. y = v
  BY <1>2, ConcatSimplifications DEF StringsOf
<1>4. QED
  BY <1>2, <1>3

\* A read or a write cuts a string in two.
LEMMA CutOf ==
  ASSUME NEW A, NEW x \in StringsOf(A), NEW n \in 1 .. Len(x)
  PROVE  /\ SubSeq(x, 1, n) \in StringsOf(A)
         /\ SubSeq(x, n + 1, Len(x)) \in StringsOf(A)
         /\ Len(SubSeq(x, 1, n)) = n
         /\ SubSeq(x, 1, n) \o SubSeq(x, n + 1, Len(x)) = x
<1>1. Len(x) \in Nat /\ x \in Seq(A)
  BY LenProperties DEF StringsOf
<1>2. \A i \in 1 .. Len(x) : x[i] \in A
  BY <1>1, ElementOfSeq
<1>3. SubSeq(x, 1, n) \in Seq(A) /\ Len(SubSeq(x, 1, n)) = n
  <2>1. \A i \in 1 .. n : x[i] \in A
    BY <1>1, <1>2
  <2>2. QED
    BY <1>1, <2>1, SubSeqProperties
<1>4. SubSeq(x, n + 1, Len(x)) \in Seq(A)
  <2>1. \A i \in n + 1 .. Len(x) : x[i] \in A
    BY <1>1, <1>2
  <2>2. QED
    BY <1>1, <2>1, SubSeqProperties
<1>5. SubSeq(x, 1, n) \o SubSeq(x, n + 1, Len(x)) = SubSeq(x, 1, Len(x))
  <2>1. /\ 1 \in 1 .. Len(x) + 1 /\ n \in 1 - 1 .. Len(x)
        /\ Len(x) \in n .. Len(x)
    BY <1>1
  <2>2. QED
    BY <1>1, <2>1, ConcatAdjacentSubSeq
<1>6. SubSeq(x, 1, Len(x)) = x
  BY <1>1, SubSeqFull
<1>7. QED
  BY <1>3, <1>4, <1>5, <1>6 DEF StringsOf

\* The same of strings of bytes.
LEMMA Joined ==
  ASSUME NEW x \in Strings, NEW y \in Strings
  PROVE  /\ x \o y \in Strings
         /\ Len(x) \in Nat /\ Len(y) \in Nat
         /\ Len(x \o y) = Len(x) + Len(y)
         /\ \A i \in 1 .. Len(x) : (x \o y)[i] = x[i] /\ x[i] \in Bytes
         /\ \A i \in 1 .. Len(y) : (x \o y)[Len(x) + i] = y[i]
BY JoinedOf, OfBytes

LEMMA Apart ==
  ASSUME NEW x \in Strings, NEW y \in Strings,
         NEW u \in Strings, NEW v \in Strings,
         Len(x) = Len(u), x \o y = u \o v
  PROVE  x = u /\ y = v
BY ApartOf, OfBytes

LEMMA Cut ==
  ASSUME NEW x \in Strings, NEW n \in 1 .. Len(x)
  PROVE  /\ SubSeq(x, 1, n) \in Strings
         /\ SubSeq(x, n + 1, Len(x)) \in Strings
         /\ Len(SubSeq(x, 1, n)) = n
         /\ SubSeq(x, 1, n) \o SubSeq(x, n + 1, Len(x)) = x
BY CutOf, OfBytes

LEMMA Equal ==
  ASSUME NEW x \in Strings, NEW y \in Strings, Len(x) = Len(y),
         \A i \in 1 .. Len(x) : x[i] = y[i]
  PROVE  x = y
BY EqualOf, OfBytes

\* Its first part is a prefix.
LEMMA Prefix ==
  ASSUME NEW x \in Strings, NEW y \in Strings
  PROVE  IsPrefix(x, x \o y)
<1>1. Len(x) \in Nat /\ Len(y) \in Nat /\ Len(x \o y) = Len(x) + Len(y)
  BY Joined
<1>2. SubSeq(x, 1, Len(x)) = x
  BY SubSeqFull DEF Strings
<1>3. SubSeq(x \o y, 1, Len(x)) = SubSeq(x, 1, Len(x))
  <2>1. CASE Len(x) = 0
    BY <2>1, SubSeqEmpty
  <2>2. CASE Len(x) # 0
    <3>1. 1 \in 1 .. Len(x) /\ Len(x) \in 1 .. Len(x)
      BY <1>1, <2>2
    <3>2. QED
      BY <3>1, SubSeqOfConcat1 DEF Strings
  <2>3. QED
    BY <2>1, <2>2
<1>4. QED
  BY <1>1, <1>3 DEF IsPrefix

-----------------------------------------------------------------------------
(* The messages that are not yet delivered.                                *)

Mail == Seq(Messages)

\* Those of s after the first d, coded.
Pending(s, d) == [k \in 1 .. Len(s) - d |-> Encode(s[d + k])]

LEMMA OutstandingPending ==
  Outstanding = FlattenSeq(Pending(sent, Len(delivered)))
  BY DEF Outstanding, Pending

\* What the messages are made of.
LEMMA MailType ==
  ASSUME NEW s \in Mail
  PROVE  Len(s) \in Nat /\ \A k \in 1 .. Len(s) : s[k] \in Messages
  BY LenProperties, ElementOfSeq DEF Mail

LEMMA MailAppend ==
  ASSUME NEW s \in Mail, NEW m \in Messages
  PROVE  /\ Append(s, m) \in Mail /\ Len(Append(s, m)) = Len(s) + 1
         /\ Append(s, m)[Len(s) + 1] = m
         /\ \A k \in 1 .. Len(s) : Append(s, m)[k] = s[k]
  BY AppendProperties DEF Mail

LEMMA EncodeType ==
  ASSUME NEW m \in Strings
  PROVE  /\ Encode(m) \in Strings /\ Len(m) \in Nat
         /\ Digits(Len(m)) \in Strings
         /\ Encode(m) = Digits(Len(m)) \o m
<1>1. Len(m) \in Nat
  BY LenProperties DEF Strings
<1>2. Digits(Len(m)) \in Strings
  BY <1>1, DigitsCoded
<1>3. Encode(m) = Digits(Len(m)) \o m
  BY DEF Encode
<1>4. QED
  BY <1>1, <1>2, <1>3, Monoid

LEMMA MessageType ==
  ASSUME NEW m \in Messages
  PROVE  m \in Strings /\ Number(Digits(Len(m))) = Len(m)
<1>1. m \in Strings /\ Fits(Len(m))
  BY MessagesAssumption DEF Strings
<1>2. Len(m) \in Nat
  BY <1>1, EncodeType
<1>3. QED
  BY <1>1, <1>2, NumberOfDigits

LEMMA PendingText ==
  ASSUME NEW s \in Mail, NEW d \in Nat, d <= Len(s)
  PROVE  /\ Pending(s, d) \in Texts
         /\ Len(Pending(s, d)) = Len(s) - d
         /\ \A k \in 1 .. Len(s) - d : Pending(s, d)[k] = Encode(s[d + k])
<1> DEFINE n == Len(s) - d
<1>1. Len(s) \in Nat /\ n \in Nat
  BY MailType
<1>2. ASSUME NEW k \in 1 .. n PROVE Encode(s[d + k]) \in Strings
  <2>1. d + k \in 1 .. Len(s)
    BY <1>1
  <2>2. QED
    BY <2>1, MailType, MessageType, EncodeType
<1>3. Pending(s, d) = [k \in 1 .. n |-> Encode(s[d + k])]
  BY DEF Pending
<1> HIDE DEF n
<1>4. Pending(s, d) \in Seq(Strings) /\ Len(Pending(s, d)) = n
  <2>1. Pending(s, d) \in [1 .. n -> Strings]
    BY <1>2, <1>3
  <2>2. QED
    BY <1>1, <2>1, LenProperties
<1>5. QED
  BY <1>3, <1>4 DEF Texts, n

\* A message more to send, and one more delivered.
LEMMA PendingMore ==
  ASSUME NEW s \in Mail, NEW m \in Messages, NEW d \in Nat, d <= Len(s)
  PROVE  FlattenSeq(Pending(Append(s, m), d))
             = FlattenSeq(Pending(s, d)) \o Encode(m)
<1> DEFINE t == Append(s, m)
           p == Pending(s, d)
           q == Pending(t, d)
<1>1. /\ t \in Mail /\ Len(s) \in Nat /\ Len(t) = Len(s) + 1
      /\ t[Len(s) + 1] = m /\ \A k \in 1 .. Len(s) : t[k] = s[k]
  BY MailAppend, MailType
<1> HIDE DEF t
<1>2. /\ p \in Texts /\ Len(p) = Len(s) - d
      /\ \A k \in 1 .. Len(s) - d : p[k] = Encode(s[d + k])
  BY PendingText
<1>3. /\ q \in Texts /\ Len(q) = Len(t) - d
      /\ \A k \in 1 .. Len(t) - d : q[k] = Encode(t[d + k])
  <2>1. d <= Len(t)
    BY <1>1
  <2>2. QED
    BY <1>1, <2>1, PendingText
<1> HIDE DEF p, q
<1>4. Len(q) = Len(p) + 1
  BY <1>1, <1>2, <1>3
<1>5. q[Len(p) + 1] = Encode(m)
  <2>1. Len(p) + 1 \in 1 .. Len(t) - d /\ d + (Len(p) + 1) = Len(s) + 1
    BY <1>1, <1>2
  <2>2. q[Len(p) + 1] = Encode(t[d + (Len(p) + 1)])
    BY <1>3, <2>1
  <2>3. QED
    BY <1>1, <2>1, <2>2
<1>6. Extends(p, Len(p), q)
  <2>1. ASSUME NEW k \in 1 .. Len(p) PROVE q[k] = p[k]
    <3>1. /\ k \in 1 .. Len(s) - d /\ k \in 1 .. Len(t) - d
          /\ d + k \in 1 .. Len(s)
      BY <1>1, <1>2
    <3>2. p[k] = Encode(s[d + k]) /\ q[k] = Encode(t[d + k])
      BY <1>2, <1>3, <3>1
    <3>3. QED
      BY <1>1, <3>1, <3>2
  <2>2. QED
    BY <2>1 DEF Extends
<1>7. Encode(m) \in Strings
  BY MessageType, EncodeType
<1>8. FlattenSeq(q) = FlattenSeq(p) \o Encode(m)
  BY <1>2, <1>3, <1>4, <1>5, <1>6, <1>7, FlattenAppend
<1>9. QED
  BY <1>8 DEF p, q, t

LEMMA PendingLess ==
  ASSUME NEW s \in Mail, NEW d \in Nat, d < Len(s)
  PROVE  FlattenSeq(Pending(s, d))
             = Encode(s[d + 1]) \o FlattenSeq(Pending(s, d + 1))
<1> DEFINE p == Pending(s, d + 1)
           q == Pending(s, d)
<1>1. Len(s) \in Nat /\ d + 1 \in Nat /\ d + 1 <= Len(s) /\ d <= Len(s)
  BY MailType
<1>2. /\ p \in Texts /\ Len(p) = Len(s) - (d + 1)
      /\ \A k \in 1 .. Len(s) - (d + 1) : p[k] = Encode(s[(d + 1) + k])
  BY <1>1, PendingText
<1>3. /\ q \in Texts /\ Len(q) = Len(s) - d
      /\ \A k \in 1 .. Len(s) - d : q[k] = Encode(s[d + k])
  BY <1>1, PendingText
<1> HIDE DEF p, q
<1>4. Len(q) = Len(p) + 1 /\ 1 \in 1 .. Len(s) - d
  BY <1>1, <1>2, <1>3
<1>5. q[1] = Encode(s[d + 1])
  BY <1>3, <1>4
<1>6. Follows(p, Len(p), q)
  <2>1. ASSUME NEW k \in 1 .. Len(p) PROVE q[k + 1] = p[k]
    <3>1. /\ k \in 1 .. Len(s) - (d + 1) /\ k + 1 \in 1 .. Len(s) - d
          /\ (d + 1) + k = d + (k + 1)
      BY <1>1, <1>2
    <3>2. p[k] = Encode(s[(d + 1) + k]) /\ q[k + 1] = Encode(s[d + (k + 1)])
      BY <1>2, <1>3, <3>1
    <3>3. QED
      BY <3>1, <3>2
  <2>2. QED
    BY <2>1 DEF Follows
<1>7. Encode(s[d + 1]) \in Strings
  <2>1. d + 1 \in 1 .. Len(s)
    BY <1>1
  <2>2. QED
    BY <2>1, MailType, MessageType, EncodeType
<1>8. FlattenSeq(q) = Encode(s[d + 1]) \o FlattenSeq(p)
  BY <1>2, <1>3, <1>4, <1>5, <1>6, <1>7, FlattenFirst
<1>9. QED
  BY <1>8 DEF p, q

\* None is pending.
LEMMA PendingNone ==
  ASSUME NEW s \in Mail
  PROVE  FlattenSeq(Pending(s, Len(s))) = <<>>
<1>1. Len(s) \in Nat /\ Len(s) <= Len(s) /\ Len(s) - Len(s) = 0
  BY MailType
<1>2. /\ Pending(s, Len(s)) \in Texts /\ Len(Pending(s, Len(s))) = 0
  BY <1>1, PendingText
<1>3. Pending(s, Len(s)) = <<>>
  BY <1>2, EmptySeq DEF Texts
<1>4. QED
  BY <1>3, FlattenEmpty

LEMMA PendingType ==
  ASSUME NEW s \in Mail, NEW d \in Nat, d <= Len(s)
  PROVE  FlattenSeq(Pending(s, d)) \in Strings
  BY PendingText, FlattenType

-----------------------------------------------------------------------------
(* The inductive invariant.                                                *)

Typed ==
    /\ unsent \in Strings /\ wire \in Strings
    /\ buffer \in Strings /\ update \in Strings
    /\ recvLen \in Nat /\ connected \in BOOLEAN
    /\ peer \in {"open", "closed", "crashed", "reset"}
    /\ rpc \in {"call", "length", "body", "true", "thrown"}
    /\ sent \in Mail /\ delivered \in Mail

\* What was delivered are the first of the messages sent.
Ordered ==
    /\ Len(delivered) <= Len(sent)
    /\ \A k \in 1 .. Len(delivered) : delivered[k] = sent[k]

\* What the parser keeps between calls: the buffer is never full, unless its
\* bytes did not parse, m_recvLen is a length some code stands for, and
\* update is empty unless recvMessage has just returned true.
Parser ==
    /\ rpc = "length" => recvLen = 0
    /\ rpc = "body" => recvLen # 0
    /\ recvLen = 0 => Len(buffer) < HeaderLen
    /\ recvLen # 0 /\ rpc # "thrown" => Len(buffer) < recvLen
    /\ Number(Digits(recvLen)) = recvLen
    /\ rpc = "true" => /\ recvLen = 0 /\ buffer = <<>>
                       /\ Number(Digits(Len(update))) = Len(update)
    /\ rpc # "true" => update = <<>>

\* The bytes in hand, in the socket and unwritten, and then those lost.
Stream == (InHand \o wire) \o unsent
Kept ==
    \E lost \in Strings :
        /\ Outstanding = Stream \o lost
        /\ peer \in {"open", "closed"} => lost = <<>>

Inv == Typed /\ Ordered /\ Parser /\ Kept

\* What is in hand is a string, before and after a step.
LEMMA HandType == ASSUME Typed PROVE InHand \in Strings
<1>1. Encode(update) \in Strings
  BY EncodeType DEF Typed
<1>2. Digits(recvLen) \in Strings
  BY DigitsCoded DEF Typed
<1>3. QED
  BY <1>1, <1>2, Monoid DEF InHand, Typed

LEMMA StreamType ==
  ASSUME Typed
  PROVE  InHand \o wire \in Strings /\ Stream \in Strings
  BY HandType, Monoid DEF Stream, Typed

\* Zero has zeros for its bytes.
LEMMA NumberOfZero == Number(Digits(0)) = 0
<1>1. \A k \in Nat : k <= HeaderLen => Shifted(0)[k] = 0
  <2> DEFINE P == {k \in Nat : k <= HeaderLen => Shifted(0)[k] = 0}
  <2>1. 0 \in P
    BY ShiftedRecursive
  <2>2. ASSUME NEW k \in Nat, k \in P PROVE k + 1 \in P
    <3>1. CASE k + 1 <= HeaderLen
      <4>1. k \in 0 .. HeaderLen - 1 /\ k <= HeaderLen
        BY <3>1, HeaderAssumption
      <4>2. Shifted(0)[k] = 0
        BY <2>2, <4>1
      <4>3. Shifted(0)[k + 1] = Shifted(0)[k] \div Base
        BY <4>1, ShiftedRecursive
      <4>4. 0 \div Base = 0
        BY BaseAssumption
      <4>5. Shifted(0)[k + 1] = 0
        BY <4>2, <4>3, <4>4
      <4>6. QED
        BY <4>5
    <3>2. CASE ~(k + 1 <= HeaderLen)
      BY <3>2
    <3>3. QED
      BY <3>1, <3>2
  <2> HIDE DEF P
  <2>3. \A k \in Nat : k \in P
    BY <2>1, <2>2, Induction
  <2>4. QED
    BY <2>3 DEF P
<1>2. Fits(0)
  BY <1>1, HeaderAssumption DEF Fits
<1>3. QED
  BY <1>2, NumberOfDigits

LEMMA InitInv == Init => Inv
<1> SUFFICES ASSUME Init PROVE Inv
  OBVIOUS
<1>1. <<>> \in Strings /\ <<>> \in Mail /\ Len(<<>>) = 0
  BY DEF Strings, Mail
<1>2. Typed
  BY <1>1 DEF Init, Typed
<1>3. Ordered
  BY <1>1 DEF Init, Ordered
<1>4. Number(Digits(0)) = 0
  BY NumberOfZero
<1>5. Parser
  BY <1>1, <1>4, HeaderAssumption DEF Init, Parser
<1>6. Kept
  <2>1. Outstanding = <<>>
    BY <1>1, OutstandingPending, PendingNone DEF Init
  <2>2. Stream = <<>>
    BY <1>1, Monoid DEF Init, Stream, InHand
  <2>3. Outstanding = Stream \o <<>>
    BY <1>1, <2>1, <2>2, Monoid
  <2>4. QED
    BY <1>1, <2>3 DEF Kept
<1>7. QED
  BY <1>2, <1>3, <1>5, <1>6 DEF Inv

\* Most steps only move bytes along.
LEMMA Moved ==
  ASSUME Kept, Stream' = Stream, Outstanding' = Outstanding, peer' = peer
  PROVE  Kept'
<1>1. PICK lost \in Strings :
          /\ Outstanding = Stream \o lost
          /\ peer \in {"open", "closed"} => lost = <<>>
  BY DEF Kept
<1>2. /\ Outstanding' = Stream' \o lost
      /\ peer' \in {"open", "closed"} => lost = <<>>
  BY <1>1
<1>3. QED
  BY <1>2 DEF Kept

\* And most leave the messages alone.
LEMMA SameOutstanding ==
  ASSUME sent' = sent, delivered' = delivered
  PROVE  Outstanding' = Outstanding
  BY DEF Outstanding

LEMMA SameHand ==
  ASSUME update' = update, recvLen' = recvLen, buffer' = buffer, rpc' = rpc
  PROVE  InHand' = InHand
  BY DEF InHand

-----------------------------------------------------------------------------
(* The steps of the base station.                                          *)

LEMMA SendMessageInv == Inv /\ SendMessage => Inv'
<1> SUFFICES ASSUME Inv, SendMessage PROVE Inv'
  OBVIOUS
<1> USE DEF Inv
<1>1. PICK m \in Messages : sent' = Append(sent, m) /\ unsent' = Encode(m)
  BY DEF SendMessage
<1>2. /\ peer = "open" /\ unsent = <<>>
      /\ UNCHANGED <<peer, wire, buffer, recvLen, connected, rpc, update,
                     delivered>>
  BY DEF SendMessage, receiver
<1>3. /\ m \in Strings /\ Encode(m) \in Strings
      /\ sent \in Mail /\ delivered \in Mail
      /\ Len(sent) \in Nat /\ Len(delivered) \in Nat
  BY MessageType, EncodeType, MailType DEF Typed
<1>4. /\ sent' \in Mail /\ Len(sent') = Len(sent) + 1
      /\ \A k \in 1 .. Len(sent) : sent'[k] = sent[k]
  BY <1>1, <1>3, MailAppend
<1>5. Typed'
  BY <1>1, <1>2, <1>3, <1>4 DEF Typed
<1>6. Ordered'
  BY <1>2, <1>3, <1>4 DEF Ordered
<1>7. Parser'
  BY <1>2 DEF Parser
<1>8. Kept'
  <2>1. Outstanding = Stream \o <<>>
    BY <1>2 DEF Kept
  <2>2. InHand \o wire \in Strings /\ Stream \in Strings
    BY StreamType
  <2>3. Stream = InHand \o wire
    BY <1>2, <2>2, Monoid DEF Stream
  <2>4. InHand' = InHand
    BY <1>2, SameHand
  <2>5. Stream' = (InHand \o wire) \o Encode(m)
    BY <1>1, <1>2, <2>4 DEF Stream
  <2>6. Outstanding' = FlattenSeq(Pending(sent', Len(delivered)))
    BY <1>2 DEF Outstanding, Pending
  <2>7. Outstanding' = Outstanding \o Encode(m)
    BY <1>1, <1>3, <2>6, PendingMore, OutstandingPending DEF Ordered
  <2>8. Outstanding' = Stream'
    BY <2>1, <2>2, <2>3, <2>5, <2>7, Monoid
  <2>9. Stream' \in Strings
    BY <1>3, <2>2, <2>5, Monoid
  <2>10. Outstanding' = Stream' \o <<>> /\ <<>> \in Strings
    BY <2>8, <2>9, Monoid
  <2>11. QED
    BY <2>10 DEF Kept
<1>9. QED
  BY <1>5, <1>6, <1>7, <1>8

LEMMA WriteInv == Inv /\ Write => Inv'
<1> SUFFICES ASSUME Inv, Write PROVE Inv'
  OBVIOUS
<1> USE DEF Inv
<1>1. PICK n \in 1 .. Len(unsent) :
          /\ wire' = wire \o SubSeq(unsent, 1, n)
          /\ unsent' = SubSeq(unsent, n + 1, Len(unsent))
  BY DEF Write
<1>2. UNCHANGED <<peer, sent, buffer, recvLen, connected, rpc, update,
                  delivered>>
  BY DEF Write, receiver
<1> DEFINE x == SubSeq(unsent, 1, n)
           y == SubSeq(unsent, n + 1, Len(unsent))
<1>3. x \in Strings /\ y \in Strings /\ x \o y = unsent
  BY Cut DEF Typed
<1>4. wire' = wire \o x /\ unsent' = y
  BY <1>1
<1> HIDE DEF x, y
<1>5. Typed'
  BY <1>2, <1>3, <1>4, Monoid DEF Typed
<1>6. Ordered'
  BY <1>2 DEF Ordered
<1>7. Parser'
  BY <1>2 DEF Parser
<1>8. Kept'
  <2>1. InHand' = InHand /\ InHand \in Strings /\ wire \in Strings
    BY <1>2, SameHand, HandType DEF Typed
  <2>2. Stream' = (InHand \o (wire \o x)) \o y
    BY <1>4, <2>1 DEF Stream
  <2>3. InHand \o (wire \o x) = (InHand \o wire) \o x
    BY <1>3, <2>1, Monoid
  <2>4. InHand \o wire \in Strings
    BY <2>1, Monoid
  <2>5. ((InHand \o wire) \o x) \o y = (InHand \o wire) \o (x \o y)
    BY <1>3, <2>4, Monoid
  <2>6. Stream' = Stream
    BY <1>3, <2>2, <2>3, <2>5 DEF Stream
  <2>7. QED
    BY <1>2, <2>6, Moved, SameOutstanding
<1>9. QED
  BY <1>5, <1>6, <1>7, <1>8

LEMMA CloseInv == Inv /\ Close => Inv'
<1> SUFFICES ASSUME Inv, Close PROVE Inv'
  OBVIOUS
<1> USE DEF Inv
<1>1. /\ peer = "open" /\ peer' = "closed"
      /\ UNCHANGED <<unsent, sent, wire, buffer, recvLen, connected, rpc,
                     update, delivered>>
  BY DEF Close, receiver
<1>2. Typed'
  BY <1>1 DEF Typed
<1>3. Ordered'
  BY <1>1 DEF Ordered
<1>4. Parser'
  BY <1>1 DEF Parser
<1>5. Kept'
  <2>1. Outstanding = Stream \o <<>> /\ <<>> \in Strings
    BY <1>1, Monoid DEF Kept
  <2>2. Outstanding' = Outstanding /\ InHand' = InHand
    BY <1>1, SameOutstanding, SameHand
  <2>3. Stream' = Stream
    BY <1>1, <2>2 DEF Stream
  <2>4. QED
    BY <2>1, <2>2, <2>3 DEF Kept
<1>6. QED
  BY <1>2, <1>3, <1>4, <1>5

\* What was unwritten is lost, or that and what was in the socket.
LEMMA CrashInv == Inv /\ Crash => Inv'
<1> SUFFICES ASSUME Inv, Crash PROVE Inv'
  OBVIOUS
<1> USE DEF Inv
<1>1. /\ peer = "open" /\ unsent' = <<>>
      /\ \/ peer' = "crashed" /\ wire' = wire
         \/ peer' = "reset" /\ wire' = <<>>
      /\ UNCHANGED <<sent, buffer, recvLen, connected, rpc, update,
                     delivered>>
  BY DEF Crash, receiver
<1>2. Typed'
  BY <1>1, Monoid DEF Typed
<1>3. Ordered'
  BY <1>1 DEF Ordered
<1>4. Parser'
  BY <1>1 DEF Parser
<1>5. Kept'
  <2>1. Outstanding' = Outstanding /\ InHand' = InHand
    BY <1>1, SameOutstanding, SameHand
  <2>2. /\ InHand \in Strings /\ wire \in Strings /\ unsent \in Strings
        /\ InHand \o wire \in Strings /\ Stream \in Strings
    BY HandType, StreamType DEF Typed
  <2>3. Outstanding = Stream \o <<>>
    BY <1>1 DEF Kept
  <2>4. Outstanding = (InHand \o wire) \o unsent
    BY <2>2, <2>3, Monoid DEF Stream
  <2>5. CASE wire' = wire
    <3>1. Stream' = (InHand \o wire) \o <<>>
      BY <1>1, <2>1, <2>5 DEF Stream
    <3>2. Stream' = InHand \o wire
      BY <2>2, <3>1, Monoid
    <3>3. Outstanding' = Stream' \o unsent
      BY <2>1, <2>4, <3>2
    <3>4. peer' \notin {"open", "closed"}
      BY <1>1
    <3>5. QED
      BY <2>2, <3>3, <3>4 DEF Kept
  <2>6. CASE wire' = <<>>
    <3>1. Stream' = (InHand \o <<>>) \o <<>>
      BY <1>1, <2>1, <2>6 DEF Stream
    <3>2. Stream' = InHand
      BY <2>2, <3>1, Monoid
    <3>3. /\ Outstanding' = Stream' \o (wire \o unsent)
          /\ wire \o unsent \in Strings
      BY <2>1, <2>2, <2>4, <3>2, Monoid
    <3>4. peer' \notin {"open", "closed"}
      BY <1>1
    <3>5. QED
      BY <3>3, <3>4 DEF Kept
  <2>7. QED
    BY <1>1, <2>5, <2>6
<1>6. QED
  BY <1>2, <1>3, <1>4, <1>5

-----------------------------------------------------------------------------
(* The steps of recvMessage.                                               *)

LEMMA CallInv == Inv /\ Call => Inv'
<1> SUFFICES ASSUME Inv, Call PROVE Inv'
  OBVIOUS
<1> USE DEF Inv
<1>1. /\ rpc = "call" /\ rpc' \in {"thrown", "length", "body"}
      /\ rpc' = "length" => recvLen = 0
      /\ rpc' = "body" => recvLen # 0
      /\ UNCHANGED <<unsent, peer, sent, wire, buffer, recvLen, connected,
                     update, delivered>>
  BY DEF Call, sender
<1>2. Typed'
  BY <1>1 DEF Typed
<1>3. Ordered'
  BY <1>1 DEF Ordered
<1>4. Parser'
  BY <1>1 DEF Parser
<1>5. InHand' = InHand
  BY <1>1 DEF InHand
<1>6. Stream' = Stream
  BY <1>1, <1>5 DEF Stream
<1>7. QED
  BY <1>1, <1>2, <1>3, <1>4, <1>6, Moved, SameOutstanding

LEMMA ReadNothingInv == Inv /\ ReadNothing => Inv'
<1> SUFFICES ASSUME Inv, ReadNothing PROVE Inv'
  OBVIOUS
<1> USE DEF Inv
<1>1. /\ rpc \in {"length", "body"} /\ rpc' = "call"
      /\ UNCHANGED <<unsent, peer, sent, wire, buffer, recvLen, connected,
                     update, delivered>>
  BY DEF ReadNothing, sender
<1>2. Typed'
  BY <1>1 DEF Typed
<1>3. Ordered'
  BY <1>1 DEF Ordered
<1>4. Parser'
  BY <1>1 DEF Parser
<1>5. InHand' = InHand
  BY <1>1 DEF InHand
<1>6. Stream' = Stream
  BY <1>1, <1>5 DEF Stream
<1>7. QED
  BY <1>1, <1>2, <1>3, <1>4, <1>6, Moved, SameOutstanding

LEMMA ReadFailsInv == Inv /\ ReadFails => Inv'
<1> SUFFICES ASSUME Inv, ReadFails PROVE Inv'
  OBVIOUS
<1> USE DEF Inv
<1>1. /\ rpc \in {"length", "body"} /\ rpc' = "thrown"
      /\ connected' = FALSE /\ peer = "reset"
      /\ UNCHANGED <<unsent, peer, sent, wire, buffer, recvLen, update,
                     delivered>>
  BY DEF ReadFails, sender
<1>2. Typed'
  BY <1>1 DEF Typed
<1>3. Ordered'
  BY <1>1 DEF Ordered
<1>4. Parser'
  BY <1>1 DEF Parser
<1>5. InHand' = InHand
  BY <1>1 DEF InHand
<1>6. Stream' = Stream
  BY <1>1, <1>5 DEF Stream
<1>7. QED
  BY <1>1, <1>2, <1>3, <1>4, <1>6, Moved, SameOutstanding

LEMMA SendThreadFailsInv == Inv /\ SendThreadFails => Inv'
<1> SUFFICES ASSUME Inv, SendThreadFails PROVE Inv'
  OBVIOUS
<1> USE DEF Inv
<1>1. /\ connected' = FALSE /\ peer # "open"
      /\ UNCHANGED <<unsent, peer, sent, wire, buffer, recvLen, rpc, update,
                     delivered>>
  BY DEF SendThreadFails, sender
<1>2. Typed'
  BY <1>1 DEF Typed
<1>3. Ordered'
  BY <1>1 DEF Ordered
<1>4. Parser'
  BY <1>1 DEF Parser
<1>5. InHand' = InHand
  BY <1>1, SameHand
<1>6. Stream' = Stream
  BY <1>1, <1>5 DEF Stream
<1>7. QED
  BY <1>1, <1>2, <1>3, <1>4, <1>6, Moved, SameOutstanding

\* What a read asks for, it gets at most.
LEMMA AtMost ==
  ASSUME NEW a \in Int, NEW b \in Int, NEW n \in 1 .. Min({a, b})
  PROVE  n \in Nat /\ n >= 1 /\ n <= a /\ n <= b
<1> DEFINE m == Min({a, b})
<1>1. \E x \in {a, b} : \A y \in {a, b} : x <= y
  <2>1. CASE a <= b
    BY <2>1
  <2>2. CASE ~(a <= b)
    BY <2>2
  <2>3. QED
    BY <2>1, <2>2
<1>2. m \in {a, b} /\ \A y \in {a, b} : m <= y
  BY <1>1 DEF Min
<1> HIDE DEF m
<1>3. m \in Int /\ m <= a /\ m <= b
  BY <1>2
<1>4. n \in 1 .. m
  BY DEF m
<1>5. QED
  BY <1>3, <1>4

\* What is in the buffer and in the socket does not change as bytes move from
\* one to the other.
LEMMA GotBytes ==
  ASSUME Typed, NEW n \in 1 .. Len(wire)
  PROVE  /\ Taken(n) \in Strings /\ Left(n) \in Strings
         /\ buffer \o Taken(n) \in Strings
         /\ Len(buffer \o Taken(n)) = Len(buffer) + n
         /\ Len(buffer) \in Nat
         /\ (buffer \o Taken(n)) \o Left(n) = buffer \o wire
<1>1. /\ Taken(n) \in Strings /\ Left(n) \in Strings /\ Len(Taken(n)) = n
      /\ Taken(n) \o Left(n) = wire
  BY Cut DEF Taken, Left, Typed
<1>2. buffer \in Strings
  BY DEF Typed
<1>3. /\ buffer \o Taken(n) \in Strings /\ Len(buffer) \in Nat
      /\ Len(buffer \o Taken(n)) = Len(buffer) + Len(Taken(n))
  BY <1>1, <1>2, Joined
<1>4. (buffer \o Taken(n)) \o Left(n) = buffer \o wire
  BY <1>1, <1>2, Monoid, Zenon
<1>5. QED
  BY <1>1, <1>3, <1>4

LEMMA ReadLengthInv == Inv /\ ReadLength => Inv'
<1> SUFFICES ASSUME Inv, ReadLength PROVE Inv'
  OBVIOUS
<1> USE DEF Inv
<1>1. /\ rpc = "length" /\ recvLen = 0 /\ update = <<>>
      /\ Len(buffer) < HeaderLen /\ Number(Digits(recvLen)) = recvLen
      /\ UNCHANGED <<unsent, peer, sent, connected, update, delivered>>
  BY DEF ReadLength, sender, Parser
<1>2. PICK n \in 1 .. Min({LengthWanted, Len(wire)}) :
          LET got == buffer \o Taken(n) IN
          /\ wire' = Left(n)
          /\ \/ /\ Len(got) < HeaderLen
                /\ buffer' = got /\ rpc' = "call"
                /\ UNCHANGED recvLen
             \/ /\ Len(got) >= HeaderLen
                /\ buffer' = <<>>
                /\ recvLen' = Number(SubSeq(got, 1, HeaderLen))
                /\ rpc' = IF recvLen' = 0 THEN "true" ELSE "body"
  BY DEF ReadLength
<1> DEFINE got == buffer \o Taken(n)
<1>3. /\ Len(buffer) \in Nat /\ Len(wire) \in Nat
      /\ buffer \in Strings /\ wire \in Strings
  BY Joined DEF Typed
<1>4. n \in 1 .. Len(wire) /\ n <= HeaderLen - Len(buffer)
  <2>1. LengthWanted \in Int /\ LengthWanted = HeaderLen - Len(buffer)
    BY <1>3, HeaderAssumption DEF LengthWanted
  <2>2. n \in Nat /\ n >= 1 /\ n <= LengthWanted /\ n <= Len(wire)
    BY <1>3, <2>1, AtMost
  <2>3. QED
    BY <1>3, <2>1, <2>2
<1>5. /\ Left(n) \in Strings /\ got \in Strings
      /\ Len(got) = Len(buffer) + n /\ Len(got) \in Nat
      /\ Len(got) <= HeaderLen
      /\ got \o Left(n) = buffer \o wire
  <2>1. /\ Left(n) \in Strings /\ got \in Strings
        /\ Len(got) = Len(buffer) + n
        /\ got \o Left(n) = buffer \o wire
    BY <1>4, GotBytes, Zenon
  <2>2. Len(got) \in Nat /\ Len(got) <= HeaderLen
    <3> HIDE DEF got
    <3> QED
      BY <1>3, <1>4, <2>1, HeaderAssumption
  <2>3. QED
    BY <2>1, <2>2
<1>6. wire' = Left(n)
  BY <1>2
<1>7. InHand = buffer
  BY <1>1, <1>3, Monoid DEF InHand
<1>8. ASSUME InHand' = got PROVE Kept'
  <2>1. Stream' = (got \o Left(n)) \o unsent
    BY <1>1, <1>6, <1>8 DEF Stream
  <2>2. Stream' = Stream
    BY <1>5, <1>7, <2>1 DEF Stream
  <2>3. QED
    BY <1>1, <2>2, Moved, SameOutstanding
<1>9. Ordered'
  BY <1>1 DEF Ordered
<1>10. CASE /\ Len(got) < HeaderLen
            /\ buffer' = got /\ rpc' = "call" /\ recvLen' = recvLen
  <2>1. Typed'
    BY <1>1, <1>5, <1>6, <1>10 DEF Typed
  <2>2. Parser'
    BY <1>1, <1>10 DEF Parser
  <2>3. InHand' = got
    <3>1. InHand' = <<>> \o got
      BY <1>1, <1>10 DEF InHand
    <3>2. QED
      BY <1>5, <3>1, Monoid
  <2>4. QED
    BY <1>8, <1>9, <2>1, <2>2, <2>3
<1>11. CASE /\ Len(got) >= HeaderLen /\ buffer' = <<>>
            /\ recvLen' = Number(SubSeq(got, 1, HeaderLen))
            /\ rpc' = IF recvLen' = 0 THEN "true" ELSE "body"
  <2>1. Len(got) = HeaderLen
    BY <1>5, <1>11, HeaderAssumption
  <2>2. SubSeq(got, 1, HeaderLen) = got
    BY <1>5, <2>1, SubSeqFull DEF Strings
  <2>3. recvLen' = Number(got)
    BY <1>11, <2>2
  <2>4. Coded(got)
    <3>1. <<>> \in Strings
      BY Monoid
    <3>2. \A k \in 1 .. Len(got) : got[k] \in Bytes
      <4> HIDE DEF got
      <4> QED
        BY <1>5, <3>1, Joined
    <3>3. QED
      BY <2>1, <3>2 DEF Coded
  <2> HIDE DEF got
  <2>5. /\ recvLen' \in Nat
        /\ \A k \in 1 .. HeaderLen : Digits(recvLen')[k] = got[k]
    BY <2>3, <2>4, DigitsOfNumber
  <2>6. Digits(recvLen') \in Strings /\ Len(Digits(recvLen')) = HeaderLen
    BY <2>5, DigitsCoded
  <2>7. Digits(recvLen') = got
    BY <1>5, <2>1, <2>5, <2>6, Equal
  <2>8. <<>> \in Strings /\ Len(<<>>) = 0
    BY Monoid
  <2>9. Typed'
    BY <1>1, <1>5, <1>6, <1>11, <2>5, <2>8 DEF Typed
  <2>10. Parser'
    <3>1. Number(Digits(recvLen')) = recvLen'
      BY <2>3, <2>7
    <3>2. CASE recvLen' = 0
      <4>1. rpc' = "true" /\ update' = <<>> /\ buffer' = <<>>
        BY <1>1, <1>11, <3>2
      <4>2. Number(Digits(Len(update'))) = Len(update')
        BY <2>8, <3>1, <3>2, <4>1
      <4>3. QED
        BY <2>8, <3>1, <3>2, <4>1, <4>2, HeaderAssumption DEF Parser
    <3>3. CASE recvLen' # 0
      BY <1>1, <1>11, <2>5, <2>8, <3>1, <3>3 DEF Parser
    <3>4. QED
      BY <3>2, <3>3
  <2>11. InHand' = got
    <3>1. CASE recvLen' = 0
      <4>1. rpc' = "true" /\ update' = <<>>
        BY <1>1, <1>11, <3>1
      <4>2. InHand' = Encode(<<>>)
        BY <4>1 DEF InHand
      <4>3. Encode(<<>>) = Digits(0) \o <<>>
        BY <2>8, EncodeType
      <4>4. QED
        BY <1>5, <2>7, <3>1, <4>2, <4>3, Monoid
    <3>2. CASE recvLen' # 0
      <4>1. rpc' = "body" /\ buffer' = <<>>
        BY <1>11, <3>2
      <4>2. InHand' = Digits(recvLen') \o <<>>
        BY <3>2, <4>1 DEF InHand
      <4>3. QED
        BY <1>5, <2>7, <4>2, Monoid
    <3>3. QED
      BY <3>1, <3>2
  <2>12. QED
    BY <1>8, <1>9, <2>9, <2>10, <2>11
<1>12. QED
  BY <1>2, <1>10, <1>11

LEMMA ReadBodyInv == Inv /\ ReadBody => Inv'
<1> SUFFICES ASSUME Inv, ReadBody PROVE Inv'
  OBVIOUS
<1> USE DEF Inv
<1>1. /\ rpc = "body" /\ recvLen # 0 /\ recvLen \in Nat /\ update = <<>>
      /\ Len(buffer) < recvLen /\ Number(Digits(recvLen)) = recvLen
      /\ UNCHANGED <<unsent, peer, sent, delivered>>
  BY DEF ReadBody, sender, Parser, Typed
<1>2. PICK n \in 1 .. Min({BodyWanted, Len(wire)}) :
          LET got == buffer \o Taken(n) IN
          /\ wire' = Left(n)
          /\ \/ /\ Len(got) # recvLen
                /\ buffer' = got /\ rpc' = "call"
                /\ UNCHANGED <<recvLen, connected, update>>
             \/ /\ Len(got) = recvLen
                /\ update' = got
                /\ buffer' = <<>> /\ recvLen' = 0 /\ rpc' = "true"
                /\ UNCHANGED connected
             \/ /\ Len(got) = recvLen
                /\ buffer' = got
                /\ connected' = FALSE /\ rpc' = "thrown"
                /\ UNCHANGED <<recvLen, update>>
  BY DEF ReadBody
<1> DEFINE got == buffer \o Taken(n)
<1>3. /\ Len(buffer) \in Nat /\ Len(wire) \in Nat
      /\ buffer \in Strings /\ wire \in Strings
  BY Joined DEF Typed
<1>4. n \in 1 .. Len(wire) /\ n <= recvLen - Len(buffer)
  <2>1. BodyWanted \in Int /\ BodyWanted = recvLen - Len(buffer)
    BY <1>1, <1>3 DEF BodyWanted
  <2>2. n \in Nat /\ n >= 1 /\ n <= BodyWanted /\ n <= Len(wire)
    BY <1>3, <2>1, AtMost
  <2>3. QED
    BY <1>3, <2>1, <2>2
<1>5. /\ Left(n) \in Strings /\ got \in Strings
      /\ Len(got) = Len(buffer) + n /\ Len(got) \in Nat
      /\ Len(got) <= recvLen
      /\ got \o Left(n) = buffer \o wire
  <2>1. /\ Left(n) \in Strings /\ got \in Strings
        /\ Len(got) = Len(buffer) + n
        /\ got \o Left(n) = buffer \o wire
    BY <1>4, GotBytes, Zenon
  <2>2. Len(got) \in Nat /\ Len(got) <= recvLen
    <3> HIDE DEF got
    <3> QED
      BY <1>1, <1>3, <1>4, <2>1
  <2>3. QED
    BY <2>1, <2>2
<1>6. wire' = Left(n)
  BY <1>2
<1> DEFINE head == Digits(recvLen)
<1>7. head \in Strings /\ InHand = head \o buffer
  BY <1>1, DigitsCoded DEF InHand
<1>8. ASSUME InHand' = head \o got PROVE Kept'
  <2> HIDE DEF got, head
  <2>1. Stream' = ((head \o got) \o Left(n)) \o unsent
    BY <1>1, <1>6, <1>8 DEF Stream
  <2>2. (head \o got) \o Left(n) = head \o (got \o Left(n))
    BY <1>5, <1>7, Monoid
  <2>3. (head \o buffer) \o wire = head \o (buffer \o wire)
    BY <1>3, <1>7, Monoid
  <2>4. Stream' = Stream
    BY <1>5, <1>7, <2>1, <2>2, <2>3 DEF Stream
  <2>5. QED
    BY <1>1, <2>4, Moved, SameOutstanding
<1>9. Ordered'
  BY <1>1 DEF Ordered
<1>10. CASE /\ Len(got) # recvLen
            /\ buffer' = got /\ rpc' = "call" /\ connected' = connected
            /\ recvLen' = recvLen /\ update' = update
  <2> HIDE DEF got
  <2>1. Typed'
    BY <1>1, <1>5, <1>6, <1>10 DEF Typed
  <2>2. Len(got) < recvLen
    <3>1. Len(got) \in Nat /\ Len(got) <= recvLen /\ Len(got) # recvLen
      BY <1>5, <1>10
    <3>2. QED
      BY <1>1, <3>1
  <2>3. Parser'
    BY <1>1, <1>10, <2>2 DEF Parser
  <2>4. InHand' = head \o got
    BY <1>1, <1>10 DEF InHand
  <2>5. QED
    BY <1>8, <1>9, <2>1, <2>3, <2>4
<1>11. CASE /\ Len(got) = recvLen /\ update' = got
            /\ buffer' = <<>> /\ recvLen' = 0 /\ rpc' = "true"
            /\ connected' = connected
  <2> HIDE DEF got
  <2>1. <<>> \in Strings /\ Len(<<>>) = 0
    BY Monoid
  <2>2. Typed'
    BY <1>1, <1>5, <1>6, <1>11, <2>1 DEF Typed
  <2>3. Parser'
    <3>1. Number(Digits(Len(update'))) = Len(update')
      BY <1>1, <1>11
    <3>2. Number(Digits(recvLen')) = recvLen'
      BY <1>11, NumberOfZero
    <3>3. QED
      BY <1>11, <2>1, <3>1, <3>2, HeaderAssumption DEF Parser
  <2>4. InHand' = head \o got
    <3>1. InHand' = Encode(got)
      BY <1>11 DEF InHand
    <3>2. Encode(got) = Digits(Len(got)) \o got
      BY <1>5, EncodeType
    <3>3. QED
      BY <1>11, <3>1, <3>2
  <2>5. QED
    BY <1>8, <1>9, <2>2, <2>3, <2>4
<1>12. CASE /\ buffer' = got /\ connected' = FALSE /\ rpc' = "thrown"
            /\ recvLen' = recvLen /\ update' = update
  <2> HIDE DEF got
  <2>1. Typed'
    BY <1>1, <1>5, <1>6, <1>12 DEF Typed
  <2>2. Parser'
    BY <1>1, <1>12 DEF Parser
  <2>3. InHand' = head \o got
    BY <1>1, <1>12 DEF InHand
  <2>4. QED
    BY <1>8, <1>9, <2>1, <2>2, <2>3
<1>13. QED
  BY <1>2, <1>10, <1>11, <1>12

\* The message that recvMessage returned is the first that is outstanding.
LEMMA FirstOutstanding ==
  ASSUME Inv, rpc = "true"
  PROVE  /\ Len(delivered) < Len(sent)
         /\ update = sent[Len(delivered) + 1]
         /\ \A lost \in Strings :
                Outstanding = Stream \o lost =>
                    FlattenSeq(Pending(sent, Len(delivered) + 1))
                        = (wire \o unsent) \o lost
<1> USE DEF Inv
<1> DEFINE d == Len(delivered)
<1>1. /\ sent \in Mail /\ d \in Nat /\ Len(sent) \in Nat /\ d <= Len(sent)
      /\ update \in Strings /\ wire \in Strings /\ unsent \in Strings
      /\ Number(Digits(Len(update))) = Len(update)
  BY MailType DEF Typed, Ordered, Parser
<1>2. /\ InHand = Encode(update) /\ InHand \in Strings
      /\ Encode(update) = Digits(Len(update)) \o update
      /\ Digits(Len(update)) \in Strings /\ Len(update) \in Nat
  BY <1>1, EncodeType DEF InHand
<1>3. Len(Digits(Len(update))) = HeaderLen
  BY <1>2, DigitsCoded
<1>4. ASSUME NEW lost \in Strings, Outstanding = Stream \o lost
      PROVE  Outstanding
                 = Digits(Len(update))
                       \o (update \o ((wire \o unsent) \o lost))
  <2>1. InHand \in Strings /\ wire \in Strings /\ unsent \in Strings
    BY <1>1, <1>2
  <2>2. wire \o unsent \in Strings /\ (wire \o unsent) \o lost \in Strings
    BY <1>1, Monoid, Zenon
  <2>3. Outstanding = InHand \o ((wire \o unsent) \o lost)
    <3>1. Stream \o lost = ((InHand \o wire) \o unsent) \o lost
      BY DEF Stream
    <3>2. FourRegroup(InHand, wire, unsent, lost)
      BY <1>4, <2>1, FourRegrouped
    <3>3. QED
      BY <1>4, <3>1, <3>2, Zenon DEF FourRegroup
  <2> DEFINE rest == (wire \o unsent) \o lost
             head == Digits(Len(update))
  <2>4. (head \o update) \o rest = head \o (update \o rest)
    <3> HIDE DEF rest, head
    <3>1. rest \in Strings /\ head \in Strings /\ update \in Strings
      BY <1>1, <1>2, <2>2 DEF rest, head
    <3>2. QED
      BY <3>1, Associative, Zenon
  <2>5. QED
    BY <1>2, <2>3, <2>4
<1>5. PICK some \in Strings : Outstanding = Stream \o some
  BY DEF Kept
<1>6. d < Len(sent)
  <2>1. SUFFICES ASSUME d = Len(sent) PROVE FALSE
    BY <1>1
  <2>2. Outstanding = <<>>
    BY <1>1, <2>1, OutstandingPending, PendingNone
  <2> DEFINE rest == update \o ((wire \o unsent) \o some)
  <2>3. rest \in Strings
    BY <1>1, Monoid, Zenon
  <2>4. <<>> = Digits(Len(update)) \o rest
    <3>1. Outstanding = Digits(Len(update)) \o rest
      BY <1>4, <1>5, Zenon
    <3>2. QED
      BY <2>2, <3>1, Zenon
  <2> HIDE DEF rest
  <2>5. Len(Digits(Len(update)) \o rest) = HeaderLen + Len(rest)
        /\ Len(rest) \in Nat
    BY <1>2, <1>3, <2>3, Joined
  <2>6. Len(<<>>) = 0
    OBVIOUS
  <2> DEFINE n == Len(Digits(Len(update)) \o rest)
             k == Len(rest)
  <2>7. n = 0 /\ n = HeaderLen + k /\ k \in Nat
    BY <2>4, <2>5, <2>6
  <2> HIDE DEF n, k
  <2>8. QED
    BY <2>7, HeaderAssumption
<1> DEFINE m == sent[d + 1]
           more == FlattenSeq(Pending(sent, d + 1))
<1>7. m \in Messages
  <2>1. d + 1 \in 1 .. Len(sent)
    BY <1>1, <1>6
  <2>2. QED
    BY <1>1, <2>1, MailType
<1>8. /\ m \in Strings /\ Number(Digits(Len(m))) = Len(m)
      /\ Digits(Len(m)) \in Strings /\ Len(Digits(Len(m))) = HeaderLen
      /\ Encode(m) = Digits(Len(m)) \o m
  <2>1. m \in Strings /\ Number(Digits(Len(m))) = Len(m)
    BY <1>7, MessageType
  <2>2. Len(m) \in Nat /\ Encode(m) = Digits(Len(m)) \o m
    BY <2>1, EncodeType
  <2>3. QED
    BY <2>1, <2>2, DigitsCoded
<1>9. more \in Strings
  BY <1>1, <1>6, PendingType
<1>10. Outstanding = Encode(m) \o more
  BY <1>1, <1>6, OutstandingPending, PendingLess
<1> HIDE DEF m, more
<1>11. Outstanding = Digits(Len(m)) \o (m \o more) /\ m \o more \in Strings
  <2>1. m \o more \in Strings
    BY <1>8, <1>9, Monoid, Zenon
  <2>2. (Digits(Len(m)) \o m) \o more = Digits(Len(m)) \o (m \o more)
    BY <1>8, <1>9, Monoid, Zenon
  <2>3. QED
    BY <1>8, <1>10, <2>1, <2>2, Zenon
<1>12. ASSUME NEW lost \in Strings, Outstanding = Stream \o lost
       PROVE  update = m /\ more = (wire \o unsent) \o lost
  <2> DEFINE rest == (wire \o unsent) \o lost
             head == Digits(Len(update))
             first == Digits(Len(m))
  <2>1. rest \in Strings /\ update \o rest \in Strings
    BY <1>1, Monoid, Zenon
  <2>2. head \o (update \o rest) = first \o (m \o more)
    BY <1>4, <1>11, <1>12
  <2>3. head = first /\ update \o rest = m \o more
    <3>1. /\ head \in Strings /\ first \in Strings
          /\ Len(head) = Len(first)
      BY <1>2, <1>3, <1>8
    <3> HIDE DEF head, first, rest
    <3>2. QED
      BY <1>11, <2>1, <2>2, <3>1, Apart
  <2>4. Len(update) = Len(m)
    BY <1>1, <1>8, <2>3
  <2> HIDE DEF rest
  <2>5. update = m /\ rest = more
    BY <1>1, <1>8, <1>9, <2>1, <2>3, <2>4, Apart
  <2>6. QED
    BY <2>5 DEF rest
<1>13. update = m
  BY <1>5, <1>12
<1>14. QED
  BY <1>6, <1>12, <1>13 DEF m, more

LEMMA ApplyInv == Inv /\ Apply => Inv'
<1> SUFFICES ASSUME Inv, Apply PROVE Inv'
  OBVIOUS
<1> USE DEF Inv
<1>1. /\ rpc = "true" /\ rpc' = "call" /\ update' = <<>>
      /\ delivered' = Append(delivered, update)
      /\ recvLen = 0 /\ buffer = <<>>
      /\ UNCHANGED <<unsent, peer, sent, wire, buffer, recvLen, connected>>
  BY DEF Apply, sender, Cleared, Parser
<1>2. Len(delivered) < Len(sent) /\ update = sent[Len(delivered) + 1]
  BY <1>1, FirstOutstanding
<1>3. /\ sent \in Mail /\ delivered \in Mail
      /\ Len(sent) \in Nat /\ Len(delivered) \in Nat
  BY MailType DEF Typed
<1>4. update \in Messages
  <2>1. Len(delivered) + 1 \in 1 .. Len(sent)
    BY <1>2, <1>3
  <2>2. QED
    BY <1>2, <1>3, <2>1, MailType
<1>5. /\ delivered' \in Mail /\ Len(delivered') = Len(delivered) + 1
      /\ delivered'[Len(delivered) + 1] = update
      /\ \A k \in 1 .. Len(delivered) : delivered'[k] = delivered[k]
  BY <1>1, <1>3, <1>4, MailAppend
<1>6. <<>> \in Strings /\ Len(<<>>) = 0
  BY Monoid
<1>7. Typed'
  BY <1>1, <1>5, <1>6 DEF Typed
<1>8. Ordered'
  <2>1. Len(delivered') <= Len(sent')
    BY <1>1, <1>2, <1>3, <1>5
  <2>2. ASSUME NEW k \in 1 .. Len(delivered') PROVE delivered'[k] = sent'[k]
    <3>1. CASE k = Len(delivered) + 1
      BY <1>1, <1>2, <1>5, <3>1
    <3>2. CASE k # Len(delivered) + 1
      <4>1. k \in 1 .. Len(delivered)
        BY <1>3, <1>5, <3>2
      <4>2. QED
        BY <1>1, <1>5, <4>1 DEF Ordered
    <3>3. QED
      BY <3>1, <3>2
  <2>3. QED
    BY <2>1, <2>2 DEF Ordered
<1>9. Parser'
  BY <1>1, <1>6, HeaderAssumption DEF Parser
<1>10. Kept'
  <2>1. PICK lost \in Strings :
            /\ Outstanding = Stream \o lost
            /\ peer \in {"open", "closed"} => lost = <<>>
    BY DEF Kept
  <2>2. FlattenSeq(Pending(sent, Len(delivered) + 1))
            = (wire \o unsent) \o lost
    BY <1>1, <2>1, FirstOutstanding
  <2>3. Outstanding' = FlattenSeq(Pending(sent, Len(delivered) + 1))
    BY <1>1, <1>5 DEF Outstanding, Pending
  <2>4. Stream' = wire \o unsent
    <3>1. InHand' = <<>>
      BY <1>1, <1>6, Monoid DEF InHand
    <3>2. Stream' = (<<>> \o wire) \o unsent
      BY <1>1, <3>1 DEF Stream
    <3>3. wire \in Strings
      BY DEF Typed
    <3>4. QED
      BY <3>2, <3>3, Monoid
  <2>5. Outstanding' = Stream' \o lost
    BY <2>2, <2>3, <2>4
  <2>6. QED
    BY <1>1, <2>1, <2>5 DEF Kept
<1>11. QED
  BY <1>7, <1>8, <1>9, <1>10

-----------------------------------------------------------------------------
(* The theorems.                                                           *)

LEMMA NextInv == Inv /\ [Next]_vars => Inv'
<1> SUFFICES ASSUME Inv, [Next]_vars PROVE Inv'
  OBVIOUS
<1>1. CASE SendMessage
  BY <1>1, SendMessageInv
<1>2. CASE Write
  BY <1>2, WriteInv
<1>3. CASE Close
  BY <1>3, CloseInv
<1>4. CASE Crash
  BY <1>4, CrashInv
<1>5. CASE Call
  BY <1>5, CallInv
<1>6. CASE ReadNothing
  BY <1>6, ReadNothingInv
<1>7. CASE ReadFails
  BY <1>7, ReadFailsInv
<1>8. CASE ReadLength
  BY <1>8, ReadLengthInv
<1>9. CASE ReadBody
  BY <1>9, ReadBodyInv
<1>10. CASE Apply
  BY <1>10, ApplyInv
<1>11. CASE SendThreadFails
  BY <1>11, SendThreadFailsInv
<1>12. CASE UNCHANGED vars
  <2>1. UNCHANGED <<unsent, peer, sent, wire, buffer, recvLen, connected, rpc,
                    update, delivered>>
    BY <1>12 DEF vars, sender, receiver
  <2>2. InHand' = InHand
    BY <2>1, SameHand
  <2>3. Stream' = Stream
    BY <2>1, <2>2 DEF Stream
  <2>4. Kept'
    BY <2>1, <2>3, Moved, SameOutstanding DEF Inv
  <2>5. QED
    BY <2>1, <2>4 DEF Inv, Typed, Ordered, Parser
<1>13. QED
  BY <1>1, <1>2, <1>3, <1>4, <1>5, <1>6, <1>7, <1>8, <1>9, <1>10, <1>11,
     <1>12 DEF Next, Receive

\* The state of the receiver: recvMessage's buffer never holds more than the
\* length or the body it reads, and update is empty but when there is one.
THEOREM ReceiverState == Spec => [](Typed /\ Ordered /\ Parser)
<1>1. Inv => Typed /\ Ordered /\ Parser
  BY DEF Inv
<1>2. QED
  BY <1>1, InitInv, NextInv, PTL DEF Spec

\* For every size of a byte and a length, every set of messages, and however
\* the socket cuts the stream up, the receiver never loses its place in it.
THEOREM StreamKept == Spec => []StreamConserved
<1>1. Inv => StreamConserved
  <2> SUFFICES ASSUME Inv PROVE StreamConserved
    OBVIOUS
  <2>1. PICK lost \in Strings :
            /\ Outstanding = Stream \o lost
            /\ peer \in {"open", "closed"} => lost = <<>>
    BY DEF Inv, Kept
  <2>2. Stream \in Strings
    BY StreamType DEF Inv
  <2>3. IsPrefix(Stream, Outstanding)
    BY <2>1, <2>2, Prefix
  <2>4. peer \in {"open", "closed"} => Stream = Outstanding
    BY <2>1, <2>2, Monoid
  <2>5. QED
    BY <2>3, <2>4 DEF StreamConserved, Stream
<1>2. QED
  BY <1>1, InitInv, NextInv, PTL DEF Spec

\* Every step of the connection is a step of Mailbox, or leaves it alone: each
\* message is delivered whole, once and in the order they were sent.
THEOREM MailboxRefinement == Spec => Channel!Spec
<1>1. Init => Channel!Init
  BY DEF Init, Channel!Init
<1>2. Inv /\ Inv' /\ [Next]_vars => [Channel!Next]_(Channel!vars)
  <2> SUFFICES ASSUME Inv, Inv', [Next]_vars
               PROVE  [Channel!Next]_(Channel!vars)
    OBVIOUS
  <2> DEFINE broken == ~connected \/ peer \in {"crashed", "reset"}
  <2>1. CASE SendMessage
    <3>1. broken' = broken /\ delivered' = delivered
      BY <2>1 DEF SendMessage, receiver
    <3>2. \E m \in Messages : sent' = Append(sent, m)
      BY <2>1 DEF SendMessage
    <3>3. QED
      BY <3>1, <3>2 DEF Channel!Next, Channel!Send
  <2>2. CASE Apply
    <3>1. /\ Len(delivered) < Len(sent)
          /\ update = sent[Len(delivered) + 1]
      BY <2>2, FirstOutstanding DEF Apply
    <3>2. /\ delivered' = Append(delivered, update)
          /\ sent' = sent /\ broken' = broken
      BY <2>2 DEF Apply, sender
    <3>3. QED
      BY <3>1, <3>2 DEF Channel!Next, Channel!Deliver
  <2>3. CASE Crash
    <3>1. broken' = TRUE /\ sent' = sent /\ delivered' = delivered
      BY <2>3 DEF Crash, receiver
    <3>2. QED
      BY <3>1 DEF Channel!Next, Channel!Break
  <2>4. CASE SendThreadFails
    <3>1. broken' = TRUE /\ sent' = sent /\ delivered' = delivered
      BY <2>4 DEF SendThreadFails, sender
    <3>2. QED
      BY <3>1 DEF Channel!Next, Channel!Break
  <2>5. CASE ReadFails
    <3>1. broken' = TRUE /\ sent' = sent /\ delivered' = delivered
      BY <2>5 DEF ReadFails, sender
    <3>2. QED
      BY <3>1 DEF Channel!Next, Channel!Break
  <2>6. CASE Write
    BY <2>6 DEF Write, receiver, Channel!vars
  <2>7. CASE Close
    BY <2>7 DEF Close, receiver, Channel!vars
  <2>8. CASE Call \/ ReadNothing
    BY <2>8 DEF Call, ReadNothing, sender, Channel!vars
  <2>9. CASE ReadLength
    BY <2>9 DEF ReadLength, sender, Channel!vars
  <2>10. CASE ReadBody
    <3>1. sent' = sent /\ delivered' = delivered
      BY <2>10 DEF ReadBody, sender
    <3>2. peer' = peer /\ (connected' = connected \/ connected' = FALSE)
      BY <2>10 DEF ReadBody, sender
    <3>3. CASE connected' = connected
      BY <3>1, <3>2, <3>3 DEF Channel!vars
    <3>4. CASE connected' = FALSE
      BY <3>1, <3>4 DEF Channel!Next, Channel!Break
    <3>5. QED
      BY <3>2, <3>3, <3>4
  <2>11. CASE UNCHANGED vars
    BY <2>11 DEF vars, sender, receiver, Channel!vars
  <2>12. QED
    BY <2>1, <2>2, <2>3, <2>4, <2>5, <2>6, <2>7, <2>8, <2>9, <2>10, <2>11
       DEF Next, Receive
<1>3. QED
  BY <1>1, <1>2, InitInv, NextInv, PTL DEF Spec, Channel!Spec

-----------------------------------------------------------------------------
(* The logs: records that a buffer collects and flush writes to a file.    *)

\* The bytes of the records, and strings of them.
Marks == Nat \X Nat
Contents == StringsOf(Marks)

LEMMA PutTogether ==
  ASSUME NEW x \in Contents, NEW y \in Contents
  PROVE  /\ x \o y \in Contents /\ Len(x) \in Nat /\ Len(y) \in Nat
         /\ Len(x \o y) = Len(x) + Len(y)
  BY ConcatProperties, LenProperties DEF Contents, StringsOf

LEMMA Regrouped ==
  \A x, y, z \in Contents : x \o (y \o z) = (x \o y) \o z
  BY MonoidOf DEF Contents

\* The first N records of l.
Records(l, N) == [n \in 1 .. N |-> RecordBytes(n, RecordSize(l))]

LEMMA RecordType ==
  ASSUME NEW n \in Nat, NEW size \in Nat
  PROVE  /\ RecordBytes(n, size) \in Contents
         /\ Len(RecordBytes(n, size)) = size
<1> DEFINE record == [k \in 1 .. size |-> <<n, k>>]
<1>1. \A k \in 1 .. size : <<n, k>> \in Marks
  BY DEF Marks
<1>2. record \in Seq(Marks) /\ Len(record) = size
  BY <1>1, IsASeq, LenProperties
<1>3. QED
  BY <1>2 DEF RecordBytes, Contents, StringsOf

LEMMA RecordsType ==
  ASSUME NEW l, RecordSize(l) \in Nat, NEW N \in Nat
  PROVE  /\ Records(l, N) \in TextsOf(Marks) /\ Len(Records(l, N)) = N
         /\ \A n \in 1 .. N : Records(l, N)[n] = RecordBytes(n, RecordSize(l))
<1> DEFINE record(n) == RecordBytes(n, RecordSize(l))
<1>1. \A n \in 1 .. N : record(n) \in StringsOf(Marks)
  BY RecordType DEF Contents
<1> HIDE DEF record
<1>2. [n \in 1 .. N |-> record(n)] \in Seq(StringsOf(Marks))
      /\ Len([n \in 1 .. N |-> record(n)]) = N
  BY <1>1, IsASeq, LenProperties
<1>3. QED
  BY <1>2 DEF Records, TextsOf, record

\* One record more.
LEMMA RecordsMore ==
  ASSUME NEW l, RecordSize(l) \in Nat, NEW N \in Nat
  PROVE  /\ FlattenSeq(Records(l, N)) \in Contents
         /\ FlattenSeq(Records(l, N + 1))
              = FlattenSeq(Records(l, N)) \o RecordBytes(N + 1, RecordSize(l))
<1> DEFINE s == Records(l, N)
           t == Records(l, N + 1)
           x == RecordBytes(N + 1, RecordSize(l))
<1>1. /\ s \in TextsOf(Marks) /\ Len(s) = N
      /\ \A n \in 1 .. N : s[n] = RecordBytes(n, RecordSize(l))
  BY RecordsType
<1>2. /\ t \in TextsOf(Marks) /\ Len(t) = N + 1
      /\ \A n \in 1 .. N + 1 : t[n] = RecordBytes(n, RecordSize(l))
  BY RecordsType
<1>3. x \in StringsOf(Marks)
  BY RecordType DEF Contents
<1>4. t[N + 1] = x /\ Extends(s, N, t)
  <2>1. N + 1 \in 1 .. N + 1 /\ \A n \in 1 .. N : n \in 1 .. N + 1
    OBVIOUS
  <2>2. QED
    BY <1>1, <1>2, <2>1 DEF Extends
<1> HIDE DEF s, t, x
<1>5. FlattenSeq(t) = FlattenSeq(s) \o x
  BY <1>1, <1>2, <1>3, <1>4, FlattenAppendOf
<1>6. FlattenSeq(s) \in Contents
  BY <1>1, FlattenTypeOf DEF Contents
<1>7. QED
  BY <1>5, <1>6 DEF s, t, x

\* What a write takes of the rest of a buffer, and what it leaves.
LEMMA CutRest ==
  ASSUME NEW A, NEW x \in StringsOf(A), NEW t \in Nat,
         NEW n \in 1 .. Len(x) - t
  PROVE  /\ SubSeq(x, t + 1, Len(x)) \in StringsOf(A)
         /\ SubSeq(x, t + 1, t + n) \in StringsOf(A)
         /\ SubSeq(x, t + n + 1, Len(x)) \in StringsOf(A)
         /\ SubSeq(x, t + 1, t + n) \o SubSeq(x, t + n + 1, Len(x))
              = SubSeq(x, t + 1, Len(x))
         /\ t + n = Len(x) => SubSeq(x, t + 1, t + n)
                                = SubSeq(x, t + 1, Len(x))
<1>1. Len(x) \in Nat /\ x \in Seq(A)
  BY LenProperties DEF StringsOf
<1>2. \A i \in 1 .. Len(x) : x[i] \in A
  BY <1>1, ElementOfSeq
<1>3. ASSUME NEW m \in Nat, NEW e \in Nat, m >= 1, e <= Len(x)
      PROVE  SubSeq(x, m, e) \in StringsOf(A)
  <2>1. \A i \in m .. e : x[i] \in A
    BY <1>1, <1>2, <1>3
  <2>2. QED
    BY <1>1, <1>3, <2>1, SubSeqProperties DEF StringsOf
<1>4. /\ t + 1 \in Nat /\ t + 1 >= 1 /\ t + n \in Nat /\ t + n <= Len(x)
      /\ t + n + 1 \in Nat /\ t + n + 1 >= 1
  BY <1>1
<1>5. SubSeq(x, t + 1, t + n) \o SubSeq(x, (t + n) + 1, Len(x))
        = SubSeq(x, t + 1, Len(x))
  <2>1. /\ t + 1 \in 1 .. Len(x) + 1 /\ t + n \in (t + 1) - 1 .. Len(x)
        /\ Len(x) \in t + n .. Len(x)
    BY <1>1
  <2>2. QED
    BY <1>1, <2>1, ConcatAdjacentSubSeq
<1>6. QED
  BY <1>1, <1>3, <1>4, <1>5

LEMMA WholeRest ==
  ASSUME NEW A, NEW x \in StringsOf(A)
  PROVE  SubSeq(x, 0 + 1, Len(x)) = x
  BY SubSeqFull DEF StringsOf

\* What the constants give.
LEMMA LogConstants ==
  ASSUME LogsKnown
  PROVE  /\ IsFiniteSet(Loggers) /\ Cardinality(Loggers) \in Nat
         /\ NoId \in Nat /\ Cardinality(Loggers) <= NoId
         /\ BufferSize \in Nat /\ MaxRecords \in Nat
         /\ \A l \in Loggers :
                /\ RecordSize(l) \in Nat /\ RecordSize(l) > 0
                /\ RecordSize(l) <= BufferSize
<1>1. /\ IsFiniteSet(Loggers) /\ BufferSize \in Nat /\ MaxRecords \in Nat
      /\ TimeSize \in Nat \ {0}
      /\ \A l \in Loggers : Size[l] \in Nat /\ RecordSize(l) <= BufferSize
  BY DEF LogsKnown
<1>2. Cardinality(Loggers) \in Nat
  BY <1>1, FS_CardinalityType
<1>3. NoId \in Nat /\ Cardinality(Loggers) <= NoId
  BY <1>1, <1>2 DEF NoId
<1>4. \A l \in Loggers : RecordSize(l) \in Nat /\ RecordSize(l) > 0
  BY <1>1 DEF RecordSize
<1>5. QED
  BY <1>1, <1>2, <1>3, <1>4

Doings == {"unborn", "idle", "flush", "destructor", "gone"}
Born == {l \in Loggers : doing[l] # "unborn"}
ToWrite(l) == SubSeq(filled[l], total[l] + 1, Len(filled[l]))
Logged(l) == FlattenSeq(Records(l, logged[l]))

LogTyped ==
    /\ created \in Nat /\ destroyed \in Nat
    /\ id \in [Loggers -> Nat] /\ doing \in [Loggers -> Doings]
    /\ filled \in [Loggers -> Contents] /\ total \in [Loggers -> Nat]
    /\ logged \in [Loggers -> Nat]
    /\ \A i \in DOMAIN files : files[i] \in Contents

\* A buffer is written from its start, and empty again when all of it is.
Buffered(l) ==
    /\ total[l] = 0 \/ total[l] < Len(filled[l])
    /\ Len(filled[l]) <= BufferSize
    /\ doing[l] \in {"unborn", "idle"} => total[l] = 0
    /\ doing[l] = "unborn" => filled[l] = <<>> /\ logged[l] = 0
    /\ doing[l] = "gone" => filled[l] = <<>>

\* No two loggers write to the same file, and none that is to be constructed
\* has one.
Identified ==
    /\ Cardinality(Born) = created /\ DOMAIN files \subseteq 0 .. created - 1
    /\ \A l \in Loggers \ Born : id[l] = NoId
    /\ \A l \in Born : id[l] < created
    /\ \A k, l \in Born : id[k] = id[l] => k = l

\* The file and the rest of the buffer are the records logged.
Recorded(l) == id[l] \in DOMAIN files => files[id[l]] \o ToWrite(l) = Logged(l)

LogInv ==
    /\ LogTyped /\ Identified
    /\ \A l \in Loggers : Buffered(l) /\ Recorded(l)

LEMMA BornFinite ==
  ASSUME LogsKnown, LogInv
  PROVE  /\ IsFiniteSet(Born) /\ created \in Nat /\ created <= NoId
         /\ \A l \in Loggers : l \notin Born =>
                created < NoId /\ id[l] \notin DOMAIN files
<1>1. Born \in SUBSET Loggers
  BY DEF Born
<1>2. IsFiniteSet(Born) /\ Cardinality(Born) <= Cardinality(Loggers)
      /\ (Cardinality(Loggers) = Cardinality(Born) => Loggers = Born)
  BY <1>1, LogConstants, FS_Subset
<1>3. created \in Nat /\ Cardinality(Born) = created
  BY DEF LogInv, LogTyped, Identified
<1>4. created <= NoId
  BY <1>2, <1>3, LogConstants
<1>5. ASSUME NEW l \in Loggers, l \notin Born
      PROVE  created < NoId /\ id[l] \notin DOMAIN files
  <2>1. created < NoId
    BY <1>2, <1>3, <1>5, LogConstants
  <2>2. id[l] = NoId /\ DOMAIN files \subseteq 0 .. created - 1
    BY <1>5 DEF LogInv, Identified
  <2>3. QED
    BY <1>3, <2>1, <2>2, LogConstants
<1>6. QED
  BY <1>2, <1>3, <1>4, <1>5

LEMMA LogInit == LogsKnown /\ LogsInit => LogInv
<1> SUFFICES ASSUME LogsKnown, LogsInit PROVE LogInv
  OBVIOUS
<1>1. /\ created = 0 /\ destroyed = 0
      /\ id = [l \in Loggers |-> NoId] /\ DOMAIN files = {}
      /\ filled = [l \in Loggers |-> <<>>]
      /\ total = [l \in Loggers |-> 0]
      /\ doing = [l \in Loggers |-> "unborn"]
      /\ logged = [l \in Loggers |-> 0]
  BY DEF LogsInit
<1>2. LogTyped
  <2>1. <<>> \in Contents
    BY MonoidOf DEF Contents
  <2>2. QED
    BY <1>1, <2>1, LogConstants DEF LogTyped, Doings
<1>3. Identified
  <2>1. Born = {}
    BY <1>1 DEF Born
  <2>2. QED
    BY <1>1, <2>1, FS_EmptySet DEF Identified
<1>4. ASSUME NEW l \in Loggers PROVE Buffered(l) /\ Recorded(l)
  <2>1. filled[l] = <<>> /\ total[l] = 0 /\ logged[l] = 0
        /\ doing[l] = "unborn"
    BY <1>1
  <2>2. Len(<<>>) = 0
    OBVIOUS
  <2>3. QED
    BY <1>1, <2>1, <2>2, LogConstants DEF Buffered, Recorded
<1>5. QED
  BY <1>2, <1>3, <1>4 DEF LogInv

\* A logger that a step leaves alone.
LEMMA OthersKept ==
  ASSUME LogInv, NEW l \in Loggers,
         filled'[l] = filled[l], total'[l] = total[l], logged'[l] = logged[l],
         doing'[l] = doing[l], id'[l] = id[l],
         id[l] \in DOMAIN files' =>
             id[l] \in DOMAIN files /\ files'[id[l]] = files[id[l]]
  PROVE  Buffered(l)' /\ Recorded(l)'
<1>1. Buffered(l) /\ Recorded(l)
  BY DEF LogInv
<1>2. Buffered(l)'
  BY <1>1, Zenon DEF Buffered
<1>3. ToWrite(l)' = ToWrite(l) /\ Logged(l)' = Logged(l)
  BY DEF ToWrite, Logged, Records
<1>4. Recorded(l)'
  BY <1>1, <1>3, Zenon DEF Recorded
<1>5. QED
  BY <1>2, <1>4

LEMMA NothingLogged ==
  ASSUME LogsKnown, NEW l \in Loggers
  PROVE  FlattenSeq(Records(l, 0)) = <<>>
<1>1. Records(l, 0) \in TextsOf(Marks) /\ Len(Records(l, 0)) = 0
  BY LogConstants, RecordsType
<1>2. Records(l, 0) = <<>>
  BY <1>1, EmptySeq DEF TextsOf
<1>3. QED
  BY <1>2, FlattenEmpty

LEMMA ConstructLogs ==
  ASSUME LogsKnown, LogInv, NEW l \in Loggers, Construct(l)
  PROVE  LogInv'
<1>1. /\ doing[l] = "unborn" /\ l \notin Born
      /\ doing' = [doing EXCEPT ![l] = "idle"]
      /\ id' = [id EXCEPT ![l] = created] /\ created' = created + 1
      /\ UNCHANGED <<destroyed, filled, total, logged>>
  BY DEF Construct, Goto, Born
<1>2. /\ DOMAIN files' = DOMAIN FilesSoFar \cup {created}
      /\ \A i \in DOMAIN files' :
             files'[i] = IF i = created THEN <<>> ELSE FilesSoFar[i]
  BY DEF Construct
<1>3. /\ DOMAIN FilesSoFar \subseteq DOMAIN files
      /\ \A i \in DOMAIN FilesSoFar : FilesSoFar[i] = files[i]
  BY DEF FilesSoFar
<1>4. /\ created \in Nat /\ created < NoId /\ NoId \in Nat
      /\ IsFiniteSet(Born) /\ Cardinality(Born) = created
      /\ DOMAIN files \subseteq 0 .. created - 1
  BY <1>1, BornFinite, LogConstants DEF LogInv, Identified
<1>5. \A i \in DOMAIN files' : i # created =>
          i \in DOMAIN files /\ files'[i] = files[i]
  BY <1>2, <1>3
<1>6. created \in DOMAIN files' /\ files'[created] = <<>>
  BY <1>2
<1>7. <<>> \in Contents
  BY MonoidOf DEF Contents
<1>8. LogTyped'
  <2>1. \A i \in DOMAIN files' : files'[i] \in Contents
    BY <1>5, <1>6, <1>7 DEF LogInv, LogTyped
  <2>2. id' \in [Loggers -> Nat] /\ doing' \in [Loggers -> Doings]
    BY <1>1, <1>4 DEF LogInv, LogTyped, Doings
  <2>3. created' \in Nat
    BY <1>1, <1>4
  <2>4. QED
    BY <1>1, <2>1, <2>2, <2>3, Zenon DEF LogInv, LogTyped
<1>9. Born' = Born \cup {l}
  BY <1>1 DEF Born, LogInv, LogTyped
<1>10. Identified'
  <2>1. Cardinality(Born') = created'
    BY <1>1, <1>4, <1>9, FS_AddElement
  <2>2. DOMAIN files' \subseteq 0 .. created' - 1
    BY <1>1, <1>4, <1>5
  <2>3. \A k \in Loggers \ Born' : id'[k] = NoId
    BY <1>1, <1>9 DEF LogInv, LogTyped, Identified
  <2>4. /\ id'[l] = created
        /\ \A k \in Born : id'[k] = id[k] /\ id[k] < created
    BY <1>1 DEF LogInv, LogTyped, Identified, Born
  <2>5. \A k \in Born' : id'[k] < created'
    <3>1. \A k \in Born : id[k] \in Nat
      BY DEF LogInv, LogTyped, Born
    <3>2. QED
      BY <1>1, <1>4, <1>9, <2>4, <3>1
  <2>6. \A j, k \in Born' : id'[j] = id'[k] => j = k
    <3>1. \A j, k \in Born : id[j] = id[k] => j = k
      BY DEF LogInv, Identified
    <3>2. \A k \in Born : id'[k] # id'[l]
      BY <1>4, <2>4
    <3>3. QED
      BY <1>9, <2>4, <3>1, <3>2
  <2>7. NoId' = NoId
    OBVIOUS
  <2>8. QED
    BY <2>1, <2>2, <2>3, <2>5, <2>6 DEF Identified
<1>11. ASSUME NEW k \in Loggers, k # l PROVE Buffered(k)' /\ Recorded(k)'
  <2>1. id'[k] = id[k] /\ doing'[k] = doing[k]
    BY <1>1, <1>11 DEF LogInv, LogTyped
  <2>2. id[k] # created
    <3>1. CASE k \in Born
      BY <1>4, <3>1 DEF LogInv, Identified
    <3>2. CASE k \notin Born
      BY <1>4, <3>2 DEF LogInv, Identified
    <3>3. QED
      BY <3>1, <3>2
  <2>3. QED
    BY <1>1, <1>5, <2>1, <2>2, OthersKept
<1>12. Buffered(l)' /\ Recorded(l)'
  <2>1. /\ filled'[l] = <<>> /\ total'[l] = 0 /\ logged'[l] = 0
        /\ id'[l] = created /\ doing'[l] = "idle"
    BY <1>1 DEF LogInv, LogTyped, Buffered
  <2>2. Len(<<>>) = 0
    OBVIOUS
  <2>3. Buffered(l)'
    BY <2>1, <2>2, LogConstants DEF Buffered
  <2>4. ToWrite(l)' = <<>>
    <3>1. ToWrite(l)' = SubSeq(<<>>, 0 + 1, Len(<<>>))
      BY <2>1 DEF ToWrite
    <3>2. QED
      BY <1>7, <3>1, WholeRest DEF Contents
  <2>5. Logged(l)' = <<>>
    <3>1. Logged(l)' = FlattenSeq(Records(l, 0))
      BY <2>1 DEF Logged, Records
    <3>2. QED
      BY <3>1, NothingLogged
  <2>6. files'[id'[l]] \o ToWrite(l)' = <<>>
    BY <1>6, <1>7, <2>1, <2>4, MonoidOf DEF Contents
  <2>7. QED
    BY <2>3, <2>5, <2>6 DEF Recorded
<1>13. QED
  BY <1>8, <1>10, <1>11, <1>12 DEF LogInv

\* What is kept of the identities when no logger is constructed.
LEMMA SameIdentities ==
  ASSUME LogInv, UNCHANGED <<created, id>>,
         \A l \in Loggers : doing'[l] = "unborn" <=> doing[l] = "unborn",
         DOMAIN files' \subseteq DOMAIN files
  PROVE  Identified' /\ Born' = Born
<1>1. Born' = Born
  BY DEF Born
<1>2. DOMAIN files' \subseteq 0 .. created - 1
  BY DEF LogInv, Identified
<1>3. QED
  BY <1>1, <1>2 DEF LogInv, Identified, NoId

LEMMA LogLogs ==
  ASSUME LogsKnown, LogInv, NEW l \in Loggers, Log(l)
  PROVE  LogInv'
<1>1. /\ doing[l] = "idle" /\ total[l] = 0 /\ Len(filled[l]) \in Nat
      /\ filled[l] \in Contents /\ logged[l] \in Nat
      /\ UNCHANGED <<created, destroyed, id, files, total>>
  BY LenProperties
  DEF Log, library, LogInv, LogTyped, Buffered, Contents, StringsOf
<1>2. CASE HasRoom(l)
  <2> DEFINE record == RecordBytes(logged[l] + 1, RecordSize(l))
  <2>1. /\ filled' = [filled EXCEPT ![l] = filled[l] \o record]
        /\ logged' = [logged EXCEPT ![l] = logged[l] + 1]
        /\ doing' = doing
    BY <1>2, Zenon DEF Log, Record
  <2>2. record \in Contents /\ Len(record) = RecordSize(l)
    BY <1>1, LogConstants, RecordType
  <2>3. Logged(l) \in Contents
        /\ FlattenSeq(Records(l, logged[l] + 1)) = Logged(l) \o record
    BY <1>1, LogConstants, RecordsMore DEF Logged
  <2> HIDE DEF record
  <2>4. /\ filled[l] \o record \in Contents
        /\ Len(filled[l] \o record) = Len(filled[l]) + RecordSize(l)
    BY <1>1, <2>2, PutTogether
  <2>5. LogTyped'
    BY <1>1, <2>1, <2>4 DEF LogInv, LogTyped
  <2>6. Identified'
    BY <1>1, <2>1, SameIdentities
  <2>7. ASSUME NEW k \in Loggers, k # l PROVE Buffered(k)' /\ Recorded(k)'
    <3>1. filled'[k] = filled[k] /\ logged'[k] = logged[k]
      BY <2>1, <2>7 DEF LogInv, LogTyped
    <3>2. QED
      BY <1>1, <2>1, <3>1, OthersKept
  <2>8. /\ filled'[l] = filled[l] \o record /\ logged'[l] = logged[l] + 1
        /\ total'[l] = 0 /\ doing'[l] = "idle"
    BY <1>1, <2>1 DEF LogInv, LogTyped
  <2>9. Buffered(l)'
    <3>1. Len(filled[l]) + RecordSize(l) <= BufferSize
      BY <1>2 DEF HasRoom
    <3>2. QED
      BY <1>1, <2>4, <2>8, <3>1 DEF Buffered
  <2>10. ToWrite(l) = filled[l] /\ ToWrite(l)' = filled[l] \o record
    <3>1. ToWrite(l)' = SubSeq(filled[l] \o record, 0 + 1,
                            Len(filled[l] \o record))
      BY <2>8 DEF ToWrite
    <3>2. ToWrite(l) = SubSeq(filled[l], 0 + 1, Len(filled[l]))
      BY <1>1 DEF ToWrite
    <3>3. QED
      BY <1>1, <2>4, <3>1, <3>2, WholeRest DEF Contents
  <2>11. Logged(l)' = Logged(l) \o record
    BY <2>3, <2>8 DEF Logged, Records
  <2>12. Recorded(l)'
    <3>1. SUFFICES ASSUME id[l] \in DOMAIN files
                   PROVE  files[id[l]] \o ToWrite(l)' = Logged(l)'
      BY <1>1 DEF Recorded
    <3> DEFINE file == files[id[l]]
    <3>2. file \in Contents /\ file \o filled[l] = Logged(l)
      BY <2>10, <3>1 DEF LogInv, LogTyped, Recorded
    <3> HIDE DEF file
    <3>3. file \o (filled[l] \o record) = (file \o filled[l]) \o record
      BY <1>1, <2>2, <3>2, Regrouped, Zenon
    <3>4. QED
      BY <2>10, <2>11, <3>2, <3>3 DEF file
  <2>13. QED
    BY <2>5, <2>6, <2>7, <2>9, <2>12 DEF LogInv
<1>3. CASE ~HasRoom(l)
  <2>1. doing' = [doing EXCEPT ![l] = "flush"] /\ UNCHANGED <<filled, logged>>
    BY <1>3 DEF Log, Goto
  <2>2. LogTyped'
    BY <1>1, <2>1 DEF LogInv, LogTyped, Doings
  <2>3. Identified'
    BY <1>1, <2>1, SameIdentities DEF LogInv, LogTyped
  <2>4. ASSUME NEW k \in Loggers, k # l PROVE Buffered(k)' /\ Recorded(k)'
    BY <1>1, <2>1, <2>4, OthersKept DEF LogInv, LogTyped
  <2>5. Buffered(l)' /\ Recorded(l)'
    <3>1. doing'[l] = "flush"
      BY <2>1 DEF LogInv, LogTyped
    <3>2. Buffered(l)'
      BY <1>1, <2>1, <3>1 DEF LogInv, Buffered
    <3>3. Recorded(l)'
      BY <1>1, <2>1 DEF LogInv, Recorded, ToWrite, Logged, Records
    <3>4. QED
      BY <3>2, <3>3
  <2>6. QED
    BY <2>2, <2>3, <2>4, <2>5 DEF LogInv
<1>4. QED
  BY <1>2, <1>3

LEMMA FlushLogs ==
  ASSUME LogsKnown, LogInv, NEW l \in Loggers, FlushWrites(l)
  PROVE  LogInv'
<1>1. /\ l \in Born /\ doing[l] \in {"flush", "destructor"}
      /\ total[l] \in Nat /\ filled[l] \in Contents /\ Len(filled[l]) \in Nat
      /\ UNCHANGED <<created, destroyed, id, doing, logged>>
  BY LenProperties
  DEF FlushWrites, Flushing, library, LogInv, LogTyped, Born, Contents,
      StringsOf
<1>2. PICK n \in 1 .. Len(filled[l]) - total[l] :
          /\ files' = [files EXCEPT ![id[l]] = @ \o Written(l, n)]
          /\ IF total[l] + n = Len(filled[l])
             THEN /\ total' = [total EXCEPT ![l] = 0]
                  /\ filled' = [filled EXCEPT ![l] = <<>>]
             ELSE /\ total' = [total EXCEPT ![l] = @ + n]
                  /\ UNCHANGED filled
  BY DEF FlushWrites
<1> DEFINE taken == SubSeq(filled[l], total[l] + 1, total[l] + n)
           remains == SubSeq(filled[l], total[l] + n + 1, Len(filled[l]))
<1>3. /\ ToWrite(l) \in Contents /\ taken \in Contents /\ remains \in Contents
      /\ taken \o remains = ToWrite(l)
      /\ total[l] + n = Len(filled[l]) => taken = ToWrite(l)
  BY <1>1, CutRest DEF ToWrite, Contents
<1>4. /\ DOMAIN files' = DOMAIN files
      /\ \A i \in DOMAIN files :
             files'[i] = IF i = id[l] THEN files[i] \o taken ELSE files[i]
  BY <1>2 DEF Written
<1>5. <<>> \in Contents
  BY MonoidOf DEF Contents
<1>6. /\ filled' \in [Loggers -> Contents]
      /\ total' \in [Loggers -> Nat]
      /\ \A k \in Loggers : k # l =>
             filled'[k] = filled[k] /\ total'[k] = total[k]
      /\ Len(filled'[l]) <= BufferSize
      /\ total'[l] = 0 \/ total'[l] < Len(filled'[l])
      /\ IF total[l] + n = Len(filled[l])
         THEN filled'[l] = <<>> /\ total'[l] = 0
         ELSE filled'[l] = filled[l] /\ total'[l] = total[l] + n
  <2>1. Len(<<>>) = 0 /\ BufferSize \in Nat
    BY LogConstants
  <2>2. /\ filled \in [Loggers -> Contents] /\ total \in [Loggers -> Nat]
        /\ Len(filled[l]) <= BufferSize
    BY DEF LogInv, LogTyped, Buffered
  <2>3. CASE total[l] + n = Len(filled[l])
    <3>1. /\ filled' = [filled EXCEPT ![l] = <<>>]
          /\ total' = [total EXCEPT ![l] = 0]
      BY <1>2, <2>3
    <3>2. filled' \in [Loggers -> Contents] /\ filled'[l] = <<>>
      BY <1>5, <2>2, <3>1
    <3>3. total' \in [Loggers -> Nat] /\ total'[l] = 0
      BY <2>2, <3>1
    <3>4. \A k \in Loggers : k # l =>
              filled'[k] = filled[k] /\ total'[k] = total[k]
      BY <2>2, <3>1
    <3>5. QED
      BY <2>1, <2>3, <3>2, <3>3, <3>4
  <2>4. CASE total[l] + n # Len(filled[l])
    <3>1. /\ filled' = filled /\ total' = [total EXCEPT ![l] = total[l] + n]
          /\ total[l] + n \in Nat /\ total[l] + n < Len(filled[l])
      BY <1>1, <1>2, <2>4
    <3>2. QED
      BY <2>2, <2>4, <3>1
  <2>5. QED
    BY <2>3, <2>4
<1>7. LogTyped'
  <2>1. \A i \in DOMAIN files' : files'[i] \in Contents
    <3> SUFFICES ASSUME NEW i \in DOMAIN files PROVE files'[i] \in Contents
      BY <1>4
    <3>1. files[i] \in Contents
      BY DEF LogInv, LogTyped
    <3>2. QED
      BY <1>3, <1>4, <3>1, PutTogether
  <2>2. QED
    BY <1>1, <1>6, <2>1, Zenon DEF LogInv, LogTyped
<1>8. Identified'
  BY <1>1, <1>4, SameIdentities
<1>9. ASSUME NEW k \in Loggers, k # l PROVE Buffered(k)' /\ Recorded(k)'
  <2>1. id[k] \in DOMAIN files => id[k] # id[l]
    <3>1. CASE k \in Born
      BY <1>1, <1>9, <3>1 DEF LogInv, Identified
    <3>2. CASE k \notin Born
      BY <3>2, BornFinite
    <3>3. QED
      BY <3>1, <3>2
  <2>2. id[k] \in DOMAIN files' =>
            id[k] \in DOMAIN files /\ files'[id[k]] = files[id[k]]
    BY <1>4, <2>1
  <2>3. QED
    BY <1>1, <1>6, <1>9, <2>2, OthersKept
<1>10. Buffered(l)'
  BY <1>1, <1>6 DEF Buffered
<1>11. Logged(l)' = Logged(l)
  BY <1>1 DEF Logged, Records
<1>12. ToWrite(l) = taken \o ToWrite(l)'
  <2>1. CASE total[l] + n = Len(filled[l])
    <3>1. ToWrite(l)' = SubSeq(<<>>, 0 + 1, Len(<<>>))
      BY <1>6, <2>1 DEF ToWrite
    <3>2. ToWrite(l)' = <<>>
      BY <1>5, <3>1, WholeRest DEF Contents
    <3>3. taken \o <<>> = taken
      BY <1>3, MonoidOf DEF Contents
    <3>4. QED
      BY <1>3, <2>1, <3>2, <3>3
  <2>2. CASE total[l] + n # Len(filled[l])
    <3>1. ToWrite(l)' = remains
      BY <1>6, <2>2 DEF ToWrite
    <3>2. QED
      BY <1>3, <3>1
  <2>3. QED
    BY <2>1, <2>2
<1>13. ToWrite(l)' \in Contents
  <2>1. CASE total[l] + n = Len(filled[l])
    <3>1. ToWrite(l)' = SubSeq(<<>>, 0 + 1, Len(<<>>))
      BY <1>6, <2>1 DEF ToWrite
    <3>2. QED
      BY <1>5, <3>1, WholeRest DEF Contents
  <2>2. CASE total[l] + n # Len(filled[l])
    BY <1>3, <1>6, <2>2 DEF ToWrite
  <2>3. QED
    BY <2>1, <2>2
<1> HIDE DEF taken, remains
<1>14. Recorded(l)'
  <2>1. SUFFICES ASSUME id[l] \in DOMAIN files
                 PROVE  files'[id[l]] \o ToWrite(l)' = Logged(l)'
    BY <1>1, <1>4 DEF Recorded
  <2> DEFINE file == files[id[l]]
  <2>2. /\ file \in Contents /\ file \o ToWrite(l) = Logged(l)
        /\ files'[id[l]] = file \o taken
    BY <1>4, <2>1 DEF LogInv, LogTyped, Recorded
  <2> HIDE DEF file
  <2>3. file \o (taken \o ToWrite(l)') = (file \o taken) \o ToWrite(l)'
    BY <1>3, <1>13, <2>2, Regrouped, Zenon
  <2>4. QED
    BY <1>11, <1>12, <2>2, <2>3
<1>15. QED
  BY <1>7, <1>8, <1>9, <1>10, <1>14 DEF LogInv

\* The steps that only move a logger on, or end the process.
LEMMA MoveLogs ==
  ASSUME LogsKnown, LogInv, NEW l \in Loggers,
         NEW place \in Doings \ {"unborn"}, doing[l] # "unborn",
         doing' = [doing EXCEPT ![l] = place],
         place \in {"idle", "gone"} => filled[l] = <<>>,
         destroyed' \in Nat, UNCHANGED <<created, id, filled, total, logged>>,
         DOMAIN files' \subseteq DOMAIN files,
         \A i \in DOMAIN files' : files'[i] = files[i]
  PROVE  LogInv'
<1>1. LogTyped'
  BY DEF LogInv, LogTyped
<1>2. \A k \in Loggers : k # l => doing'[k] = doing[k]
  BY DEF LogInv, LogTyped
<1>3. doing'[l] = place
  BY DEF LogInv, LogTyped
<1>4. Identified'
  BY <1>2, <1>3, SameIdentities
<1>5. ASSUME NEW k \in Loggers, k # l PROVE Buffered(k)' /\ Recorded(k)'
  BY <1>2, <1>5, OthersKept
<1>6. Buffered(l)'
  <2>1. Buffered(l) /\ Len(<<>>) = 0 /\ total[l] \in Nat
    BY DEF LogInv, LogTyped
  <2>2. place \in {"idle", "gone"} => filled[l] = <<>> /\ total[l] = 0
    BY <2>1 DEF Buffered
  <2>3. QED
    BY <1>3, <2>1, <2>2 DEF Buffered
<1>7. Recorded(l)'
  <2>1. Recorded(l)
    BY DEF LogInv
  <2>2. ToWrite(l)' = ToWrite(l) /\ Logged(l)' = Logged(l)
    BY DEF ToWrite, Logged, Records
  <2>3. QED
    BY <2>1, <2>2 DEF Recorded
<1>8. QED
  BY <1>1, <1>4, <1>5, <1>6, <1>7 DEF LogInv

LEMMA LogNext == LogsKnown /\ LogInv /\ [LogsNext]_logsVars => LogInv'
<1> SUFFICES ASSUME LogsKnown, LogInv, [LogsNext]_logsVars PROVE LogInv'
  OBVIOUS
<1>1. ASSUME UNCHANGED <<created, destroyed, id, files, filled, total, doing,
                         logged>>
      PROVE  LogInv'
  <2>1. LogTyped'
    BY <1>1 DEF LogInv, LogTyped
  <2>2. Identified'
    BY <1>1, SameIdentities
  <2>3. ASSUME NEW k \in Loggers PROVE Buffered(k)' /\ Recorded(k)'
    BY <1>1, OthersKept
  <2>4. QED
    BY <2>1, <2>2, <2>3 DEF LogInv
<1>2. ASSUME NEW l \in Loggers, Construct(l) PROVE LogInv'
  BY <1>2, ConstructLogs
<1>3. ASSUME NEW l \in Loggers, Log(l) PROVE LogInv'
  BY <1>3, LogLogs
<1>4. ASSUME NEW l \in Loggers, FlushWrites(l) PROVE LogInv'
  BY <1>4, FlushLogs
<1>5. ASSUME NEW l \in Loggers, Flushed(l) PROVE LogInv'
  <2>1. /\ doing[l] = "flush" /\ filled[l] = <<>>
        /\ doing' = [doing EXCEPT ![l] = "idle"]
        /\ UNCHANGED <<created, destroyed, id, files, filled, total, logged>>
    BY <1>5 DEF Flushed, Goto, library
  <2>2. "idle" \in Doings \ {"unborn"} /\ destroyed' \in Nat
    BY <2>1 DEF Doings, LogInv, LogTyped
  <2>3. QED
    BY <2>1, <2>2, MoveLogs
<1>6. ASSUME NEW l \in Loggers, Destruct(l) PROVE LogInv'
  <2>1. /\ doing[l] = "idle"
        /\ doing' = [doing EXCEPT ![l] = "destructor"]
        /\ UNCHANGED <<created, destroyed, id, files, filled, total, logged>>
    BY <1>6 DEF Destruct, Goto, library
  <2>2. "destructor" \in Doings \ {"unborn"} /\ destroyed' \in Nat
    BY <2>1 DEF Doings, LogInv, LogTyped
  <2>3. QED
    BY <2>1, <2>2, MoveLogs
<1>7. ASSUME NEW l \in Loggers, Destroyed(l) PROVE LogInv'
  <2>1. /\ doing[l] = "destructor" /\ filled[l] = <<>>
        /\ doing' = [doing EXCEPT ![l] = "gone"]
        /\ destroyed' = destroyed + 1
        /\ UNCHANGED <<created, id, filled, total, logged>>
        /\ files' = files \/ files' = [i \in {} |-> <<>>]
    BY <1>7 DEF Destroyed, Goto
  <2>2. "gone" \in Doings \ {"unborn"} /\ destroyed' \in Nat
    BY <2>1 DEF Doings, LogInv, LogTyped
  <2>3. /\ DOMAIN files' \subseteq DOMAIN files
        /\ \A i \in DOMAIN files' : files'[i] = files[i]
    BY <2>1
  <2>4. QED
    BY <2>1, <2>2, <2>3, MoveLogs
<1>8. ASSUME NEW l \in Loggers, WriteFails(l) PROVE LogInv'
  BY <1>1, <1>8 DEF WriteFails, library
<1>9. CASE Kill
  BY <1>1, <1>9 DEF Kill, library
<1>10. CASE Over \/ UNCHANGED logsVars
  BY <1>1, <1>10 DEF Over, logsVars, library
<1>11. QED
  BY <1>2, <1>3, <1>4, <1>5, <1>6, <1>7, <1>8, <1>9, <1>10 DEF LogsNext

LEMMA LogAlways == LogsKnown /\ LogsSpec => []LogInv
<1> SUFFICES ASSUME LogsKnown PROVE LogsSpec => []LogInv
  OBVIOUS
<1>1. LogsInit => LogInv
  BY LogInit
<1>2. LogInv /\ [LogsNext]_logsVars => LogInv'
  BY LogNext
<1>3. QED
  BY <1>1, <1>2, PTL DEF LogsSpec

\* Wherever the process is killed or thrown out, a log's file and what flush
\* has still to write of its buffer are the records logged, whole and in
\* order, and the buffer never overflows (logging.cpp, log and flush).
THEOREM LogsKept == LogsSpec => []NothingLost
<1>1. LogInv => NothingLost
  <2> SUFFICES ASSUME LogInv, NEW l \in Loggers, id[l] \in DOMAIN files
               PROVE  /\ Len(filled[l]) <= BufferSize
                      /\ files[id[l]]
                           \o SubSeq(filled[l], total[l] + 1, Len(filled[l]))
                           = FlattenSeq([n \in 1 .. logged[l] |->
                                            RecordBytes(n, RecordSize(l))])
    BY DEF NothingLost
  <2>1. Buffered(l) /\ Recorded(l)
    BY DEF LogInv
  <2>2. QED
    BY <2>1 DEF Buffered, Recorded, ToWrite, Logged, Records
<1>2. QED
  BY <1>1, LogAlways, LogsAssumption, PTL

-----------------------------------------------------------------------------
(* The archive, and what is read from it.                                  *)

\* Where n records of w bytes end.
LEMMA Products ==
  ASSUME NEW n \in Nat, NEW w \in Nat, w > 0
  PROVE  /\ n * w \in Nat /\ (n + 1) * w = n * w + w
         /\ n >= 1 => (n - 1) * w \in Nat /\ (n - 1) * w + w = n * w
         /\ \A m \in 1 .. n : m * w \in Nat /\ m * w <= n * w
         /\ (n * w) % w = 0 /\ (n * w) \div w = n
<1>1. n * w \in Nat /\ (n + 1) * w = n * w + w
  OBVIOUS
<1>2. n >= 1 => (n - 1) * w \in Nat /\ (n - 1) * w + w = n * w
  OBVIOUS
<1>3. ASSUME NEW m \in 1 .. n PROVE m * w \in Nat /\ m * w <= n * w
  OBVIOUS
<1>4. (n * w) % w = 0 /\ (n * w) \div w = n
  OBVIOUS
<1>5. QED
  BY <1>1, <1>2, <1>3, <1>4

\* Records put together come apart where their width says.
Readable(l, N) ==
    LET w == RecordSize(l)
        bytes == FlattenSeq(Records(l, N))
    IN  /\ Len(bytes) = N * w
        /\ \A n \in 1 .. N :
               SubSeq(bytes, (n - 1) * w + 1, n * w) = RecordBytes(n, w)

LEMMA RecordsReadable ==
  ASSUME LogsKnown, NEW l \in Loggers
  PROVE  \A N \in Nat : Readable(l, N)
<1> DEFINE P == {N \in Nat : Readable(l, N)}
           w == RecordSize(l)
<1>1. w \in Nat /\ w > 0
  BY LogConstants
<1>2. 0 \in P
  <2>1. FlattenSeq(Records(l, 0)) = <<>> /\ Len(<<>>) = 0 /\ 0 * w = 0
    BY <1>1, NothingLogged
  <2>2. QED
    BY <2>1 DEF Readable
<1>3. ASSUME NEW N \in Nat, N \in P PROVE N + 1 \in P
  <2> DEFINE s == FlattenSeq(Records(l, N))
             t == RecordBytes(N + 1, w)
  <2>1. s \in Contents /\ FlattenSeq(Records(l, N + 1)) = s \o t
    BY <1>1, RecordsMore
  <2>2. t \in Contents /\ Len(t) = w
    BY <1>1, RecordType
  <2>3. /\ Len(s) = N * w
        /\ \A n \in 1 .. N :
               SubSeq(s, (n - 1) * w + 1, n * w) = RecordBytes(n, w)
    BY <1>3 DEF Readable
  <2> HIDE DEF s, w
  <2>4. /\ N * w \in Nat /\ (N + 1) * w = N * w + w
        /\ \A n \in 1 .. N : n * w \in Nat /\ n * w <= N * w
    BY <1>1, Products
  <2>5. Len(s \o t) = (N + 1) * w
    BY <2>1, <2>2, <2>3, <2>4, PutTogether
  <2>6. ASSUME NEW n \in 1 .. N
        PROVE  SubSeq(s \o t, (n - 1) * w + 1, n * w) = RecordBytes(n, w)
    <3> DEFINE m == (n - 1) * w
               e == n * w
    <3>1. m \in Nat /\ m + w = e /\ e \in Nat /\ e <= Len(s)
      BY <1>1, <2>3, <2>4, Products
    <3> HIDE DEF m, e
    <3>2. m + 1 \in 1 .. Len(s) /\ e \in m + 1 .. Len(s) /\ e \in 1 .. Len(s)
      BY <1>1, <2>3, <2>4, <3>1
    <3>3. SubSeq(s \o t, m + 1, e) = SubSeq(s, m + 1, e)
      BY <2>1, <2>2, <3>2, SubSeqOfConcat1 DEF Contents, StringsOf
    <3>4. QED
      BY <2>3, <3>3 DEF m, e
  <2>7. SubSeq(s \o t, N * w + 1, (N + 1) * w) = t
    <3> DEFINE m == N * w
    <3>1. m \in Nat /\ Len(s) = m /\ (N + 1) * w = m + w
      BY <2>3, <2>4
    <3> HIDE DEF m
    <3>2. /\ m + 1 \in Len(s) + 1 .. Len(s) + Len(t)
          /\ m + w \in m + 1 .. Len(s) + Len(t)
          /\ m + w \in Len(s) + 1 .. Len(s) + Len(t)
          /\ (m + 1) - Len(s) = 1 /\ (m + w) - Len(s) = Len(t)
      BY <1>1, <2>2, <3>1
    <3> HIDE DEF t
    <3>0. s \in Seq(Marks) /\ t \in Seq(Marks)
      BY <2>1, <2>2 DEF Contents, StringsOf
    <3>3. SubSeq(s \o t, m + 1, m + w) = SubSeq(t, 1, Len(t))
      <4> DEFINE d == m + 1
                 e == m + w
      <4>1. d \in Len(s) + 1 .. Len(s) + Len(t)
            /\ e \in Len(s) + 1 .. Len(s) + Len(t)
        BY <3>2
      <4>2. d - Len(s) = 1 /\ e - Len(s) = Len(t)
        BY <3>2
      <4> HIDE DEF d, e
      <4>3. SubSeq(s \o t, d, e) = SubSeq(t, d - Len(s), e - Len(s))
        BY <3>0, <4>1, SubSeqOfConcat2, Zenon
      <4>4. QED
        BY <4>2, <4>3 DEF d, e
    <3>4. SubSeq(t, 1, Len(t)) = t
      BY <2>2, SubSeqFull DEF Contents, StringsOf
    <3>5. QED
      BY <3>1, <3>2, <3>3, <3>4 DEF m
  <2>8. ASSUME NEW n \in 1 .. N + 1
        PROVE  SubSeq(s \o t, (n - 1) * w + 1, n * w) = RecordBytes(n, w)
    <3>1. ASSUME n \in 1 .. N
          PROVE  SubSeq(s \o t, (n - 1) * w + 1, n * w) = RecordBytes(n, w)
      BY <2>6, <3>1
    <3>2. ASSUME n = N + 1
          PROVE  SubSeq(s \o t, (n - 1) * w + 1, n * w) = RecordBytes(n, w)
      <4>1. n - 1 = N
        BY <3>2
      <4>2. QED
        BY <2>7, <3>2, <4>1
    <3>3. n \in 1 .. N \/ n = N + 1
      OBVIOUS
    <3>4. QED
      BY <3>1, <3>2, <3>3
  <2> HIDE DEF t
  <2>9. Readable(l, N + 1)
    BY <2>1, <2>5, <2>8, Zenon DEF Readable, w
  <2>10. QED
    BY <2>9
<1> HIDE DEF P
<1>4. \A N \in Nat : N \in P
  BY <1>2, <1>3, Induction
<1>5. QED
  BY <1>4 DEF P


\* How the process goes: main begins when the globals are constructed, and
\* they are destroyed when it is over, after the loggers of main.
Gone == {l \in Loggers : doing[l] = "gone"}
Leaving(l) == doing[l] \in {"destructor", "gone"}
Ended == \A s \in Static : doing[s] = "gone"

Turns ==
    /\ destroyed = Cardinality(Gone)
    /\ \A l \in Loggers : Leaving(l) =>
           /\ Static \subseteq Born
           /\ l \in Static =>
                  \A d \in Dynamic : doing[d] \in {"unborn", "gone"}

\* What the map says of the loggers.
Entries == [name : Loggers, id : Nat, size : Nat]
EntryOf(l) == [name |-> l, id |-> id[l], size |-> Size[l]]
MapOf(m) ==
    /\ m \in Seq(Entries) /\ Len(m) = created
    /\ \A i \in 1 .. created : m[i].name \in Born /\ id[m[i].name] = i - 1
    /\ \A l \in Born : m[id[l] + 1] = EntryOf(l)

\* The directory while the process runs, and the archive at its end.
Archives ==
    IF Ended
    THEN /\ Len(archive) = 1 /\ MapOf(archive[1].map)
         /\ DOMAIN archive[1].data = 0 .. created - 1
         /\ \A l \in Born : archive[1].data[id[l]] = Logged(l)
    ELSE /\ archive = <<>> /\ DOMAIN files = 0 .. created - 1
         /\ MapOf(map)

ArchiveInv == Turns /\ Archives

LEMMA Globals ==
  ASSUME LogsKnown
  PROVE  /\ Static # {} /\ Static \subseteq Loggers
         /\ Dynamic \subseteq Loggers
         /\ \A l \in Loggers : l \in Static <=> l \notin Dynamic
  BY DEF LogsKnown, Loggers

\* The counters agree before the first logger and after the last.
LastGone ==
    /\ IsFiniteSet(Gone) /\ Gone \subseteq Born
    /\ destroyed = created <=> Born = {} \/ Ended
    /\ Ended => \A l \in Loggers : doing[l] \in {"unborn", "gone"}

LEMMA LastIsGone == LogsKnown /\ LogInv /\ Turns => LastGone
<1> SUFFICES ASSUME LogsKnown, LogInv, Turns PROVE LastGone
  OBVIOUS
<1>1. Gone \subseteq Born /\ Born \subseteq Loggers
  BY DEF Gone, Born
<1>2. IsFiniteSet(Born) /\ Cardinality(Born) = created
  BY BornFinite DEF LogInv, Identified
<1>3. /\ IsFiniteSet(Gone)
      /\ Cardinality(Born) = Cardinality(Gone) => Born = Gone
  BY <1>1, <1>2, FS_Subset
<1>4. destroyed = created <=> Born = Gone
  BY <1>2, <1>3 DEF Turns
<1>5. Static # {} /\ Static \subseteq Loggers
      /\ \A l \in Loggers : l \in Static \/ l \in Dynamic
  BY Globals DEF Loggers
<1>6. ASSUME Ended PROVE \A l \in Loggers : doing[l] \in {"unborn", "gone"}
  <2>1. PICK s \in Static : doing[s] = "gone"
    BY <1>5, <1>6 DEF Ended
  <2>2. \A d \in Dynamic : doing[d] \in {"unborn", "gone"}
    BY <1>5, <2>1 DEF Turns, Leaving
  <2>3. QED
    BY <1>5, <1>6, <2>2 DEF Ended
<1>7. Ended => Born = Gone
  BY <1>6 DEF Born, Gone
<1>8. ASSUME Born = Gone, Born # {} PROVE Ended
  <2>1. PICK l \in Loggers : doing[l] = "gone"
    BY <1>8 DEF Gone
  <2>2. Static \subseteq Gone
    BY <1>8, <2>1 DEF Turns, Leaving
  <2>3. QED
    BY <2>2 DEF Gone, Ended
<1>9. Born = {} => Born = Gone
  BY <1>1
<1>10. QED
  BY <1>1, <1>3, <1>4, <1>6, <1>7, <1>8, <1>9 DEF LastGone

LEMMA LastIsGoneAfter == LogsKnown /\ LogInv' /\ Turns' => LastGone'
<1>1. (LogsKnown /\ LogInv /\ Turns => LastGone)'
  BY LastIsGone, PTL
<1>2. LogsKnown' <=> LogsKnown
  BY DEF LogsKnown, Loggers, RecordSize
<1>3. QED
  BY <1>1, <1>2

LEMMA ArchiveInit == LogsKnown /\ LogsInit => ArchiveInv
<1> SUFFICES ASSUME LogsKnown, LogsInit PROVE ArchiveInv
  OBVIOUS
<1>1. /\ created = 0 /\ destroyed = 0 /\ map = <<>> /\ archive = <<>>
      /\ DOMAIN files = {} /\ doing = [l \in Loggers |-> "unborn"]
  BY DEF LogsInit
<1>2. Gone = {} /\ Born = {} /\ \A l \in Loggers : ~Leaving(l)
  BY <1>1 DEF Gone, Born, Leaving
<1>3. Turns
  BY <1>1, <1>2, FS_EmptySet DEF Turns
<1>4. ~Ended
  BY <1>1, Globals DEF Ended
<1>5. MapOf(map)
  <2>1. <<>> \in Seq(Entries) /\ Len(<<>>) = 0
    BY EmptySeq
  <2>2. QED
    BY <1>1, <1>2, <2>1 DEF MapOf
<1>6. QED
  BY <1>1, <1>3, <1>4, <1>5 DEF ArchiveInv, Archives

\* What a step may change while the process goes on.
LEMMA SameArchive ==
  ASSUME ArchiveInv, ~Ended, ~Ended', Born' = Born,
         UNCHANGED <<created, id, map, archive>>, DOMAIN files' = DOMAIN files
  PROVE  Archives'
<1>1. archive = <<>> /\ DOMAIN files = 0 .. created - 1 /\ MapOf(map)
  BY DEF ArchiveInv, Archives
<1>2. MapOf(map)'
  BY <1>1 DEF MapOf, EntryOf
<1>3. QED
  BY <1>1, <1>2 DEF Archives

\* A logger at work, or one that begins to go in its turn.
LEMMA AtWork ==
  ASSUME LogsKnown, LogInv, ArchiveInv, NEW l \in Loggers,
         NEW place \in {"idle", "flush", "destructor"},
         doing[l] \notin {"unborn", "gone"},
         doing' = [doing EXCEPT ![l] = place],
         place = "destructor" => \/ doing[l] = "destructor"
                                 \/ /\ Static \subseteq Born
                                    /\ l \in Static => \A d \in Dynamic :
                                           doing[d] \in {"unborn", "gone"},
         UNCHANGED <<created, destroyed, id, map, archive>>,
         DOMAIN files' = DOMAIN files
  PROVE  ArchiveInv'
<1>1. /\ doing'[l] = place
      /\ \A k \in Loggers : k # l => doing'[k] = doing[k]
  BY DEF LogInv, LogTyped
<1>2. Gone' = Gone /\ Born' = Born
  BY <1>1 DEF Gone, Born
<1>3. ~Ended /\ ~Ended'
  <2>1. ~Ended
    BY LastIsGone DEF ArchiveInv, LastGone
  <2>2. Ended <=> Static \subseteq Gone
    BY Globals DEF Ended, Gone
  <2>3. Ended' <=> Static \subseteq Gone'
    BY Globals DEF Ended, Gone
  <2>4. QED
    BY <1>2, <2>1, <2>2, <2>3
<1>4. Turns'
  <2>1. ASSUME NEW k \in Loggers, Leaving(k)'
        PROVE  /\ Static \subseteq Born
               /\ k \in Static =>
                      \A d \in Dynamic : doing[d] \in {"unborn", "gone"}
    <3>1. Leaving(k) \/ (k = l /\ place = "destructor")
      BY <1>1, <2>1 DEF Leaving
    <3>2. CASE Leaving(k)
      BY <3>2 DEF ArchiveInv, Turns
    <3>3. CASE k = l /\ place = "destructor" /\ ~Leaving(k)
      BY <3>3 DEF Leaving
    <3>4. QED
      BY <3>1, <3>2, <3>3
  <2>2. ASSUME NEW d \in Dynamic, doing[d] \in {"unborn", "gone"}
        PROVE  doing'[d] = doing[d]
    BY <1>1, <2>2, Globals
  <2>3. destroyed' = Cardinality(Gone')
    BY <1>2 DEF ArchiveInv, Turns
  <2>4. QED
    BY <1>2, <2>1, <2>2, <2>3 DEF Turns
<1>5. QED
  BY <1>2, <1>3, <1>4, SameArchive DEF ArchiveInv

LEMMA ConstructArchives ==
  ASSUME LogsKnown, LogInv, ArchiveInv, NEW l \in Loggers,
         Construct(l)
  PROVE  ArchiveInv'
<1>1. /\ doing[l] = "unborn" /\ l \notin Born
      /\ l \in Dynamic => \A s \in Static : doing[s] \in {"idle", "flush"}
      /\ doing' = [doing EXCEPT ![l] = "idle"]
      /\ id' = [id EXCEPT ![l] = created] /\ created' = created + 1
      /\ map' = Append(MapSoFar,
                       [name |-> l, id |-> created, size |-> Size[l]])
      /\ DOMAIN files' = DOMAIN FilesSoFar \cup {created}
      /\ UNCHANGED <<destroyed, archive>>
  BY DEF Construct, Goto, WriteMap, Born
<1>2. /\ doing'[l] = "idle" /\ id'[l] = created /\ created \in Nat
      /\ \A k \in Loggers : k # l => doing'[k] = doing[k] /\ id'[k] = id[k]
  BY <1>1 DEF LogInv, LogTyped
<1>3. Gone' = Gone /\ Born' = Born \cup {l}
  BY <1>1, <1>2 DEF Gone, Born
<1>4. ~Ended /\ ~Ended'
  <2>1. PICK s \in Static : doing[s] # "gone" /\ doing'[s] # "gone"
    <3>1. CASE l \in Static
      BY <1>1, <1>2, <3>1
    <3>2. CASE l \in Dynamic
      BY <1>1, <1>2, <3>2, Globals
    <3>3. QED
      BY <3>1, <3>2, Globals
  <2>2. QED
    BY <2>1 DEF Ended
<1>5. Turns'
  <2>1. ASSUME NEW k \in Loggers, Leaving(k)'
        PROVE  /\ Static \subseteq Born
               /\ k \in Static =>
                      \A d \in Dynamic : doing'[d] \in {"unborn", "gone"}
    <3>1. k # l /\ Leaving(k)
      BY <1>2, <2>1 DEF Leaving
    <3>2. /\ Static \subseteq Born
          /\ k \in Static => \A d \in Dynamic : doing[d] \in {"unborn", "gone"}
      BY <3>1 DEF ArchiveInv, Turns
    <3>3. l \in Dynamic
      BY <1>1, <3>2, Globals
    <3>4. k \notin Static
      BY <1>1, <3>1, <3>3 DEF Leaving
    <3>5. QED
      BY <3>2, <3>4
  <2>2. QED
    BY <1>1, <1>3, <2>1 DEF ArchiveInv, Turns
<1>6. /\ archive = <<>> /\ DOMAIN files = 0 .. created - 1 /\ MapOf(map)
  BY <1>4 DEF ArchiveInv, Archives
<1>7. MapSoFar = map /\ DOMAIN FilesSoFar = DOMAIN files
  <2>1. CASE NewDirectory
    <3>1. Born = {}
      BY <1>4, <2>1, LastIsGone DEF ArchiveInv, LastGone, NewDirectory
    <3>2. created = 0
      BY <3>1, FS_EmptySet DEF LogInv, Identified
    <3>3. map = <<>>
      BY <1>6, <3>2, EmptySeq DEF MapOf
    <3>4. DOMAIN files = {}
      BY <1>6, <3>2
    <3>5. QED
      BY <2>1, <3>3, <3>4 DEF MapSoFar, FilesSoFar
  <2>2. CASE ~NewDirectory
    BY <2>2 DEF MapSoFar, FilesSoFar
  <2>3. QED
    BY <2>1, <2>2
<1>8. DOMAIN files' = 0 .. created' - 1
  BY <1>1, <1>2, <1>6, <1>7
<1>9. MapOf(map)'
  <2> DEFINE entry == [name |-> l, id |-> created, size |-> Size[l]]
  <2>1. entry \in Entries
    BY <1>2 DEF Entries, LogsKnown
  <2>2. map \in Seq(Entries) /\ Len(map) = created
    BY <1>6 DEF MapOf
  <2>3. map' = Append(map, entry)
    BY <1>1, <1>7
  <2>4. entry.name = l /\ entry = EntryOf(l)'
    BY <1>2 DEF EntryOf
  <2> HIDE DEF entry
  <2>5. /\ map' \in Seq(Entries) /\ Len(map') = created + 1
        /\ \A i \in 1 .. created : map'[i] = map[i]
        /\ map'[created + 1] = entry
    BY <2>1, <2>2, <2>3, AppendProperties
  <2>6. ASSUME NEW i \in 1 .. created'
        PROVE  map'[i].name \in Born' /\ id'[map'[i].name] = i - 1
    <3>1. CASE i \in 1 .. created
      <4>1. map[i].name \in Born /\ id[map[i].name] = i - 1
        BY <1>6, <3>1 DEF MapOf
      <4>2. map[i].name \in Loggers /\ map[i].name # l
        BY <1>1, <4>1 DEF Born
      <4>3. QED
        BY <1>2, <1>3, <2>5, <3>1, <4>1, <4>2
    <3>2. CASE i = created + 1
      BY <1>2, <1>3, <2>4, <2>5, <3>2
    <3>3. i \in 1 .. created \/ i = created + 1
      BY <1>1, <1>2
    <3>4. QED
      BY <3>1, <3>2, <3>3
  <2>7. ASSUME NEW k \in Born' PROVE map'[id'[k] + 1] = EntryOf(k)'
    <3>1. CASE k = l
      BY <1>2, <2>4, <2>5, <3>1
    <3>2. CASE k # l
      <4>1. k \in Born /\ k \in Loggers /\ id'[k] = id[k]
        BY <1>2, <1>3, <3>2 DEF Born
      <4>2. id[k] \in Nat /\ id[k] < created
        BY <4>1 DEF LogInv, LogTyped, Identified
      <4>3. id[k] + 1 \in 1 .. created
        BY <1>2, <4>2
      <4>4. map[id[k] + 1] = EntryOf(k) /\ EntryOf(k)' = EntryOf(k)
        BY <1>6, <4>1 DEF MapOf, EntryOf
      <4>5. QED
        BY <2>5, <4>1, <4>3, <4>4
    <3>3. QED
      BY <3>1, <3>2
  <2>8. Len(map') = created'
    BY <1>1, <2>5
  <2>9. QED
    BY <2>5, <2>6, <2>7, <2>8 DEF MapOf, Entries
<1>10. QED
  BY <1>1, <1>4, <1>5, <1>6, <1>8, <1>9 DEF ArchiveInv, Archives

\* The last destructor archives what all of them have written.
LEMMA DestroyedArchives ==
  ASSUME LogsKnown, LogInv, LogInv', ArchiveInv, NEW l \in Loggers,
         Destroyed(l)
  PROVE  ArchiveInv'
<1>1. /\ doing[l] = "destructor" /\ filled[l] = <<>>
      /\ doing' = [doing EXCEPT ![l] = "gone"]
      /\ destroyed' = destroyed + 1
      /\ IF destroyed' # created
         THEN UNCHANGED <<files, archive>>
         ELSE archive' = Append(archive, Archived)
      /\ UNCHANGED <<created, id, map, filled, total, logged>>
  BY DEF Destroyed, Goto
<1>2. /\ doing'[l] = "gone"
      /\ \A k \in Loggers : k # l => doing'[k] = doing[k]
  BY <1>1 DEF LogInv, LogTyped
<1>3. Gone' = Gone \cup {l} /\ l \notin Gone /\ Born' = Born /\ l \in Born
  BY <1>1, <1>2 DEF Gone, Born
<1>4. ~Ended /\ IsFiniteSet(Gone)
  BY <1>1, LastIsGone DEF ArchiveInv, LastGone
<1>5. Turns'
  <2>1. destroyed' = Cardinality(Gone')
    BY <1>1, <1>3, <1>4, FS_AddElement DEF ArchiveInv, Turns
  <2>2. ASSUME NEW k \in Loggers, Leaving(k)'
        PROVE  /\ Static \subseteq Born
               /\ k \in Static =>
                      \A d \in Dynamic : doing'[d] \in {"unborn", "gone"}
    <3>1. Leaving(k)
      BY <1>1, <1>2, <2>2 DEF Leaving
    <3>2. /\ Static \subseteq Born
          /\ k \in Static => \A d \in Dynamic : doing[d] \in {"unborn", "gone"}
      BY <3>1 DEF ArchiveInv, Turns
    <3>3. \A d \in Dynamic : d \in Loggers
      BY Globals
    <3>4. QED
      BY <1>2, <3>2, <3>3
  <2>3. QED
    BY <1>3, <2>1, <2>2 DEF Turns
<1>6. LastGone'
  BY <1>5, LastIsGoneAfter
<1>7. destroyed' = created <=> Ended'
  BY <1>1, <1>3, <1>6 DEF LastGone
<1>8. archive = <<>> /\ DOMAIN files = 0 .. created - 1 /\ MapOf(map)
  BY <1>4 DEF ArchiveInv, Archives
<1>9. CASE ~Ended'
  <2>1. UNCHANGED <<files, archive>>
    BY <1>1, <1>7, <1>9
  <2>2. QED
    BY <1>1, <1>3, <1>4, <1>5, <1>9, <2>1, SameArchive DEF ArchiveInv
<1>10. CASE Ended'
  <2> DEFINE a == Archived
  <2>1. archive' = Append(<<>>, a)
    BY <1>1, <1>7, <1>8, <1>10
  <2>2. a.map = map /\ a.data = [i \in FilesBelow(created) |-> files[i]]
    BY DEF Archived
  <2> HIDE DEF a
  <2>3. Len(archive') = 1 /\ archive'[1] = a
    BY <2>1
  <2>4. FilesBelow(created) = 0 .. created - 1
    <3>1. created \in Nat
      BY DEF LogInv, LogTyped
    <3>2. \A i \in 0 .. created - 1 : \A k \in 0 .. i : k \in 0 .. created - 1
      BY <3>1
    <3>3. QED
      BY <1>8, <3>2 DEF FilesBelow
  <2>5. MapOf(archive[1].map)'
    BY <1>1, <1>3, <1>8, <2>2, <2>3 DEF MapOf, EntryOf
  <2>6. DOMAIN archive'[1].data = 0 .. created' - 1
    BY <1>1, <2>2, <2>3, <2>4
  <2>7. ASSUME NEW k \in Born' PROVE archive'[1].data[id'[k]] = Logged(k)'
    <3>1. k \in Loggers /\ k \in Born /\ id[k] \in 0 .. created - 1
      BY <1>3, <2>7 DEF Born, LogInv, LogTyped, Identified
    <3>2. archive'[1].data[id'[k]] = files[id[k]]
      BY <1>1, <2>2, <2>3, <2>4, <3>1
    <3>3. filled[k] = <<>> /\ total[k] = 0
      <4>1. k = l \/ doing[k] = "gone"
        BY <1>2, <1>6, <1>10, <3>1 DEF LastGone, Born
      <4>2. Buffered(k) /\ Len(<<>>) = 0 /\ total[k] \in Nat
        BY <3>1 DEF LogInv, LogTyped
      <4>3. filled[k] = <<>>
        BY <1>1, <4>1, <4>2 DEF Buffered
      <4>4. QED
        BY <4>2, <4>3 DEF Buffered
    <3>4. ToWrite(k) = <<>>
      <4>1. <<>> \in Contents
        BY MonoidOf DEF Contents
      <4>2. ToWrite(k) = SubSeq(<<>>, 0 + 1, Len(<<>>))
        BY <3>3 DEF ToWrite
      <4>3. QED
        BY <4>1, <4>2, WholeRest DEF Contents
    <3>5. files[id[k]] \o ToWrite(k) = Logged(k) /\ files[id[k]] \in Contents
      BY <1>8, <3>1 DEF LogInv, LogTyped, Recorded
    <3>6. files[id[k]] = Logged(k)
      BY <3>4, <3>5, MonoidOf DEF Contents
    <3>7. Logged(k)' = Logged(k)
      BY <1>1 DEF Logged, Records
    <3>8. QED
      BY <3>2, <3>6, <3>7
  <2>8. QED
    BY <1>5, <1>10, <2>3, <2>5, <2>6, <2>7 DEF ArchiveInv, Archives
<1>11. QED
  BY <1>9, <1>10

LEMMA ArchiveNext ==
  LogsKnown /\ LogInv /\ LogInv' /\ ArchiveInv /\ [LogsNext]_logsVars
    => ArchiveInv'
<1> SUFFICES ASSUME LogsKnown, LogInv, LogInv', ArchiveInv,
                    [LogsNext]_logsVars
             PROVE  ArchiveInv'
  OBVIOUS
<1>1. ASSUME UNCHANGED <<created, destroyed, id, map, archive, files, doing,
                         logged>>
      PROVE  ArchiveInv'
  <2>1. Turns' /\ Born' = Born /\ (Ended' <=> Ended)
    BY <1>1 DEF ArchiveInv, Turns, Gone, Born, Leaving, Ended
  <2>2. CASE ~Ended
    BY <1>1, <2>1, <2>2, SameArchive DEF ArchiveInv
  <2>3. CASE Ended
    <3>1. /\ Len(archive) = 1 /\ MapOf(archive[1].map)
          /\ DOMAIN archive[1].data = 0 .. created - 1
          /\ \A l \in Born : archive[1].data[id[l]] = Logged(l)
      BY <2>3 DEF ArchiveInv, Archives
    <3>2. MapOf(archive[1].map)'
      BY <1>1, <2>1, <3>1 DEF MapOf, EntryOf
    <3>3. \A l : Logged(l)' = Logged(l)
      BY <1>1 DEF Logged, Records
    <3>4. \A l \in Born' : archive'[1].data[id'[l]] = Logged(l)'
      BY <1>1, <2>1, <3>1, <3>3
    <3>5. QED
      BY <1>1, <2>1, <2>3, <3>1, <3>2, <3>4 DEF ArchiveInv, Archives
  <2>4. QED
    BY <2>2, <2>3
<1>2. ASSUME NEW l \in Loggers, Construct(l) PROVE ArchiveInv'
  BY <1>2, ConstructArchives
<1>3. ASSUME NEW l \in Loggers, Log(l) PROVE ArchiveInv'
  <2>1. /\ doing[l] = "idle"
        /\ UNCHANGED <<created, destroyed, id, map, archive, files>>
    BY <1>3 DEF Log, library
  <2>2. PICK place \in {"idle", "flush", "destructor"} :
            doing' = [doing EXCEPT ![l] = place] /\ place # "destructor"
    <3>1. CASE HasRoom(l)
      <4>1. doing' = [doing EXCEPT ![l] = "idle"]
        BY <1>3, <2>1, <3>1 DEF Log, LogInv, LogTyped
      <4>2. QED
        BY <4>1
    <3>2. CASE ~HasRoom(l)
      <4>1. doing' = [doing EXCEPT ![l] = "flush"]
        BY <1>3, <3>2 DEF Log, Goto
      <4>2. QED
        BY <4>1
    <3>3. QED
      BY <3>1, <3>2
  <2>3. QED
    BY <2>1, <2>2, AtWork
<1>4. ASSUME NEW l \in Loggers, FlushWrites(l) PROVE ArchiveInv'
  <2>1. /\ doing[l] \in {"flush", "destructor"}
        /\ UNCHANGED <<created, destroyed, id, map, archive, doing>>
        /\ DOMAIN files' = DOMAIN files
    BY <1>4 DEF FlushWrites, Flushing, library
  <2>2. doing' = [doing EXCEPT ![l] = doing[l]]
    BY <2>1 DEF LogInv, LogTyped
  <2>3. QED
    BY <2>1, <2>2, AtWork
<1>5. ASSUME NEW l \in Loggers, Flushed(l) PROVE ArchiveInv'
  <2>1. /\ doing[l] = "flush" /\ doing' = [doing EXCEPT ![l] = "idle"]
        /\ UNCHANGED <<created, destroyed, id, map, archive, files>>
    BY <1>5 DEF Flushed, Goto, library
  <2>2. QED
    BY <2>1, AtWork
<1>6. ASSUME NEW l \in Loggers, Destruct(l) PROVE ArchiveInv'
  <2>1. /\ doing[l] = "idle" /\ doing' = [doing EXCEPT ![l] = "destructor"]
        /\ UNCHANGED <<created, destroyed, id, map, archive, files>>
        /\ Static \subseteq Born
    BY <1>6, Globals DEF Destruct, Goto, library, Born
  <2>2. l \in Static => \A d \in Dynamic : doing[d] \in {"unborn", "gone"}
    BY <1>6, Globals DEF Destruct, Alive
  <2>3. QED
    BY <2>1, <2>2, AtWork
<1>7. ASSUME NEW l \in Loggers, Destroyed(l) PROVE ArchiveInv'
  BY <1>7, DestroyedArchives
<1>8. ASSUME NEW l \in Loggers, WriteFails(l) PROVE ArchiveInv'
  BY <1>1, <1>8 DEF WriteFails, library
<1>9. CASE Kill
  BY <1>1, <1>9 DEF Kill, library
<1>10. CASE Over \/ UNCHANGED logsVars
  BY <1>1, <1>10 DEF Over, logsVars, library
<1>11. QED
  BY <1>2, <1>3, <1>4, <1>5, <1>6, <1>7, <1>8, <1>9, <1>10 DEF LogsNext

\* The reader finds a logger's last, and only, entry, and cuts its file.
LEMMA ReadsAsLogged ==
  ASSUME LogsKnown, LogInv, ArchiveInv, Ended, NEW l \in Born
  PROVE  Read(archive[1], l) = Records(l, logged[l])
<1> DEFINE a == archive[1]
           places == {i \in DOMAIN a.map : a.map[i].name = l}
           N == logged[l]
           w == RecordSize(l)
           bytes == FlattenSeq(Records(l, N))
<1>1. /\ MapOf(a.map) /\ DOMAIN a.data = 0 .. created - 1
      /\ a.data[id[l]] = bytes
  BY DEF ArchiveInv, Archives, Logged
<1>2. /\ l \in Loggers /\ N \in Nat /\ id[l] \in Nat /\ id[l] < created
      /\ created \in Nat
  BY DEF Born, LogInv, LogTyped, Identified
<1>3. w \in Nat /\ w > 0
  BY <1>2, LogConstants
<1> HIDE DEF a
<1>4. DOMAIN a.map = 1 .. created
  BY <1>1, LenProperties DEF MapOf
<1>5. places = {id[l] + 1}
  <2>1. id[l] + 1 \in places
    <3>1. a.map[id[l] + 1] = EntryOf(l) /\ id[l] + 1 \in 1 .. created
      BY <1>1, <1>2 DEF MapOf
    <3>2. QED
      BY <1>4, <3>1 DEF EntryOf
  <2>2. ASSUME NEW i \in places PROVE i = id[l] + 1
    <3>1. i \in 1 .. created /\ a.map[i].name = l
      BY <1>4, <2>2
    <3>2. id[l] = i - 1
      BY <1>1, <3>1 DEF MapOf
    <3>3. QED
      BY <3>1, <3>2
  <2>3. QED
    BY <2>1, <2>2
<1>6. Max(places) = id[l] + 1
  <2>1. Max({id[l] + 1}) = CHOOSE x \in {id[l] + 1} :
                                 \A y \in {id[l] + 1} : x >= y
    BY Zenon DEF Max
  <2>2. \A y \in {id[l] + 1} : id[l] + 1 >= y
    BY <1>2
  <2>3. QED
    BY <1>5, <2>1, <2>2
<1>7. Entry(a, l) = EntryOf(l)
  <2>1. Entry(a, l) = a.map[Max(places)]
    BY Zenon DEF Entry
  <2>2. QED
    BY <1>1, <1>6, <2>1 DEF MapOf
<1>8. Entry(a, l).id = id[l] /\ TimeSize + Entry(a, l).size = w
  BY <1>7 DEF EntryOf, RecordSize
<1>9. /\ Len(bytes) = N * w
      /\ \A n \in 1 .. N :
             SubSeq(bytes, (n - 1) * w + 1, n * w) = RecordBytes(n, w)
  BY <1>2, RecordsReadable DEF Readable
<1>10. Len(bytes) % w = 0 /\ Len(bytes) \div w = N
  <2> HIDE DEF bytes, w, N
  <2>1. (N * w) % w = 0 /\ (N * w) \div w = N
    BY <1>2, <1>3, Products
  <2>2. QED
    BY <1>9, <2>1, Zenon
<1>11. id[l] \in DOMAIN a.data
  BY <1>1, <1>2
<1> HIDE DEF bytes, w, N, places
<1>12. Read(a, l) = [n \in 1 .. N |-> SubSeq(bytes, (n - 1) * w + 1, n * w)]
  BY <1>1, <1>8, <1>10, <1>11 DEF Read
<1>13. Read(a, l) = [n \in 1 .. N |-> RecordBytes(n, w)]
  BY <1>9, <1>12
<1>14. QED
  BY <1>13 DEF Records, N, w, a

\* A process that ends as it should leaves one archive, from which each
\* logger's records are read back as they were logged: the identities, the
\* map, the files and the widths that the destructor of the last logger
\* packs are those that file.py looks up (logging.cpp and file.py).
THEOREM LogsReadBack == LogsSpec => []ReadBack
<1> USE LogsAssumption
<1>1. LogsInit => ArchiveInv
  BY ArchiveInit
<1>2. LogInv /\ LogInv' /\ ArchiveInv /\ [LogsNext]_logsVars => ArchiveInv'
  BY ArchiveNext
<1>3. LogInv /\ ArchiveInv => ReadBack
  <2> SUFFICES ASSUME LogInv, ArchiveInv, Ended,
                      NEW l \in Loggers, Alive(l) \/ doing[l] = "gone"
               PROVE  /\ Len(archive) = 1
                      /\ Read(archive[1], l) = Records(l, logged[l])
    <3>1. Len(archive) = 1 \/ ~Ended \/ ~ArchiveInv
      BY DEF ArchiveInv, Archives
    <3>2. QED
      BY <3>1 DEF ReadBack, Ended, Records
  <2>1. l \in Born
    BY DEF Alive, Born
  <2>2. QED
    BY <2>1, ReadsAsLogged DEF ArchiveInv, Archives
<1>4. QED
  BY <1>1, <1>2, <1>3, LogAlways, PTL DEF LogsSpec
-----------------------------------------------------------------------------
(* The serial line: frames that writes and reads cut up.                   *)

\* What is on the line: octets, and what the checksum makes of them.
Wired == Octets \cup {Checksum(b) : b \in Seq(Octets)}
Wires == StringsOf(Wired)

LEMMA WiresJoined ==
  ASSUME NEW x \in Wires, NEW y \in Wires
  PROVE  /\ x \o y \in Wires /\ Len(x) \in Nat /\ Len(y) \in Nat
         /\ Len(x \o y) = Len(x) + Len(y)
         /\ \A i \in 1 .. Len(x) : (x \o y)[i] = x[i] /\ x[i] \in Wired
         /\ \A i \in 1 .. Len(y) : (x \o y)[Len(x) + i] = y[i]
<1>1. x \in StringsOf(Wired) /\ y \in StringsOf(Wired)
  BY DEF Wires
<1>2. /\ x \o y \in StringsOf(Wired) /\ Len(x) \in Nat /\ Len(y) \in Nat
      /\ Len(x \o y) = Len(x) + Len(y)
      /\ \A i \in 1 .. Len(x) : (x \o y)[i] = x[i] /\ x[i] \in Wired
      /\ \A i \in 1 .. Len(y) : (x \o y)[Len(x) + i] = y[i]
  BY <1>1, JoinedOf
<1>3. QED
  BY <1>2 DEF Wires

LEMMA WiresEmpty ==
  /\ <<>> \in Wires /\ Len(<<>>) = 0
  /\ \A x \in Wires : x \o <<>> = x /\ <<>> \o x = x
<1>1. <<>> \in Wires /\ \A x \in Wires : x \o <<>> = x /\ <<>> \o x = x
  BY MonoidOf DEF Wires
<1>2. QED
  BY <1>1

LEMMA WiresRegrouped ==
  \A x, y, z \in Wires : x \o (y \o z) = (x \o y) \o z
  BY MonoidOf DEF Wires

LEMMA WiresApart ==
  ASSUME NEW x \in Wires, NEW y \in Wires, NEW u \in Wires, NEW v \in Wires,
         Len(x) = Len(u), x \o y = u \o v
  PROVE  x = u /\ y = v
  BY ApartOf DEF Wires

LEMMA Octal ==
  ASSUME NEW x \in Seq(Octets)
  PROVE  x \in Wires /\ <<Checksum(x)>> \in Wires
<1>1. Octets \subseteq Wired /\ Checksum(x) \in Wired
  BY DEF Wired
<1> HIDE DEF Wired
<1>2. x \in Seq(Wired)
  <2>1. Len(x) \in Nat /\ x = [i \in 1 .. Len(x) |-> x[i]]
        /\ \A i \in 1 .. Len(x) : x[i] \in Octets
    BY LenProperties, ElementOfSeq
  <2>2. \A i \in 1 .. Len(x) : x[i] \in Wired
    BY <1>1, <2>1
  <2>3. [i \in 1 .. Len(x) |-> x[i]] \in Seq(Wired)
    BY <2>1, <2>2, IsASeq
  <2>4. QED
    BY <2>1, <2>3, Zenon
<1>3. <<Checksum(x)>> \in Seq(Wired)
  BY <1>1
<1>4. QED
  BY <1>2, <1>3 DEF Wires, StringsOf

\* The constants.
LEMMA LineConstants ==
  ASSUME LineKnown
  PROVE  /\ Preamble \in Seq(Octets) /\ Preamble \in Wires
         /\ Len(Preamble) \in Nat /\ Len(Preamble) >= 1
         /\ \A c \in Commands : Code[c] \in Octets
         /\ \A c \in Commands : \A d \in Data[c] \cup Answers[c] :
                d \in Seq(Octets) /\ Len(d) \in Octets
         /\ "RC" \in Commands
<1>1. /\ Preamble \in Seq(Octets) /\ Preamble # <<>>
      /\ Code \in [{"RC", "IMU", "ANALOG", "CALIBRATION"} -> Octets]
      /\ \A c \in Commands : \A d \in Data[c] \cup Answers[c] :
             d \in Seq(Octets) /\ FrameLen(Len(d)) <= FrameSpace
  BY DEF LineKnown
<1>2. Len(Preamble) \in Nat /\ Len(Preamble) >= 1
  BY <1>1, EmptySeq, LenProperties
<1>3. ASSUME NEW c \in Commands, NEW d \in Data[c] \cup Answers[c]
      PROVE  d \in Seq(Octets) /\ Len(d) \in Octets
  <2>1. d \in Seq(Octets) /\ FrameLen(Len(d)) <= FrameSpace
    BY <1>1
  <2>2. Len(d) \in Nat
    BY <2>1, LenProperties
  <2>3. Len(Preamble) + 1 + Len(d) + 2 <= 256
    BY <2>1 DEF FrameLen, LengthAt, FrameSpace
  <2> DEFINE n == Len(d)
             k == Len(Preamble)
  <2>4. n \in Nat /\ k \in Nat /\ k >= 1 /\ k + 1 + n + 2 <= 256
    BY <1>2, <2>2, <2>3
  <2> HIDE DEF n, k
  <2>5. n \in 0 .. 255
    BY <2>4
  <2>6. QED
    BY <2>1, <2>5 DEF Octets, n
<1>4. Commands = {"RC", "IMU", "ANALOG", "CALIBRATION"}
  BY <1>1 DEF Commands
<1>5. QED
  BY <1>1, <1>2, <1>3, <1>4, Octal

\* A frame and its bytes.
Top(f) == <<Len(f.data), Code[f.cmd]>>
Body(f) == Top(f) \o f.data
Sum(f) == <<Checksum(Body(f))>>

LEMMA FrameType ==
  ASSUME LineKnown, NEW f \in Frames
  PROVE  /\ f.cmd \in Commands /\ f.data \in Seq(Octets)
         /\ Len(f.data) \in Octets /\ Code[f.cmd] \in Octets
  BY LineConstants DEF Frames

LEMMA FrameOnLine ==
  ASSUME LineKnown, NEW f \in Frames
  PROVE  /\ Top(f) \in Wires /\ Len(Top(f)) = 2 /\ f.data \in Wires
         /\ Body(f) \in Wires /\ Sum(f) \in Wires /\ Len(Sum(f)) = 1
         /\ Len(f.data) \in Nat /\ Len(Body(f)) = Len(f.data) + 2
         /\ FrameBytes[f] \in Wires
         /\ FrameBytes[f] = Preamble \o (Body(f) \o Sum(f))
         /\ Len(FrameBytes[f]) = FrameLen(Len(f.data))
         /\ FrameBytes[f][LengthAt] = Len(f.data)
<1>1. /\ f.data \in Seq(Octets)
      /\ Len(f.data) \in Octets /\ Code[f.cmd] \in Octets
  BY FrameType
<1>2. Top(f) \in Seq(Octets) /\ Len(Top(f)) = 2 /\ Top(f)[1] = Len(f.data)
  BY <1>1 DEF Top
<1>3. Body(f) \in Seq(Octets)
  BY <1>1, <1>2, ConcatProperties DEF Body
<1>4. /\ Top(f) \in Wires /\ f.data \in Wires /\ Body(f) \in Wires
      /\ Sum(f) \in Wires
  BY <1>1, <1>2, <1>3, Octal DEF Sum
<1>5. Len(f.data) \in Nat /\ Len(Body(f)) = Len(f.data) + 2
      /\ Body(f)[1] = Len(f.data)
  <2>1. /\ Len(f.data) \in Nat /\ Len(Top(f)) = 2
        /\ Len(Body(f)) = 2 + Len(f.data)
        /\ \A i \in 1 .. Len(Top(f)) : Body(f)[i] = Top(f)[i]
    <3> DEFINE top == Top(f)
               data == f.data
    <3>1. top \in Wires /\ data \in Wires /\ Len(top) = 2
      BY <1>2, <1>4
    <3> HIDE DEF top, data
    <3>2. /\ Len(data) \in Nat /\ Len(top \o data) = Len(top) + Len(data)
          /\ \A i \in 1 .. Len(top) : (top \o data)[i] = top[i]
      BY <3>1, WiresJoined
    <3>3. QED
      BY <3>1, <3>2 DEF top, data, Body
  <2>2. 1 \in 1 .. Len(Top(f))
    BY <1>2
  <2>3. QED
    BY <1>2, <2>1, <2>2
<1>6. Len(Sum(f)) = 1
  BY DEF Sum
<1> DEFINE rest == Body(f) \o Sum(f)
<1>7. /\ rest \in Wires /\ Len(rest) = Len(f.data) + 3
      /\ rest[1] = Len(f.data)
  <2>1. /\ rest \in Wires /\ Len(rest) = Len(Body(f)) + Len(Sum(f))
        /\ \A i \in 1 .. Len(Body(f)) : rest[i] = Body(f)[i]
    BY <1>4, WiresJoined
  <2>2. 1 \in 1 .. Len(Body(f))
    BY <1>5
  <2>3. QED
    BY <1>5, <1>6, <2>1, <2>2
<1>8. FrameBytes[f] = (Preamble \o Body(f)) \o Sum(f)
  BY DEF FrameBytes, Body, Top, Sum
<1>9. FrameBytes[f] = Preamble \o rest
  <2> DEFINE b == Body(f)
             c == Sum(f)
  <2>1. Preamble \in Wires /\ b \in Wires /\ c \in Wires
    BY <1>4, LineConstants
  <2> HIDE DEF b, c
  <2>2. Preamble \o (b \o c) = (Preamble \o b) \o c
    BY <2>1, WiresRegrouped, Zenon
  <2>3. QED
    BY <1>8, <2>2 DEF b, c
<1> HIDE DEF rest
<1>10. /\ Preamble \o rest \in Wires
       /\ Len(Preamble \o rest) = Len(Preamble) + Len(rest)
       /\ \A i \in 1 .. Len(rest) :
              (Preamble \o rest)[Len(Preamble) + i] = rest[i]
  BY <1>7, LineConstants, WiresJoined
<1>11. 1 \in 1 .. Len(rest)
  BY <1>5, <1>7
<1>12. Len(FrameBytes[f]) = FrameLen(Len(f.data))
  <2>1. Len(FrameBytes[f]) = Len(Preamble) + (Len(f.data) + 3)
    BY <1>7, <1>9, <1>10
  <2>2. Len(Preamble) \in Nat
    BY LineConstants
  <2> DEFINE n == Len(f.data)
             k == Len(Preamble)
  <2>3. n \in Nat /\ k \in Nat /\ Len(FrameBytes[f]) = k + (n + 3)
    BY <1>5, <2>1, <2>2
  <2>4. FrameLen(n) = (k + 1) + n + 2
    BY DEF FrameLen, LengthAt
  <2> HIDE DEF n, k
  <2>5. Len(FrameBytes[f]) = FrameLen(n)
    BY <2>3, <2>4
  <2>6. QED
    BY <2>5 DEF n
<1>13. FrameBytes[f][LengthAt] = Len(f.data)
  BY <1>7, <1>9, <1>10, <1>11 DEF LengthAt
<1>14. QED
  BY <1>2, <1>4, <1>5, <1>6, <1>9, <1>10, <1>12, <1>13 DEF rest

\* The bytes of frames one after the other.
Framed(fs) == [i \in DOMAIN fs |-> FrameBytes[fs[i]]]
Line(fs) == FlattenSeq(Framed(fs))

LEMMA FramedType ==
  ASSUME LineKnown, NEW fs \in Seq(Frames)
  PROVE  /\ Framed(fs) \in TextsOf(Wired) /\ Len(Framed(fs)) = Len(fs)
         /\ Len(fs) \in Nat
         /\ \A i \in 1 .. Len(fs) :
                fs[i] \in Frames /\ Framed(fs)[i] = FrameBytes[fs[i]]
<1>1. /\ Len(fs) \in Nat /\ DOMAIN fs = 1 .. Len(fs)
      /\ \A i \in 1 .. Len(fs) : fs[i] \in Frames
  BY LenProperties, ElementOfSeq
<1> DEFINE bytes(i) == FrameBytes[fs[i]]
<1>2. \A i \in 1 .. Len(fs) : bytes(i) \in StringsOf(Wired)
  BY <1>1, FrameOnLine DEF Wires
<1>3. Framed(fs) = [i \in 1 .. Len(fs) |-> bytes(i)]
  BY <1>1 DEF Framed
<1> HIDE DEF bytes
<1>4. /\ Framed(fs) \in Seq(StringsOf(Wired)) /\ Len(Framed(fs)) = Len(fs)
      /\ \A i \in 1 .. Len(fs) : Framed(fs)[i] = bytes(i)
  BY <1>1, <1>2, <1>3, IsASeq, LenProperties
<1>5. QED
  BY <1>1, <1>4 DEF TextsOf, bytes

LEMMA LineType ==
  ASSUME LineKnown, NEW fs \in Seq(Frames)
  PROVE  Line(fs) \in Wires
  BY FramedType, FlattenTypeOf DEF Line, Wires

LEMMA LineNone == Line(<<>>) = <<>>
<1>1. Framed(<<>>) = <<>>
  BY DEF Framed
<1>2. QED
  BY <1>1, FlattenEmpty DEF Line

\* A frame more is requested.
LEMMA LineMore ==
  ASSUME LineKnown, NEW fs \in Seq(Frames), NEW f \in Frames
  PROVE  /\ Append(fs, f) \in Seq(Frames)
         /\ Len(Append(fs, f)) = Len(fs) + 1 /\ Append(fs, f) # <<>>
         /\ Append(fs, f)[Len(fs) + 1] = f
         /\ Line(Append(fs, f)) = Line(fs) \o FrameBytes[f]
<1> DEFINE gs == Append(fs, f)
<1>1. /\ gs \in Seq(Frames) /\ Len(gs) = Len(fs) + 1 /\ gs # <<>>
      /\ \A i \in 1 .. Len(fs) : gs[i] = fs[i]
      /\ gs[Len(fs) + 1] = f
  BY AppendProperties
<1> HIDE DEF gs
<1>2. /\ Framed(fs) \in TextsOf(Wired) /\ Len(Framed(fs)) = Len(fs)
      /\ Len(fs) \in Nat
      /\ \A i \in 1 .. Len(fs) : Framed(fs)[i] = FrameBytes[fs[i]]
  BY FramedType
<1>3. /\ Framed(gs) \in TextsOf(Wired) /\ Len(Framed(gs)) = Len(fs) + 1
      /\ \A i \in 1 .. Len(fs) + 1 : Framed(gs)[i] = FrameBytes[gs[i]]
  BY <1>1, FramedType
<1>4. FrameBytes[f] \in StringsOf(Wired)
  BY FrameOnLine DEF Wires
<1>5. Framed(gs)[Len(fs) + 1] = FrameBytes[f]
  <2>1. Len(fs) + 1 \in 1 .. Len(fs) + 1
    BY <1>2
  <2>2. QED
    BY <1>1, <1>3, <2>1
<1>6. Extends(Framed(fs), Len(fs), Framed(gs))
  <2>1. ASSUME NEW i \in 1 .. Len(fs) PROVE Framed(gs)[i] = Framed(fs)[i]
    <3>1. i \in 1 .. Len(fs) + 1
      BY <1>2
    <3>2. QED
      BY <1>1, <1>2, <1>3, <3>1
  <2>2. QED
    BY <2>1 DEF Extends
<1>7. FlattenSeq(Framed(gs)) = FlattenSeq(Framed(fs)) \o FrameBytes[f]
  <2> DEFINE s == Framed(fs)
             t == Framed(gs)
             x == FrameBytes[f]
  <2>1. /\ s \in TextsOf(Wired) /\ t \in TextsOf(Wired)
        /\ x \in StringsOf(Wired) /\ Len(t) = Len(s) + 1
        /\ t[Len(s) + 1] = x /\ Extends(s, Len(s), t)
    BY <1>2, <1>3, <1>4, <1>5, <1>6
  <2> HIDE DEF s, t, x
  <2>2. FlattenSeq(t) = FlattenSeq(s) \o x
    BY <2>1, FlattenAppendOf
  <2>3. QED
    BY <2>2 DEF s, t, x
<1>8. QED
  BY <1>1, <1>7 DEF gs, Line

\* The first of them is off the line.
LEMMA LineFirst ==
  ASSUME LineKnown, NEW fs \in Seq(Frames), fs # <<>>
  PROVE  /\ fs[1] \in Frames /\ Tail(fs) \in Seq(Frames)
         /\ Len(Tail(fs)) = Len(fs) - 1
         /\ \A i \in 1 .. Len(fs) - 1 : Tail(fs)[i] = fs[i + 1]
         /\ Line(fs) = FrameBytes[fs[1]] \o Line(Tail(fs))
<1> DEFINE gs == Tail(fs)
<1>1. /\ gs \in Seq(Frames) /\ Len(gs) = Len(fs) - 1
      /\ \A i \in 1 .. Len(fs) - 1 : gs[i] = fs[i + 1]
      /\ Len(fs) \in Nat /\ Len(fs) >= 1
  BY HeadTailProperties, LenProperties, EmptySeq
<1> HIDE DEF gs
<1>2. /\ Framed(fs) \in TextsOf(Wired) /\ Len(Framed(fs)) = Len(fs)
      /\ \A i \in 1 .. Len(fs) :
             fs[i] \in Frames /\ Framed(fs)[i] = FrameBytes[fs[i]]
  BY FramedType
<1>3. /\ Framed(gs) \in TextsOf(Wired) /\ Len(Framed(gs)) = Len(fs) - 1
      /\ \A i \in 1 .. Len(fs) - 1 : Framed(gs)[i] = FrameBytes[gs[i]]
  BY <1>1, FramedType
<1>4. fs[1] \in Frames /\ Framed(fs)[1] = FrameBytes[fs[1]]
  <2>1. 1 \in 1 .. Len(fs)
    BY <1>1
  <2>2. QED
    BY <1>2, <2>1
<1>5. FrameBytes[fs[1]] \in StringsOf(Wired)
  BY <1>4, FrameOnLine DEF Wires
<1>6. Follows(Framed(gs), Len(fs) - 1, Framed(fs))
  <2>1. ASSUME NEW i \in 1 .. Len(fs) - 1
        PROVE  Framed(fs)[i + 1] = Framed(gs)[i]
    <3>1. i + 1 \in 1 .. Len(fs)
      BY <1>1
    <3>2. QED
      BY <1>1, <1>2, <1>3, <3>1
  <2>2. QED
    BY <2>1 DEF Follows
<1>7. FlattenSeq(Framed(fs)) = FrameBytes[fs[1]] \o FlattenSeq(Framed(gs))
  <2> DEFINE s == Framed(gs)
             t == Framed(fs)
             x == FrameBytes[fs[1]]
  <2>1. /\ s \in TextsOf(Wired) /\ t \in TextsOf(Wired)
        /\ x \in StringsOf(Wired) /\ Len(t) = Len(s) + 1
        /\ t[1] = x /\ Follows(s, Len(s), t)
    BY <1>1, <1>2, <1>3, <1>4, <1>5, <1>6
  <2> HIDE DEF s, t, x
  <2>2. FlattenSeq(t) = x \o FlattenSeq(s)
    BY <2>1, FlattenFirstOf
  <2>3. QED
    BY <2>2 DEF s, t, x
<1>8. QED
  BY <1>1, <1>4, <1>7 DEF gs, Line

\* Its length tells where a frame ends.
LEMMA FirstLength ==
  ASSUME LineKnown, NEW fs \in Seq(Frames),
         NEW x \in Wires, NEW y \in Wires,
         x \o y = Line(fs), Len(x) >= LengthAt
  PROVE  fs # <<>> /\ x[LengthAt] = Len(fs[1].data)
<1>1. /\ Len(Preamble) \in Nat /\ LengthAt = Len(Preamble) + 1
  BY LineConstants DEF LengthAt
<1>2. /\ Len(x) \in Nat /\ Len(y) \in Nat /\ Len(x \o y) = Len(x) + Len(y)
      /\ \A i \in 1 .. Len(x) : (x \o y)[i] = x[i]
  BY WiresJoined
<1>3. fs # <<>>
  BY <1>1, <1>2, LineNone, WiresEmpty
<1> DEFINE e == FrameBytes[fs[1]]
           z == Line(Tail(fs))
           n == Len(fs[1].data)
<1>4. /\ e \in Wires /\ z \in Wires /\ x \o y = e \o z
      /\ n \in Nat /\ Len(e) = FrameLen(n) /\ e[LengthAt] = n
  BY <1>3, LineFirst, LineType, FrameOnLine
<1> HIDE DEF e, z, n
<1>5. \A i \in 1 .. Len(e) : (e \o z)[i] = e[i]
  BY <1>4, WiresJoined
<1>6. LengthAt \in 1 .. Len(x) /\ LengthAt \in 1 .. Len(e)
  <2>1. Len(e) = LengthAt + n + 2
    BY <1>4 DEF FrameLen
  <2>2. QED
    BY <1>1, <1>2, <1>4, <2>1
<1>7. x[LengthAt] = n
  BY <1>2, <1>4, <1>5, <1>6
<1>8. QED
  BY <1>3, <1>7 DEF n

LEMMA FirstWhole ==
  ASSUME LineKnown, NEW fs \in Seq(Frames), fs # <<>>,
         NEW x \in Wires, NEW y \in Wires,
         x \o y = Line(fs), Len(x) = FrameLen(Len(fs[1].data))
  PROVE  x = FrameBytes[fs[1]] /\ y = Line(Tail(fs))
<1> DEFINE e == FrameBytes[fs[1]]
           z == Line(Tail(fs))
<1>1. e \in Wires /\ z \in Wires /\ x \o y = e \o z /\ Len(x) = Len(e)
  BY LineFirst, LineType, FrameOnLine
<1> HIDE DEF e, z
<1>2. x = e /\ y = z
  BY <1>1, WiresApart
<1>3. QED
  BY <1>2 DEF e, z

\* A read takes the start of what is there, and leaves the rest.
LEMMA CutWire ==
  ASSUME NEW x \in Wires, NEW n \in Int, n <= Len(x)
  PROVE  /\ SubSeq(x, 1, n) \in Wires
         /\ Len(SubSeq(x, 1, n)) = IF n >= 1 THEN n ELSE 0
         /\ SubSeq(x, Len(SubSeq(x, 1, n)) + 1, Len(x)) \in Wires
         /\ SubSeq(x, 1, n) \o SubSeq(x, Len(SubSeq(x, 1, n)) + 1, Len(x))
              = x
<1>1. Len(x) \in Nat /\ x \in StringsOf(Wired)
  BY LenProperties DEF Wires, StringsOf
<1>2. CASE n >= 1
  <2>1. n \in 1 .. Len(x)
    BY <1>1, <1>2
  <2>2. QED
    BY <1>1, <1>2, <2>1, CutOf DEF Wires
<1>3. CASE ~(n >= 1)
  <2>1. SubSeq(x, 1, n) = <<>>
    BY <1>3, SubSeqEmpty
  <2>2. SubSeq(x, 0 + 1, Len(x)) = x
    BY <1>1, WholeRest
  <2> DEFINE c == SubSeq(x, 1, n)
             d == SubSeq(x, Len(c) + 1, Len(x))
  <2>3. c = <<>> /\ Len(c) = 0
    BY <2>1, WiresEmpty
  <2>4. d = x
    BY <2>2, <2>3
  <2> HIDE DEF c, d
  <2>5. c \in Wires /\ d \in Wires /\ c \o d = x
    BY <2>3, <2>4, WiresEmpty
  <2>6. QED
    BY <1>3, <2>3, <2>5 DEF c, d
<1>4. QED
  BY <1>2, <1>3

LEMMA ReadWire ==
  ASSUME fromBoard \in Wires, NEW n \in Int
  PROVE  /\ Got(n) \in Wires /\ Rest(n) \in Wires
         /\ Got(n) \o Rest(n) = fromBoard
<1> DEFINE k == Min({n, Len(fromBoard)})
<1>1. Len(fromBoard) \in Int
  BY LenProperties DEF Wires, StringsOf
<1>2. k \in {n, Len(fromBoard)} /\ \A y \in {n, Len(fromBoard)} : k <= y
  <2>1. \E x \in {n, Len(fromBoard)} : \A y \in {n, Len(fromBoard)} : x <= y
    <3>1. n <= Len(fromBoard) \/ Len(fromBoard) <= n
      BY <1>1
    <3>2. QED
      BY <1>1, <3>1
  <2>2. k = CHOOSE x \in {n, Len(fromBoard)} :
                \A y \in {n, Len(fromBoard)} : x <= y
    BY Zenon DEF Min
  <2> HIDE DEF k
  <2>3. QED
    BY <2>1, <2>2
<1> HIDE DEF k
<1>3. k \in Int /\ k <= Len(fromBoard)
  BY <1>1, <1>2
<1>4. /\ Got(n) = SubSeq(fromBoard, 1, k)
      /\ Rest(n) = SubSeq(fromBoard, Len(SubSeq(fromBoard, 1, k)) + 1,
                            Len(fromBoard))
  BY Zenon DEF Got, Rest, k
<1>5. /\ SubSeq(fromBoard, 1, k) \in Wires
      /\ SubSeq(fromBoard, Len(SubSeq(fromBoard, 1, k)) + 1, Len(fromBoard))
           \in Wires
      /\ SubSeq(fromBoard, 1, k)
           \o SubSeq(fromBoard, Len(SubSeq(fromBoard, 1, k)) + 1,
                     Len(fromBoard)) = fromBoard
  BY <1>3, CutWire
<1>6. QED
  BY <1>4, <1>5, Zenon

\* The receiving side: what recv has, what is on the line and what the board
\* has still to write are the answers not handed over.
ReceiveTyped ==
    /\ recv \in Wires /\ fromBoard \in Wires /\ answer \in Wires
    /\ todo \in Seq(Commands) /\ answered \in Seq(Frames)
ReceiveInv == ReceiveTyped /\ (recv \o fromBoard) \o answer = Line(answered)

LEMMA ReceiveInit == LineKnown /\ LineInit => ReceiveInv
<1> SUFFICES ASSUME LineKnown, LineInit PROVE ReceiveInv
  OBVIOUS
<1>1. /\ recv = <<>> /\ fromBoard = <<>> /\ answer = <<>> /\ answered = <<>>
      /\ todo = <<"RC", "IMU", "ANALOG">>
  BY DEF LineInit
<1>2. Commands = {"RC", "IMU", "ANALOG", "CALIBRATION"}
  BY DEF Commands, LineKnown
<1>3. todo \in Seq(Commands)
  BY <1>1, <1>2
<1>4. ReceiveTyped
  BY <1>1, <1>3, WiresEmpty, EmptySeq DEF ReceiveTyped
<1>5. (<<>> \o <<>>) \o <<>> = <<>>
  BY WiresEmpty
<1>6. QED
  BY <1>1, <1>4, <1>5, LineNone DEF ReceiveInv

\* recv reads on.
LEMMA ReadsOn ==
  ASSUME LineKnown, ReceiveInv, NEW n \in Int
  PROVE  /\ Rest(n) \in Wires /\ recv \o Got(n) \in Wires
         /\ Rest(n) \o answer \in Wires
         /\ ((recv \o Got(n)) \o Rest(n)) \o answer = Line(answered)
         /\ (recv \o Got(n)) \o (Rest(n) \o answer) = Line(answered)
<1> DEFINE g == Got(n)
           r == Rest(n)
<1>1. /\ recv \in Wires /\ fromBoard \in Wires /\ answer \in Wires
      /\ (recv \o fromBoard) \o answer = Line(answered)
  BY DEF ReceiveInv, ReceiveTyped
<1>2. g \in Wires /\ r \in Wires /\ g \o r = fromBoard
  BY <1>1, ReadWire
<1> HIDE DEF g, r
<1>3. recv \o g \in Wires /\ r \o answer \in Wires
  BY <1>1, <1>2, WiresJoined
<1>4. recv \o (g \o r) = (recv \o g) \o r
  <2>1. recv \in Wires /\ g \in Wires /\ r \in Wires
    BY <1>1, <1>2
  <2>2. QED
    BY <2>1, WiresRegrouped, Zenon
<1>5. ((recv \o g) \o r) \o answer = Line(answered)
  BY <1>1, <1>2, <1>4, Zenon
<1> DEFINE h == recv \o g
<1> HIDE DEF h
<1>6. h \in Wires /\ (h \o r) \o answer = Line(answered)
  BY <1>3, <1>5 DEF h
<1>7. h \o (r \o answer) = (h \o r) \o answer
  <2>1. h \in Wires /\ r \in Wires /\ answer \in Wires
    BY <1>1, <1>2, <1>6
  <2>2. QED
    BY <2>1, WiresRegrouped, Zenon
<1>8. h \o (r \o answer) = Line(answered)
  BY <1>6, <1>7, Zenon
<1>9. QED
  BY <1>2, <1>3, <1>5, <1>8 DEF g, r, h

LEMMA ReadHeaderReceives ==
  ASSUME LineKnown, ReceiveInv, ReadHeader
  PROVE  ReceiveInv'
<1> DEFINE n == HeaderWanted
<1>1. /\ recv' = recv \o Got(n) /\ fromBoard' = Rest(n)
      /\ UNCHANGED <<answer, todo, answered>>
  BY DEF ReadHeader
<1>2. n \in Int
  <2>1. Len(recv) \in Nat /\ Len(Preamble) \in Nat
    BY LineConstants, LenProperties
    DEF ReceiveInv, ReceiveTyped, Wires, StringsOf
  <2>2. QED
    BY <2>1 DEF HeaderWanted, LengthAt
<1> HIDE DEF n
<1>3. /\ Rest(n) \in Wires /\ recv \o Got(n) \in Wires
      /\ ((recv \o Got(n)) \o Rest(n)) \o answer = Line(answered)
  BY <1>2, ReadsOn
<1>4. QED
  BY <1>1, <1>3 DEF ReceiveInv, ReceiveTyped

\* When a frame is complete it is the first that is not handed over.
LEMMA ReadBodyReceives ==
  ASSUME LineKnown, ReceiveInv, ReadRest
  PROVE  ReceiveInv'
<1> DEFINE n == RestWanted
           have == recv \o Got(n)
           rest == Rest(n)
           size == Len(answered[1].data)
<1>1. /\ Len(recv) >= LengthAt /\ fromBoard' = rest
      /\ answer' = answer
      /\ IF Len(have) # ResponseLen(recv[LengthAt])
         THEN recv' = have /\ UNCHANGED <<todo, answered>>
         ELSE /\ recv' = <<>> /\ answered' = Tail(answered)
              /\ Dispatch(have[LengthAt + 1],
                            SubSeq(have, LengthAt + 2, Len(have) - 1))
  BY DEF ReadRest
<1>2. /\ recv \in Wires /\ fromBoard \in Wires /\ answer \in Wires
      /\ todo \in Seq(Commands) /\ answered \in Seq(Frames)
      /\ (recv \o fromBoard) \o answer = Line(answered)
  BY DEF ReceiveInv, ReceiveTyped
<1>3. answered # <<>> /\ recv[LengthAt] = size
  <2>1. recv \o (fromBoard \o answer) = Line(answered)
    <3>1. recv \in Wires /\ fromBoard \in Wires /\ answer \in Wires
      BY <1>2
    <3>2. recv \o (fromBoard \o answer) = (recv \o fromBoard) \o answer
      BY <3>1, WiresRegrouped, Zenon
    <3>3. QED
      BY <1>2, <3>2, Zenon
  <2>2. fromBoard \o answer \in Wires
    BY <1>2, WiresJoined
  <2>3. QED
    BY <1>1, <1>2, <2>1, <2>2, FirstLength
<1>4. size \in Nat
  BY <1>2, <1>3, LineFirst, FrameOnLine
<1>5. n \in Int
  <2>1. Len(recv) \in Nat /\ Len(Preamble) \in Nat
    BY <1>2, LineConstants, LenProperties DEF Wires, StringsOf
  <2>2. n = (LengthAt + recv[LengthAt] + 2) - Len(recv)
    BY Zenon DEF RestWanted, ResponseLen
  <2> HIDE DEF n, size
  <2>3. QED
    BY <1>3, <1>4, <2>1, <2>2 DEF LengthAt
<1>6. /\ rest \in Wires /\ have \in Wires /\ rest \o answer \in Wires
      /\ (have \o rest) \o answer = Line(answered)
      /\ have \o (rest \o answer) = Line(answered)
  <2> HIDE DEF n
  <2>1. QED
    BY <1>5, ReadsOn
<1> HIDE DEF n, have, rest
<1>7. CASE Len(have) # ResponseLen(recv[LengthAt])
  BY <1>1, <1>2, <1>6, <1>7 DEF ReceiveInv, ReceiveTyped
<1>8. CASE Len(have) = ResponseLen(recv[LengthAt])
  <2>1. Len(have) = FrameLen(Len(answered[1].data))
    BY <1>3, <1>8 DEF ResponseLen, FrameLen
  <2>2. rest \o answer = Line(Tail(answered))
    BY <1>2, <1>3, <1>6, <2>1, FirstWhole
  <2>3. Tail(answered) \in Seq(Frames)
    BY <1>2, <1>3, LineFirst
  <2>4. todo' \in Seq(Commands)
    <3> DEFINE code == have[LengthAt + 1]
               data == SubSeq(have, LengthAt + 2, Len(have) - 1)
               c == CHOOSE k \in Commands : Code[k] = code
    <3>1. Dispatch(code, data)
      BY <1>1, <1>8
    <3> HIDE DEF code, data
    <3>2. CASE code \notin {Code[k] : k \in Commands}
      BY <1>2, <3>1, <3>2 DEF Dispatch
    <3>3. CASE code \in {Code[k] : k \in Commands}
      <4>1. todo' = AskAgain(c) /\ c \in Commands
        BY <3>1, <3>3 DEF Dispatch
      <4> HIDE DEF c
      <4>2. AskAgain(c) = <<c>> \/ AskAgain(c) = <<>>
        BY DEF AskAgain
      <4>3. <<c>> \in Seq(Commands) /\ <<>> \in Seq(Commands)
        BY <4>1
      <4>4. QED
        BY <4>1, <4>2, <4>3, Zenon
    <3>4. QED
      BY <3>2, <3>3
  <2>5. <<>> \in Wires /\ <<>> \o rest = rest
    BY <1>6, WiresEmpty
  <2>6. QED
    BY <1>1, <1>2, <1>6, <1>8, <2>2, <2>3, <2>4, <2>5
    DEF ReceiveInv, ReceiveTyped
<1>9. QED
  BY <1>7, <1>8

LEMMA BoardReceives ==
  ASSUME LineKnown, ReceiveInv, BoardAnswers \/ BoardWrites
  PROVE  ReceiveInv'
<1>1. /\ recv \in Wires /\ fromBoard \in Wires /\ answer \in Wires
      /\ todo \in Seq(Commands) /\ answered \in Seq(Frames)
      /\ (recv \o fromBoard) \o answer = Line(answered)
      /\ recv \o fromBoard \in Wires
  BY WiresJoined DEF ReceiveInv, ReceiveTyped
<1>2. CASE BoardAnswers
  <2>1. PICK c \in Commands : \E d \in Answers[c] :
            /\ answer' = FrameBytes[[cmd |-> c, data |-> d]]
            /\ answered' = Append(answered, [cmd |-> c, data |-> d])
    BY <1>2 DEF BoardAnswers
  <2>2. PICK d \in Answers[c] :
            /\ answer' = FrameBytes[[cmd |-> c, data |-> d]]
            /\ answered' = Append(answered, [cmd |-> c, data |-> d])
    BY <2>1
  <2> DEFINE f == [cmd |-> c, data |-> d]
  <2>3. f \in Frames
    BY DEF Frames
  <2>4. answer = <<>> /\ UNCHANGED <<todo, fromBoard, recv>>
    BY <1>2 DEF BoardAnswers
  <2>5. answer' = FrameBytes[f] /\ answered' = Append(answered, f)
    BY <2>2
  <2> HIDE DEF f
  <2>6. /\ answered' \in Seq(Frames) /\ answer' \in Wires
        /\ Line(answered') = Line(answered) \o answer'
    BY <1>1, <2>3, <2>5, LineMore, FrameOnLine
  <2>7. recv \o fromBoard = Line(answered)
    BY <1>1, <2>4, WiresEmpty
  <2>8. QED
    BY <1>1, <2>4, <2>6, <2>7 DEF ReceiveInv, ReceiveTyped
<1>3. CASE BoardWrites
  <2>1. PICK n \in 1 .. Len(answer) :
            /\ fromBoard' = fromBoard \o SubSeq(answer, 1, n)
            /\ answer' = SubSeq(answer, n + 1, Len(answer))
    BY <1>3 DEF BoardWrites
  <2>2. UNCHANGED <<todo, recv, answered>>
    BY <1>3 DEF BoardWrites, receiving
  <2> DEFINE x == SubSeq(answer, 1, n)
             y == SubSeq(answer, n + 1, Len(answer))
  <2>3. x \in Wires /\ y \in Wires /\ x \o y = answer
    BY <1>1, CutOf DEF Wires
  <2>4. fromBoard' = fromBoard \o x /\ answer' = y
    BY <2>1
  <2> HIDE DEF x, y
  <2>5. fromBoard' \in Wires /\ answer' \in Wires
    BY <1>1, <2>3, <2>4, WiresJoined
  <2>6. recv \o (fromBoard \o x) = (recv \o fromBoard) \o x
    <3>1. recv \in Wires /\ fromBoard \in Wires /\ x \in Wires
      BY <1>1, <2>3
    <3>2. QED
      BY <3>1, WiresRegrouped, Zenon
  <2> DEFINE h == recv \o fromBoard
  <2> HIDE DEF h
  <2>7. h \in Wires /\ h \o answer = Line(answered)
    BY <1>1 DEF h
  <2>8. h \o (x \o y) = (h \o x) \o y
    <3>1. h \in Wires /\ x \in Wires /\ y \in Wires
      BY <2>3, <2>7
    <3>2. QED
      BY <3>1, WiresRegrouped, Zenon
  <2>9. (recv' \o fromBoard') \o answer' = Line(answered')
    <3>1. recv' \o fromBoard' = h \o x
      BY <2>2, <2>4, <2>6 DEF h
    <3>2. (h \o x) \o y = Line(answered')
      BY <2>2, <2>3, <2>7, <2>8
    <3>3. QED
      BY <2>4, <3>1, <3>2
  <2>10. QED
    BY <1>1, <2>2, <2>5, <2>9 DEF ReceiveInv, ReceiveTyped
<1>4. QED
  BY <1>2, <1>3

LEMMA ReceiveNext ==
  LineKnown /\ ReceiveInv /\ [LineNext]_lineVars => ReceiveInv'
<1> SUFFICES ASSUME LineKnown, ReceiveInv, [LineNext]_lineVars
             PROVE  ReceiveInv'
  OBVIOUS
<1>1. ASSUME UNCHANGED <<recv, fromBoard, answer, answered>>,
             todo' \in Seq(Commands)
      PROVE  ReceiveInv'
  BY <1>1 DEF ReceiveInv, ReceiveTyped
<1>2. todo \in Seq(Commands)
  BY DEF ReceiveInv, ReceiveTyped
<1>3. CASE Request
  <2>1. /\ todo # <<>> /\ todo' = Tail(todo)
        /\ UNCHANGED <<recv, fromBoard, answer, answered>>
    BY <1>3 DEF Request, receiving
  <2>2. todo' \in Seq(Commands)
    BY <1>2, <2>1, HeadTailProperties
  <2>3. QED
    BY <1>1, <2>1, <2>2
<1>4. CASE Update
  <2>1. /\ todo' = todo \/ todo' = <<"ANALOG">>
        /\ UNCHANGED <<recv, fromBoard, answer, answered>>
    BY <1>4 DEF Update, receiving
  <2>2. "ANALOG" \in Commands
    BY DEF Commands, LineKnown
  <2>3. <<"ANALOG">> \in Seq(Commands)
    BY <2>2
  <2>4. QED
    BY <1>1, <1>2, <2>1, <2>3
<1>5. CASE ReadHeader
  BY <1>5, ReadHeaderReceives
<1>6. CASE ReadRest
  BY <1>6, ReadBodyReceives
<1>7. ASSUME NEW t \in Threads, SendCMD(t) PROVE ReceiveInv'
  <2>1. UNCHANGED <<recv, fromBoard, answer, answered, todo>>
    BY <1>7 DEF SendCMD, FillBuffer, WriteFull, receiving
  <2>2. QED
    BY <1>1, <1>2, <2>1
<1>8. CASE Calibrate
  <2>1. UNCHANGED <<recv, fromBoard, answer, answered, todo>>
    BY <1>8 DEF Calibrate, receiving
  <2>2. QED
    BY <1>1, <1>2, <2>1
<1>9. CASE BoardAnswers \/ BoardWrites
  BY <1>9, BoardReceives
<1>10. CASE Overlap \/ UNCHANGED lineVars
  <2>1. UNCHANGED <<recv, fromBoard, answer, answered, todo>>
    BY <1>10 DEF Overlap, lineVars, receiving
  <2>2. QED
    BY <1>1, <1>2, <2>1
<1>11. QED
  BY <1>3, <1>4, <1>5, <1>6, <1>7, <1>8, <1>9, <1>10
  DEF LineNext, Updater, Controller, Board, Threads

LEMMA ReceiveAlways == LineKnown /\ LineSpec => []ReceiveInv
<1> SUFFICES ASSUME LineKnown PROVE LineSpec => []ReceiveInv
  OBVIOUS
<1>1. LineInit => ReceiveInv
  BY ReceiveInit
<1>2. ReceiveInv /\ [LineNext]_lineVars => ReceiveInv'
  BY ReceiveNext
<1>3. QED
  BY <1>1, <1>2, PTL DEF LineSpec

\* However read(2) cuts up the answers of the board, recv hands over each of
\* them whole, once and in order (MultiWii.cpp, recv; Serial.cpp, read).
THEOREM AnswersWhole == LineSpec => []ReceivedWhole
<1>1. ReceiveInv => ReceivedWhole
  BY Zenon DEF ReceiveInv, ReceivedWhole, Line, Framed
<1>2. QED
  BY <1>1, ReceiveAlways, LineAssumption, PTL

\* The sending side.  The buffer begins with what sendCMD has stored so far,
\* and what a thread has still to write of the last frame requested completes
\* the line.
Places == {"idle", "header", "data", "sum", "write"}
AnyFrame == [cmd : Commands, data : Seq(Octets)]
Works == [at : Places, frame : AnyFrame, written : Nat]
SendTyped ==
    /\ send \in Wires /\ toBoard \in Wires /\ asked \in Seq(Frames)
    /\ work \in [Threads -> Works]

Begins(x) == \E r \in Wires : send = x \o r
Filled(t) ==
    LET f == work[t].frame
    IN  /\ work[t].at # "write" => work[t].written = 0
        /\ work[t].at = "data" => Begins(Top(f))
        /\ work[t].at = "sum" => Begins(Body(f))
        /\ work[t].at = "write" => /\ Begins(Body(f) \o Sum(f))
                                   /\ work[t].written < FrameLen(Len(f.data))

Remains(t) ==
    SubSeq(FrameBytes[work[t].frame], work[t].written + 1,
           Len(FrameBytes[work[t].frame]))
Underway(t) ==
    /\ asked # <<>> /\ work[t].frame = asked[Len(asked)]
    /\ Filled(t) /\ toBoard \o Remains(t) = Line(asked)
    /\ \A u \in Threads : Sends(u) => u = t

SendInv ==
    /\ SendTyped
    /\ ~overlapped =>
           /\ \A t \in Threads : Sends(t) => Underway(t)
           /\ (\A t \in Threads : ~Sends(t)) => toBoard = Line(asked)

LEMMA SendInit == LineKnown /\ LineInit => SendInv
<1> SUFFICES ASSUME LineKnown, LineInit PROVE SendInv
  OBVIOUS
<1>1. /\ send = <<>> /\ toBoard = <<>> /\ asked = <<>>
      /\ work = [t \in Threads |-> Idle]
  BY DEF LineInit
<1>2. Idle \in Works /\ Idle.at = "idle"
  BY LineConstants, EmptySeq DEF Idle, Works, Places, AnyFrame
<1>3. SendTyped
  BY <1>1, <1>2, WiresEmpty, EmptySeq DEF SendTyped
<1>4. \A t \in Threads : ~Sends(t)
  BY <1>1, <1>2 DEF Sends
<1>5. QED
  BY <1>1, <1>3, <1>4, LineNone DEF SendInv

\* A thread enters sendCMD.
LEMMA SendSends ==
  ASSUME LineKnown, SendInv, ~overlapped, NEW t \in Threads,
         NEW f \in Frames, Send(t, f), toBoard' = toBoard
  PROVE  SendInv'
<1>1. /\ work' = [work EXCEPT ![t] = Begin(f)]
      /\ overlapped' = (\E u \in Threads : Sends(u))
      /\ asked' = Append(asked, f) /\ send' = send
  BY Zenon DEF Send
<1>2. /\ send \in Wires /\ toBoard \in Wires /\ asked \in Seq(Frames)
      /\ work \in [Threads -> Works]
  BY DEF SendInv, SendTyped
<1>3. f \in AnyFrame
  BY FrameType DEF AnyFrame, Frames
<1>4. Begin(f) \in Works
  BY <1>3 DEF Begin, Works, Places
<1>5. /\ asked' \in Seq(Frames) /\ asked' # <<>>
      /\ Len(asked') = Len(asked) + 1
      /\ asked'[Len(asked')] = f /\ Line(asked') = Line(asked) \o FrameBytes[f]
  BY <1>1, <1>2, LineMore
<1>6. SendTyped'
  BY <1>1, <1>2, <1>4, <1>5 DEF SendTyped
<1>7. SUFFICES ASSUME ~overlapped'
               PROVE  /\ \A u \in Threads : Sends(u)' => Underway(u)'
                      /\ (\A u \in Threads : ~Sends(u)')
                             => toBoard' = Line(asked')
  BY <1>6 DEF SendInv
<1>8. /\ \A u \in Threads : ~Sends(u)
      /\ toBoard = Line(asked)
  BY <1>1, <1>7 DEF SendInv
<1>9. /\ work'[t] = Begin(f) /\ Sends(t)'
      /\ work'[t].at = "header" /\ work'[t].frame = f /\ work'[t].written = 0
  BY <1>1, <1>2 DEF Begin, Sends
<1>10. \A u \in Threads : Sends(u)' => u = t
  BY <1>1, <1>2, <1>8 DEF Sends
<1>11. Filled(t)'
  BY <1>9 DEF Filled
<1>12. Remains(t)' = FrameBytes[f]
  <2>1. Remains(t)' = SubSeq(FrameBytes[f], 0 + 1, Len(FrameBytes[f]))
    BY <1>9 DEF Remains
  <2>2. FrameBytes[f] \in StringsOf(Wired)
    BY FrameOnLine DEF Wires
  <2>3. QED
    BY <2>1, <2>2, WholeRest
<1>13. Underway(t)'
  BY <1>5, <1>8, <1>9, <1>10, <1>11, <1>12 DEF Underway
<1>14. QED
  BY <1>9, <1>10, <1>13

\* A store into the buffer lengthens what it begins with.
LEMMA PutBegins ==
  ASSUME NEW p \in Wires, NEW r \in Wires, NEW b \in Wires, send = p \o r,
         Len(p) + Len(b) >= 1
  PROVE  /\ Put(Len(p) + 1, b) \in Wires
         /\ \E q \in Wires : Put(Len(p) + 1, b) = (p \o b) \o q
<1> DEFINE k == Len(p) + 1
           n == Len(p) + Len(b)
           m == Max({Len(send), k + Len(b) - 1})
           s == Put(k, b)
           h == p \o b
<1>1. /\ send \in Wires /\ Len(send) = Len(p) + Len(r)
      /\ Len(p) \in Nat /\ Len(r) \in Nat /\ Len(b) \in Nat
      /\ \A i \in 1 .. Len(p) : send[i] = p[i]
      /\ \A i \in 1 .. Len(send) : send[i] \in Wired
  <2>1. /\ send \in Wires /\ Len(send) = Len(p) + Len(r)
        /\ Len(p) \in Nat /\ Len(r) \in Nat
        /\ \A i \in 1 .. Len(p) : send[i] = p[i]
    BY WiresJoined
  <2>2. Len(b) \in Nat
    BY WiresJoined
  <2>3. \A i \in 1 .. Len(send) : send[i] \in Wired
    BY <2>1, WiresEmpty, WiresJoined
  <2>4. QED
    BY <2>1, <2>2, <2>3
<1>2. /\ h \in Wires /\ Len(h) = n
      /\ \A i \in 1 .. Len(p) : h[i] = p[i]
      /\ \A i \in 1 .. Len(b) : h[Len(p) + i] = b[i] /\ b[i] \in Wired
  BY WiresJoined
<1>3. m \in Nat /\ m >= n /\ m >= Len(send)
  <2> DEFINE x == Len(send)
             y == k + Len(b) - 1
  <2>1. x \in Nat /\ y \in Nat /\ y = n
    BY <1>1
  <2>2. m = CHOOSE z \in {x, y} : \A w \in {x, y} : z >= w
    BY Zenon DEF Max
  <2> HIDE DEF x, y, m, n
  <2>3. \E z \in {x, y} : \A w \in {x, y} : z >= w
    <3>1. x >= y \/ y >= x
      BY <2>1
    <3>2. QED
      BY <2>1, <3>1
  <2>4. m \in {x, y} /\ m >= x /\ m >= y
    BY <2>2, <2>3
  <2>5. QED
    BY <2>1, <2>4 DEF x
<1>4. s = [i \in 1 .. m |->
              IF i >= k /\ i < k + Len(b) THEN b[i - k + 1]
              ELSE IF i <= Len(send) THEN send[i] ELSE 0]
  BY Zenon DEF Put
<1>5. 0 \in Wired
  BY DEF Wired, Octets
<1>6. ASSUME NEW i \in 1 .. Len(p) PROVE s[i] = h[i]
  <2>1. i \in 1 .. m /\ ~(i >= k) /\ i <= Len(send)
    BY <1>1, <1>3
  <2> HIDE DEF k, n, m, s, h
  <2>2. QED
    BY <1>1, <1>2, <1>4, <2>1
<1>7. ASSUME NEW i \in 1 .. Len(b) PROVE s[Len(p) + i] = h[Len(p) + i]
  <2> DEFINE j == Len(p) + i
  <2>1. j \in 1 .. m /\ j >= k /\ j < k + Len(b) /\ j - k + 1 = i
    BY <1>1, <1>3
  <2> HIDE DEF k, n, m, s, h, j
  <2>2. s[j] = b[j - k + 1]
    BY <1>4, <2>1
  <2>3. QED
    BY <1>2, <2>1, <2>2 DEF j
<1>8. ASSUME NEW i \in 1 .. m PROVE s[i] \in Wired
  <2>1. CASE i >= k /\ i < k + Len(b)
    <3>1. i - k + 1 \in 1 .. Len(b)
      BY <1>1, <2>1
    <3> HIDE DEF k, n, m, s, h
    <3>2. s[i] = b[i - k + 1]
      BY <1>4, <2>1
    <3>3. QED
      BY <1>2, <3>1, <3>2
  <2>2. CASE ~(i >= k /\ i < k + Len(b)) /\ i <= Len(send)
    <3>1. i \in 1 .. Len(send)
      BY <1>1, <2>2
    <3> HIDE DEF k, n, m, s, h
    <3>2. QED
      BY <1>1, <1>4, <2>2, <3>1
  <2>3. CASE ~(i >= k /\ i < k + Len(b)) /\ ~(i <= Len(send))
    <3> HIDE DEF k, n, m, s, h, Wired
    <3>2. QED
      BY <1>4, <1>5, <2>3
  <2>4. QED
    BY <2>1, <2>2, <2>3
<1> HIDE DEF m
<1>9. s \in Seq(Wired) /\ Len(s) = m
  <2> DEFINE e(i) == IF i >= k /\ i < k + Len(b) THEN b[i - k + 1]
                     ELSE IF i <= Len(send) THEN send[i] ELSE 0
  <2> HIDE DEF e
  <2>1. s = [i \in 1 .. m |-> e(i)]
    BY <1>4 DEF e
  <2> HIDE DEF s
  <2>2. \A i \in 1 .. m : e(i) \in Wired
    BY <1>8, <2>1
  <2>3. QED
    BY <1>3, <2>1, <2>2, IsASeq, LenProperties
<1> HIDE DEF s
<1>10. s \in Wires
  BY <1>9 DEF Wires, StringsOf
<1>11. n \in 1 .. Len(s)
  BY <1>1, <1>3, <1>9
<1> DEFINE c == SubSeq(s, 1, n)
           q == SubSeq(s, n + 1, Len(s))
<1>12. c \in Wires /\ q \in Wires /\ Len(c) = n /\ c \o q = s
  BY <1>10, <1>11, CutOf DEF Wires
<1>13. ASSUME NEW i \in 1 .. n PROVE c[i] = h[i]
  <2>1. (c \o q)[i] = c[i]
    BY <1>12, WiresJoined
  <2>2. s[i] = h[i]
    <3>1. CASE i \in 1 .. Len(p)
      BY <1>6, <3>1
    <3>2. CASE i \notin 1 .. Len(p)
      <4> DEFINE j == i - Len(p)
      <4>1. j \in 1 .. Len(b) /\ i = Len(p) + j
        BY <1>1, <3>2
      <4> HIDE DEF j
      <4>2. QED
        BY <1>7, <4>1
    <3>3. QED
      BY <3>1, <3>2
  <2>3. QED
    BY <1>12, <2>1, <2>2
<1> HIDE DEF c, q, h, n
<1>14. c = h
  BY <1>2, <1>12, <1>13, EqualOf DEF Wires
<1>15. QED
  BY <1>10, <1>12, <1>14 DEF h, s, k

\* The first part of what two make.
LEMMA StartOf ==
  ASSUME NEW x \in Wires, NEW y \in Wires
  PROVE  SubSeq(x \o y, 1, Len(x)) = x
<1>1. Len(x) \in Nat /\ Len(y) \in Nat /\ Len(x \o y) = Len(x) + Len(y)
      /\ x \o y \in Wires
  BY WiresJoined
<1>2. CASE Len(x) = 0
  <2>1. x = <<>>
    BY <1>2, EmptySeq DEF Wires, StringsOf
  <2>2. SubSeq(x \o y, 1, 0) = <<>>
    BY SubSeqEmpty
  <2>3. QED
    BY <1>2, <2>1, <2>2
<1>3. CASE Len(x) # 0
  <2> DEFINE z == x \o y
             c == SubSeq(z, 1, Len(x))
             d == SubSeq(z, Len(x) + 1, Len(z))
  <2>1. Len(x) \in 1 .. Len(z)
    BY <1>1, <1>3
  <2>2. c \in Wires /\ d \in Wires /\ Len(c) = Len(x) /\ c \o d = z
    BY <1>1, <2>1, CutOf DEF Wires
  <2> HIDE DEF c, d
  <2>3. c = x
    BY <2>2, WiresApart
  <2>4. QED
    BY <2>3 DEF c
<1>4. QED
  BY <1>2, <1>3

\* A thread in sendCMD goes on, or is done.
LEMMA Carries ==
  ASSUME SendInv, ~overlapped, NEW t \in Threads, Sends(t),
         NEW w \in Works, work' = [work EXCEPT ![t] = w],
         send' \in Wires, toBoard' \in Wires,
         asked' = asked, overlapped' = overlapped,
         w.at # "idle" => /\ w.frame = work[t].frame
                          /\ Filled(t)'
                          /\ toBoard' \o Remains(t)' = Line(asked),
         w.at = "idle" => toBoard' = Line(asked)
  PROVE  SendInv'
<1>1. /\ work \in [Threads -> Works] /\ asked \in Seq(Frames)
      /\ Underway(t)
  BY DEF SendInv, SendTyped
<1>2. SendTyped'
  BY <1>1 DEF SendTyped
<1>3. work'[t] = w /\ \A u \in Threads : u # t => work'[u] = work[u]
  BY <1>1
<1>4. \A u \in Threads : Sends(u)' => u = t
  BY <1>1, <1>3 DEF Underway, Sends
<1>5. CASE w.at # "idle"
  <2>1. asked # <<>> /\ work[t].frame = asked[Len(asked)]
    BY <1>1 DEF Underway
  <2>2. Underway(t)'
    <3>1. asked' # <<>> /\ work'[t].frame = asked'[Len(asked')]
      BY <1>3, <1>5, <2>1
    <3>2. Filled(t)' /\ toBoard' \o Remains(t)' = Line(asked')
      BY <1>5
    <3>3. QED
      BY <1>4, <3>1, <3>2 DEF Underway
  <2>3. Sends(t)'
    BY <1>3, <1>5 DEF Sends
  <2>4. QED
    BY <1>2, <1>4, <2>2, <2>3 DEF SendInv
<1>6. CASE w.at = "idle"
  <2>1. ~Sends(t)'
    BY <1>3, <1>6 DEF Sends
  <2>2. \A u \in Threads : ~Sends(u)'
    BY <1>4, <2>1
  <2>3. toBoard' = Line(asked')
    BY <1>6
  <2>4. QED
    BY <1>2, <2>2, <2>3 DEF SendInv
<1>7. QED
  BY <1>5, <1>6

\* What holds of the thread in sendCMD.
LEMMA Sending ==
  ASSUME LineKnown, SendInv, ~overlapped, NEW t \in Threads,
         Sends(t)
  PROVE  /\ work[t] \in Works /\ work[t].frame \in Frames
         /\ work[t].frame = asked[Len(asked)]
         /\ send \in Wires /\ toBoard \in Wires /\ asked \in Seq(Frames)
         /\ asked # <<>> /\ Filled(t) /\ toBoard \o Remains(t) = Line(asked)
<1>1. /\ work[t] \in Works /\ asked \in Seq(Frames) /\ Underway(t)
      /\ send \in Wires /\ toBoard \in Wires
  BY DEF SendInv, SendTyped
<1>2. /\ asked # <<>> /\ work[t].frame = asked[Len(asked)]
      /\ Filled(t) /\ toBoard \o Remains(t) = Line(asked)
  BY <1>1 DEF Underway
<1>3. asked[Len(asked)] \in Frames
  <2>1. Len(asked) \in 1 .. Len(asked)
    BY <1>1, <1>2, LenProperties, EmptySeq
  <2>2. QED
    BY <1>1, <2>1, ElementOfSeq
<1>4. QED
  BY <1>1, <1>2, <1>3

\* The buffer is filled: each store goes behind what is there of the frame.
LEMMA Stored ==
  ASSUME LineKnown, SendInv, ~overlapped, NEW t \in Threads,
         NEW f \in Frames, f = work[t].frame, Sends(t),
         work[t].at # "write", NEW at \in {"data", "sum", "write"},
         work' = [work EXCEPT ![t].at = at],
         NEW p \in Wires, NEW r \in Wires, send' = p \o r,
         at = "data" => p = Top(f), at = "sum" => p = Body(f),
         at = "write" => p = Body(f) \o Sum(f),
         asked' = asked, overlapped' = overlapped, toBoard' = toBoard
  PROVE  SendInv'
<1> DEFINE w == [work[t] EXCEPT !.at = at]
<1>1. /\ work[t] \in Works /\ Filled(t) /\ toBoard \in Wires
      /\ toBoard \o Remains(t) = Line(asked)
      /\ work \in [Threads -> Works]
  BY Sending DEF SendInv, SendTyped
<1>2. work[t].written = 0
  BY <1>1 DEF Filled
<1>3. /\ w \in Works /\ w.at = at /\ w.frame = f /\ w.written = 0
      /\ work' = [work EXCEPT ![t] = w] /\ work'[t] = w
  BY <1>1, <1>2 DEF Works, Places
<1> HIDE DEF w
<1>4. FrameLen(Len(f.data)) > 0
  <2> DEFINE n == Len(f.data)
             k == Len(Preamble)
  <2>1. n \in Nat /\ k \in Nat /\ FrameLen(n) = (k + 1) + n + 2
    BY FrameOnLine, LineConstants DEF FrameLen, LengthAt
  <2> HIDE DEF n, k
  <2>2. FrameLen(n) > 0
    BY <2>1
  <2>3. QED
    BY <2>2 DEF n
<1>5. Begins(p)'
  BY Zenon DEF Begins
<1>6. Filled(t)'
  <2>1. /\ work'[t].frame = f /\ work'[t].at = at /\ work'[t].written = 0
    BY <1>3
  <2>2. at = "data" => Begins(Top(f))'
    BY <1>5
  <2>3. at = "sum" => Begins(Body(f))'
    BY <1>5
  <2>4. at = "write" => Begins(Body(f) \o Sum(f))'
    BY <1>5
  <2>5. Filled(t)' <=>
          /\ at # "write" => 0 = 0
          /\ at = "data" => Begins(Top(f))'
          /\ at = "sum" => Begins(Body(f))'
          /\ at = "write" => /\ Begins(Body(f) \o Sum(f))'
                             /\ 0 < FrameLen(Len(f.data))
    BY <2>1 DEF Filled, Body, Sum, Top
  <2>6. QED
    BY <1>4, <2>2, <2>3, <2>4, <2>5
<1>7. Remains(t)' = Remains(t)
  BY <1>2, <1>3 DEF Remains
<1>8. w.at # "idle" /\ send' \in Wires
  BY <1>3, WiresJoined
<1>9. toBoard' \in Wires /\ toBoard' \o Remains(t)' = Line(asked)
  BY <1>1, <1>7
<1>10. w.at = "idle" => toBoard' = Line(asked)
  BY <1>8
<1>11. w.frame = work[t].frame
  BY <1>3
<1> HIDE DEF w
<1>12. QED
  BY <1>3, <1>6, <1>8, <1>9, <1>10, <1>11, Carries

LEMMA FillSends ==
  ASSUME LineKnown, SendInv, ~overlapped, NEW t \in Threads,
         FillBuffer(t)
  PROVE  SendInv'
<1>1. Sends(t)
  BY DEF FillBuffer, Sends
<1>2. PICK f \in Frames : f = work[t].frame
  BY <1>1, Sending
<1>3. /\ asked' = asked /\ overlapped' = overlapped /\ toBoard' = toBoard
      /\ \/ /\ work[t].at = "header" /\ send' = Put(1, Top(f))
            /\ work' = [work EXCEPT ![t].at = "data"]
         \/ /\ work[t].at = "data" /\ send' = Put(3, f.data)
            /\ work' = [work EXCEPT ![t].at = "sum"]
         \/ /\ work[t].at = "sum"
            /\ send' = Put(SumPlace(t), <<Checksum(Summed(t))>>)
            /\ work' = [work EXCEPT ![t].at = "write"]
  BY <1>2 DEF FillBuffer, Top
<1>4. send \in Wires /\ Filled(t)
  BY <1>1, Sending
<1>5. /\ Top(f) \in Wires /\ Len(Top(f)) = 2 /\ f.data \in Wires
      /\ Body(f) \in Wires /\ Sum(f) \in Wires /\ Len(Sum(f)) = 1
      /\ Len(f.data) \in Nat /\ Len(Body(f)) = Len(f.data) + 2
  BY FrameOnLine
<1>6. CASE work[t].at = "header"
  <2>1. send' = Put(1, Top(f)) /\ work' = [work EXCEPT ![t].at = "data"]
    BY <1>3, <1>6
  <2> DEFINE e == <<>>
             b == Top(f)
  <2>2. e \in Wires /\ b \in Wires /\ send \in Wires
    BY <1>4, <1>5, WiresEmpty
  <2>3. Len(e) = 0 /\ Len(b) = 2
    BY <1>5, WiresEmpty
  <2>4. e \o b = b
    BY <2>2, WiresEmpty, Zenon
  <2>5. PICK r \in Wires : send = e \o r
    <3>1. e \o send = send
      BY <2>2, WiresEmpty, Zenon
    <3>2. QED
      BY <2>2, <3>1
  <2> HIDE DEF e, b
  <2>6. Len(e) + Len(b) >= 1
    BY <2>3
  <2>7. PICK q \in Wires : Put(Len(e) + 1, b) = (e \o b) \o q
    <3>1. e \in Wires /\ b \in Wires /\ r \in Wires /\ send = e \o r
      BY <2>2, <2>5
    <3>2. /\ Put(Len(e) + 1, b) \in Wires
          /\ \E q \in Wires : Put(Len(e) + 1, b) = (e \o b) \o q
      BY <2>6, <3>1, PutBegins
    <3>3. QED
      BY <3>2, Zenon
  <2>8. Put(Len(e) + 1, b) = Put(1, b)
    BY <2>3
  <2>9. send' = b \o q
    BY <2>1, <2>4, <2>7, <2>8 DEF b
  <2>10. QED
    BY <1>1, <1>2, <1>3, <1>6, <2>1, <2>2, <2>9, Stored DEF b
<1>7. CASE work[t].at = "data"
  <2>1. send' = Put(3, f.data) /\ work' = [work EXCEPT ![t].at = "sum"]
    BY <1>3, <1>7
  <2> DEFINE e == Top(f)
             b == f.data
  <2>2. e \in Wires /\ Len(e) = 2 /\ b \in Wires /\ Len(b) \in Nat
    BY <1>5
  <2>3. PICK r \in Wires : send = e \o r
    BY <1>2, <1>4, <1>7 DEF Filled, Begins
  <2> HIDE DEF e, b
  <2>4. Len(e) + Len(b) >= 1
    BY <2>2
  <2>5. PICK q \in Wires : Put(Len(e) + 1, b) = (e \o b) \o q
    <3>1. /\ Put(Len(e) + 1, b) \in Wires
          /\ \E q \in Wires : Put(Len(e) + 1, b) = (e \o b) \o q
      BY <2>2, <2>3, <2>4, PutBegins
    <3>2. QED
      BY <3>1, Zenon
  <2>6. Put(Len(e) + 1, b) = Put(3, b)
    BY <2>2
  <2>7. send' = (e \o b) \o q
    BY <2>1, <2>5, <2>6 DEF b
  <2>8. e \o b = Body(f) /\ e \o b \in Wires
    BY <2>2, WiresJoined DEF Body, e, b
  <2>9. QED
    BY <1>1, <1>2, <1>3, <1>7, <2>1, <2>7, <2>8, Stored
<1>8. CASE work[t].at = "sum"
  <2>1. /\ send' = Put(SumPlace(t), <<Checksum(Summed(t))>>)
        /\ work' = [work EXCEPT ![t].at = "write"]
    BY <1>3, <1>8
  <2> DEFINE e == Body(f)
             b == Sum(f)
  <2>2. PICK r \in Wires : send = e \o r
    BY <1>2, <1>4, <1>8 DEF Filled, Begins
  <2>3. SumPlace(t) = Len(e) + 1
    <3> DEFINE n == Len(f.data)
    <3>1. n \in Nat /\ Len(e) = n + 2 /\ SumPlace(t) = n + 3
      BY <1>2, <1>5 DEF SumPlace
    <3> HIDE DEF n, e
    <3>2. QED
      BY <3>1
  <2>4. e \in Wires /\ b \in Wires /\ Len(b) = 1 /\ Len(e) \in Nat
        /\ Len(e) >= 1
    BY <1>5
  <2>5. Summed(t) = e
    <3>1. Summed(t) = SubSeq(e \o r, 1, (Len(e) + 1) - 1)
      BY <2>2, <2>3, Zenon DEF Summed
    <3> HIDE DEF e
    <3>2. SubSeq(e \o r, 1, Len(e)) = e
      BY <2>4, StartOf
    <3>3. (Len(e) + 1) - 1 = Len(e)
      BY <2>4
    <3>4. QED
      BY <3>1, <3>2, <3>3
  <2>6. <<Checksum(Summed(t))>> = b
    BY <2>5 DEF Sum
  <2> HIDE DEF e, b
  <2>7. Len(e) + Len(b) >= 1
    BY <2>4
  <2>8. PICK q \in Wires : Put(Len(e) + 1, b) = (e \o b) \o q
    <3>1. /\ Put(Len(e) + 1, b) \in Wires
          /\ \E q \in Wires : Put(Len(e) + 1, b) = (e \o b) \o q
      BY <2>2, <2>4, <2>7, PutBegins
    <3>2. QED
      BY <3>1, Zenon
  <2>9. send' = (e \o b) \o q
    BY <2>1, <2>3, <2>6, <2>8
  <2>10. e \o b = Body(f) \o Sum(f) /\ e \o b \in Wires
    BY <2>4, WiresJoined DEF e, b
  <2>11. QED
    BY <1>1, <1>2, <1>3, <1>8, <2>1, <2>9, <2>10, Stored
<1>9. QED
  BY <1>3, <1>6, <1>7, <1>8

\* What remains of a frame: the bytes behind the first k.
LEMMA Rests ==
  ASSUME NEW e \in Wires, NEW k \in Nat, NEW n \in Nat, n >= 1,
         k + n <= Len(e)
  PROVE  /\ SubSeq(e, k + 1, k + n) \in Wires
         /\ SubSeq(e, k + n + 1, Len(e)) \in Wires
         /\ SubSeq(e, k + 1, Len(e)) =
                SubSeq(e, k + 1, k + n) \o SubSeq(e, k + n + 1, Len(e))
         /\ SubSeq(e, Len(e) + 1, Len(e)) = <<>>
<1>1. Len(e) \in Nat /\ e \in Seq(Wired)
  BY LenProperties DEF Wires, StringsOf
<1>2. \A i \in 1 .. Len(e) : e[i] \in Wired
  BY <1>1, ElementOfSeq
<1>3. SubSeq(e, k + 1, k + n) \in Seq(Wired)
  <2>1. \A i \in k + 1 .. k + n : e[i] \in Wired
    BY <1>1, <1>2
  <2>2. QED
    BY <1>1, <2>1, SubSeqProperties
<1>4. SubSeq(e, k + n + 1, Len(e)) \in Seq(Wired)
  <2>1. \A i \in k + n + 1 .. Len(e) : e[i] \in Wired
    BY <1>1, <1>2
  <2>2. QED
    BY <1>1, <2>1, SubSeqProperties
<1>5. SubSeq(e, k + 1, k + n) \o SubSeq(e, (k + n) + 1, Len(e))
        = SubSeq(e, k + 1, Len(e))
  <2> DEFINE a == k + 1
             b == k + n
             c == Len(e)
  <2>1. a \in 1 .. Len(e) + 1 /\ b \in a - 1 .. Len(e) /\ c \in b .. Len(e)
    BY <1>1
  <2> HIDE DEF a, b, c
  <2>2. SubSeq(e, a, b) \o SubSeq(e, b + 1, c) = SubSeq(e, a, c)
    BY <1>1, <2>1, ConcatAdjacentSubSeq
  <2>3. QED
    BY <2>2 DEF a, b, c
<1>6. SubSeq(e, Len(e) + 1, Len(e)) = <<>>
  BY <1>1, SubSeqEmpty
<1>7. QED
  BY <1>3, <1>4, <1>5, <1>6 DEF Wires, StringsOf

\* Bytes of the first part are bytes of the whole.
LEMMA WithinFirst ==
  ASSUME NEW e \in Wires, NEW r \in Wires, NEW k \in Nat, NEW n \in Nat,
         n >= 1, k + n <= Len(e)
  PROVE  SubSeq(e \o r, k + 1, k + n) = SubSeq(e, k + 1, k + n)
<1>1. Len(e) \in Nat /\ e \in Seq(Wired) /\ r \in Seq(Wired)
  BY LenProperties DEF Wires, StringsOf
<1> DEFINE a == k + 1
           b == k + n
<1>2. a \in 1 .. Len(e) /\ b \in 1 .. Len(e)
  BY <1>1
<1> HIDE DEF a, b
<1>3. SubSeq(e \o r, a, b) = SubSeq(e, a, b)
  BY <1>1, <1>2, SubSeqOfConcat1
<1>4. QED
  BY <1>3 DEF a, b

\* A write: the bytes it takes are those of the frame.
LEMMA WriteSends ==
  ASSUME LineKnown, SendInv, ~overlapped, NEW t \in Threads,
         WriteFull(t)
  PROVE  SendInv'
<1>1. Sends(t) /\ work[t].at = "write"
  BY DEF WriteFull, Sends
<1>2. PICK f \in Frames : f = work[t].frame
  BY <1>1, Sending
<1> DEFINE k == work[t].written
           size == FrameLen(Len(f.data))
<1>3. PICK n \in 1 .. size - k :
        /\ toBoard' = toBoard \o SubSeq(Preamble \o send, k + 1, k + n)
        /\ work' = [work EXCEPT ![t] = IF k + n = size THEN Idle
                                ELSE [@ EXCEPT !.written = k + n]]
  BY <1>2 DEF WriteFull
<1>4. send' = send /\ asked' = asked /\ overlapped' = overlapped
  BY DEF WriteFull
<1>5. /\ work[t] \in Works /\ send \in Wires /\ toBoard \in Wires
      /\ asked # <<>> /\ Filled(t) /\ toBoard \o Remains(t) = Line(asked)
      /\ work \in [Threads -> Works]
  BY <1>1, Sending DEF SendInv, SendTyped
<1> DEFINE e == FrameBytes[f]
           x == SubSeq(e, k + 1, k + n)
           y == SubSeq(e, k + n + 1, Len(e))
<1>6. /\ Body(f) \in Wires /\ Sum(f) \in Wires /\ e \in Wires
      /\ e = Preamble \o (Body(f) \o Sum(f)) /\ Len(e) = size
      /\ Preamble \in Wires
  BY FrameOnLine, LineConstants
<1>7. k \in Nat /\ k < size
  BY <1>1, <1>2, <1>5 DEF Filled, Works
<1>8. /\ n \in Nat /\ n >= 1 /\ k + n <= size /\ k + n \in Nat
      /\ size \in Nat
  <2>1. size \in Nat
    BY <1>6, WiresEmpty, LenProperties DEF Wires, StringsOf
  <2> HIDE DEF k, size
  <2>2. QED
    BY <1>3, <1>7, <2>1
<1>9. PICK r \in Wires : send = (Body(f) \o Sum(f)) \o r
  BY <1>1, <1>2, <1>5 DEF Filled, Begins
<1>10. Preamble \o send = e \o r
  <2> DEFINE b == Body(f) \o Sum(f)
  <2>1. b \in Wires /\ send = b \o r /\ e = Preamble \o b
    BY <1>6, <1>9, WiresJoined
  <2> HIDE DEF b, e
  <2>2. Preamble \o (b \o r) = (Preamble \o b) \o r
    <3>1. Preamble \in Wires /\ b \in Wires /\ r \in Wires
      BY <1>6, <2>1
    <3>2. QED
      BY <3>1, WiresRegrouped, Zenon
  <2>3. QED
    BY <2>1, <2>2, Zenon
<1> HIDE DEF e, k, size
<1>11. toBoard' = toBoard \o x
  <2>1. SubSeq(e \o r, k + 1, k + n) = SubSeq(e, k + 1, k + n)
    BY <1>6, <1>7, <1>8, WithinFirst
  <2>2. QED
    BY <1>3, <1>10, <2>1
<1>12. /\ x \in Wires /\ y \in Wires
       /\ SubSeq(e, k + 1, Len(e)) = x \o y
       /\ k + n = size => y = <<>>
  BY <1>6, <1>7, <1>8, Rests
<1>13. toBoard' \in Wires /\ toBoard' \o y = Line(asked)
  <2>1. Remains(t) = x \o y
    BY <1>2, <1>12 DEF Remains, e, k
  <2> HIDE DEF x, y
  <2>2. toBoard \o (x \o y) = (toBoard \o x) \o y
    <3>1. toBoard \in Wires /\ x \in Wires /\ y \in Wires
      BY <1>5, <1>12
    <3>2. QED
      BY <3>1, WiresRegrouped, Zenon
  <2>3. toBoard' \o y = Line(asked)
    BY <1>5, <1>11, <2>1, <2>2, Zenon
  <2>4. QED
    BY <1>5, <1>11, <1>12, <2>3, WiresJoined
<1> HIDE DEF x
<1>14. CASE k + n = size
  <2>1. work' = [work EXCEPT ![t] = Idle]
    BY <1>3, <1>14
  <2>2. Idle \in Works /\ Idle.at = "idle"
    BY LineConstants, EmptySeq DEF Idle, Works, Places, AnyFrame
  <2> HIDE DEF y
  <2>3. toBoard' = Line(asked)
    BY <1>12, <1>13, <1>14, WiresEmpty
  <2>4. QED
    BY <1>1, <1>4, <1>5, <1>13, <2>1, <2>2, <2>3, Carries
<1>15. CASE k + n # size
  <2> DEFINE w == [work[t] EXCEPT !.written = k + n]
  <2>1. /\ w \in Works /\ w.at = "write" /\ w.frame = f /\ w.written = k + n
        /\ work' = [work EXCEPT ![t] = w] /\ work'[t] = w
    BY <1>1, <1>2, <1>3, <1>5, <1>8, <1>15 DEF Works
  <2> HIDE DEF w
  <2>2. work'[t].at = "write" /\ work'[t].frame = f /\ work'[t].written = k + n
    BY <2>1
  <2>3. Remains(t)' = y
    BY <2>2 DEF Remains, e
  <2>4. k + n < size
    BY <1>8, <1>15
  <2>5. Begins(Body(f) \o Sum(f))'
    BY <1>4, <1>9, Zenon DEF Begins
  <2>6. Filled(t)'
    <3>1. Filled(t)' <=>
            /\ Begins(Body(f) \o Sum(f))'
            /\ k + n < FrameLen(Len(f.data))
      BY <2>2 DEF Filled, Body, Sum, Top
    <3>2. QED
      BY <2>4, <2>5, <3>1 DEF size
  <2> HIDE DEF y
  <2>7. toBoard' \o Remains(t)' = Line(asked)
    BY <1>13, <2>3
  <2>8. w.at # "idle" /\ w.frame = work[t].frame
    BY <1>2, <2>1
  <2>9. QED
    BY <1>1, <1>4, <1>5, <1>13, <2>1, <2>6, <2>7, <2>8, Carries
<1>16. QED
  BY <1>14, <1>15

\* A thread in sendCMD has something to write.
LEMMA RemainsType ==
  ASSUME LineKnown, SendInv, ~overlapped, NEW t \in Threads,
         Sends(t)
  PROVE  Remains(t) \in Wires /\ Len(Remains(t)) >= 1
<1> DEFINE k == work[t].written
           e == FrameBytes[work[t].frame]
<1>1. /\ work[t] \in Works /\ work[t].frame \in Frames /\ Filled(t)
  BY Sending
<1>2. e \in Wires /\ Len(e) = FrameLen(Len(work[t].frame.data))
  BY <1>1, FrameOnLine
<1>3. k \in Nat /\ Len(e) \in Nat
  BY <1>1, <1>2, LenProperties DEF Works, Wires, StringsOf
<1>4. k < Len(e)
  <2>1. CASE work[t].at = "write"
    BY <1>1, <1>2, <2>1 DEF Filled
  <2>2. CASE work[t].at # "write"
    <3>1. k = 0
      BY <1>1, <2>2 DEF Filled
    <3>2. Len(e) > 0
      <4>1. Len(Preamble) \in Nat /\ Len(work[t].frame.data) \in Nat
        BY <1>1, FrameOnLine, LineConstants
      <4> DEFINE n == Len(work[t].frame.data)
      <4>2. n \in Nat /\ Len(e) = (Len(Preamble) + 1) + n + 2
        BY <1>2, <4>1 DEF FrameLen, LengthAt
      <4> HIDE DEF n, e
      <4>3. QED
        BY <4>1, <4>2
    <3>3. QED
      BY <3>1, <3>2
  <2>3. QED
    BY <2>1, <2>2
<1>5. Remains(t) = SubSeq(e, k + 1, Len(e))
  BY DEF Remains
<1> HIDE DEF k, e
<1>6. e \in Seq(Wired) /\ \A i \in 1 .. Len(e) : e[i] \in Wired
  BY <1>2, ElementOfSeq DEF Wires, StringsOf
<1>7. SubSeq(e, k + 1, Len(e)) \in Seq(Wired)
  <2>1. \A i \in k + 1 .. Len(e) : e[i] \in Wired
    BY <1>3, <1>6
  <2>2. QED
    BY <1>3, <2>1, SubSeqProperties
<1>8. Len(SubSeq(e, k + 1, Len(e))) = Len(e) - (k + 1) + 1
  <2>1. k + 1 <= Len(e)
    BY <1>3, <1>4
  <2>2. QED
    BY <1>3, <2>1, SubSeqProperties
<1>9. QED
  BY <1>3, <1>4, <1>5, <1>7, <1>8 DEF Wires, StringsOf

\* The board takes the first frame off the line.
LEMMA BoardTakes ==
  ASSUME LineKnown, BoardAnswers, toBoard \in Wires,
         asked \in Seq(Frames), NEW y \in Wires,
         toBoard \o y = Line(asked)
  PROVE  /\ asked # <<>> /\ toBoard' \in Wires
         /\ toBoard' \o y = Line(Tail(asked))
<1>1. /\ Len(toBoard) >= LengthAt /\ Len(toBoard) >= Incoming
      /\ toBoard' = SubSeq(toBoard, Incoming + 1, Len(toBoard))
  BY DEF BoardAnswers, Complete
<1>2. asked # <<>> /\ toBoard[LengthAt] = Len(asked[1].data)
  BY <1>1, FirstLength
<1> DEFINE n == Incoming
           m == Len(asked[1].data)
<1>3. n = FrameLen(m) /\ m \in Nat
  BY <1>2, LineFirst, FrameOnLine DEF Incoming
<1>4. n \in 1 .. Len(toBoard)
  <2>1. Len(Preamble) \in Nat /\ Len(toBoard) \in Nat
    BY LineConstants, LenProperties DEF Wires, StringsOf
  <2>2. n = (Len(Preamble) + 1) + m + 2
    BY <1>3 DEF FrameLen, LengthAt
  <2>3. n <= Len(toBoard)
    BY <1>1, <2>1, <2>2, <1>3
  <2> HIDE DEF n, m
  <2>4. QED
    BY <1>3, <2>1, <2>2, <2>3
<1> DEFINE c == SubSeq(toBoard, 1, n)
           d == SubSeq(toBoard, n + 1, Len(toBoard))
<1>5. c \in Wires /\ d \in Wires /\ Len(c) = n /\ c \o d = toBoard
  <2> HIDE DEF n
  <2>1. QED
    BY <1>4, CutOf DEF Wires
<1>6. toBoard' = d
  BY <1>1
<1> HIDE DEF c, d, n
<1>7. d \o y \in Wires
  BY <1>5, WiresJoined
<1>8. c \o (d \o y) = (c \o d) \o y
  <2>1. c \in Wires /\ d \in Wires /\ y \in Wires
    BY <1>5
  <2>2. QED
    BY <2>1, WiresRegrouped, Zenon
<1>9. c \o (d \o y) = Line(asked)
  BY <1>5, <1>8
<1>10. d \o y = Line(Tail(asked))
  BY <1>2, <1>3, <1>5, <1>7, <1>9, FirstWhole DEF m
<1>11. QED
  BY <1>2, <1>5, <1>6, <1>10

LEMMA BoardSends ==
  ASSUME LineKnown, SendInv, ~overlapped, BoardAnswers
  PROVE  SendInv'
<1>1. /\ UNCHANGED <<send, work, overlapped>> /\ asked' = Tail(asked)
  BY DEF BoardAnswers
<1>2. /\ send \in Wires /\ toBoard \in Wires /\ asked \in Seq(Frames)
      /\ work \in [Threads -> Works]
  BY DEF SendInv, SendTyped
<1>3. CASE \A t \in Threads : ~Sends(t)
  <2>1. toBoard = Line(asked) /\ Line(asked) \in Wires
    BY <1>2, <1>3, LineType DEF SendInv
  <2>2. <<>> \in Wires /\ toBoard \o <<>> = Line(asked)
    BY <1>2, <2>1, WiresEmpty
  <2>3. /\ asked # <<>> /\ toBoard' \in Wires
        /\ toBoard' \o <<>> = Line(Tail(asked))
    BY <1>2, <2>2, BoardTakes
  <2>4. toBoard' = Line(asked') /\ asked' \in Seq(Frames)
    BY <1>1, <1>2, <2>3, LineFirst, WiresEmpty
  <2>5. \A t \in Threads : ~Sends(t)'
    BY <1>1, <1>3 DEF Sends
  <2>6. QED
    BY <1>1, <1>2, <2>3, <2>4, <2>5 DEF SendInv, SendTyped
<1>4. ASSUME NEW t \in Threads, Sends(t) PROVE SendInv'
  <2>1. /\ Underway(t) /\ Remains(t) \in Wires /\ Len(Remains(t)) >= 1
    BY <1>4, RemainsType DEF SendInv
  <2>2. /\ asked # <<>> /\ work[t].frame = asked[Len(asked)] /\ Filled(t)
        /\ toBoard \o Remains(t) = Line(asked)
        /\ \A u \in Threads : Sends(u) => u = t
    BY <2>1 DEF Underway
  <2>3. toBoard' \in Wires /\ toBoard' \o Remains(t) = Line(Tail(asked))
    BY <1>2, <2>1, <2>2, BoardTakes
  <2>4. /\ Tail(asked) \in Seq(Frames) /\ Len(Tail(asked)) = Len(asked) - 1
        /\ \A i \in 1 .. Len(asked) - 1 : Tail(asked)[i] = asked[i + 1]
    BY <1>2, <2>2, LineFirst
  <2>5. Tail(asked) # <<>>
    <3> SUFFICES ASSUME Tail(asked) = <<>> PROVE FALSE
      OBVIOUS
    <3>1. Len(toBoard' \o Remains(t)) = 0
      BY <2>3, LineNone, WiresEmpty
    <3>2. /\ Len(toBoard' \o Remains(t)) = Len(toBoard') + Len(Remains(t))
          /\ Len(toBoard') \in Nat
      BY <2>1, <2>3, WiresJoined
    <3>3. QED
      BY <2>1, <3>1, <3>2
  <2>6. Tail(asked)[Len(Tail(asked))] = asked[Len(asked)]
    <3>1. Len(asked) \in Nat /\ Len(Tail(asked)) \in Nat
          /\ Len(Tail(asked)) # 0
      BY <1>2, <2>4, <2>5, LenProperties, EmptySeq
    <3>2. /\ Len(asked) - 1 \in 1 .. Len(asked) - 1
          /\ (Len(asked) - 1) + 1 = Len(asked)
      BY <2>4, <3>1
    <3>3. QED
      BY <2>4, <3>2
  <2>7. Filled(t)' /\ Remains(t)' = Remains(t)
    BY <1>1, <2>2 DEF Filled, Begins, Remains
  <2>8. /\ Sends(t)' /\ \A u \in Threads : Sends(u)' => u = t
    BY <1>1, <1>4, <2>2 DEF Sends
  <2>9. Underway(t)'
    BY <1>1, <2>2, <2>3, <2>5, <2>6, <2>7, <2>8 DEF Underway
  <2>10. QED
    BY <1>1, <1>2, <2>3, <2>4, <2>8, <2>9 DEF SendInv, SendTyped
<1>5. QED
  BY <1>3, <1>4

LEMMA SendNext ==
  LineKnown /\ ReceiveInv /\ SendInv /\ [LineNext]_lineVars => SendInv'
<1> SUFFICES ASSUME LineKnown, ReceiveInv, SendInv, [LineNext]_lineVars
             PROVE  SendInv'
  OBVIOUS
<1>1. ASSUME UNCHANGED <<send, work, asked, overlapped, toBoard>>
      PROVE  SendInv'
  BY <1>1 DEF SendInv, SendTyped, Underway, Filled, Begins, Remains, Sends
<1>2. CASE Overlap \/ UNCHANGED lineVars
  BY <1>1, <1>2 DEF Overlap, lineVars, sending
<1>3. CASE ~overlapped /\ Request
  <2>1. PICK d \in Data[todo[1]] :
            Send("updater", [cmd |-> todo[1], data |-> d])
    BY <1>3 DEF Request
  <2>2. todo[1] \in Commands
    <3>1. todo \in Seq(Commands) /\ todo # <<>>
      BY <1>3 DEF Request, ReceiveInv, ReceiveTyped
    <3>2. 1 \in 1 .. Len(todo)
      BY <3>1, LenProperties, EmptySeq
    <3>3. QED
      BY <3>1, <3>2, ElementOfSeq
  <2>3. [cmd |-> todo[1], data |-> d] \in Frames
    BY <2>2 DEF Frames
  <2>4. toBoard' = toBoard /\ "updater" \in Threads
    BY <1>3 DEF Request, Threads
  <2>5. QED
    BY <1>3, <2>1, <2>3, <2>4, SendSends
<1>4. CASE ~overlapped /\ Calibrate
  <2>1. /\ Send("controller", [cmd |-> "CALIBRATION", data |-> <<>>])
        /\ toBoard' = toBoard /\ "controller" \in Threads
    BY <1>4 DEF Calibrate, Threads
  <2>2. "CALIBRATION" \in Commands /\ <<>> \in Data["CALIBRATION"]
    BY DEF Commands, LineKnown
  <2>3. [cmd |-> "CALIBRATION", data |-> <<>>] \in Frames
    BY <2>2 DEF Frames
  <2>4. QED
    BY <1>4, <2>1, <2>3, SendSends
<1>5. ASSUME ~overlapped, NEW t \in Threads, SendCMD(t) PROVE SendInv'
  BY <1>5, FillSends, WriteSends DEF SendCMD
<1>6. CASE ~overlapped /\ BoardAnswers
  BY <1>6, BoardSends
<1>7. CASE Update \/ ReadHeader \/ ReadRest \/ BoardWrites
  BY <1>1, <1>7
  DEF Update, ReadHeader, ReadRest, BoardWrites, sending
<1>8. QED
  BY <1>2, <1>3, <1>4, <1>5, <1>6, <1>7
  DEF LineNext, Updater, Controller, Board, Threads

LEMMA SendAlways == LineKnown /\ LineSpec => []SendInv
<1> SUFFICES ASSUME LineKnown PROVE LineSpec => []SendInv
  OBVIOUS
<1>1. LineInit => SendInv
  BY SendInit
<1>2. ReceiveInv /\ SendInv /\ [LineNext]_lineVars => SendInv'
  BY SendNext
<1>3. LineSpec => []ReceiveInv
  BY ReceiveAlways
<1>4. QED
  BY <1>1, <1>2, <1>3, PTL DEF LineSpec

\* Of frames without bytes nothing is to be written.
Nothing(n) == [i \in 1 .. n |-> <<>>]

LEMMA NothingType ==
  ASSUME NEW n \in Nat
  PROVE  /\ Nothing(n) \in TextsOf(Wired) /\ Len(Nothing(n)) = n
         /\ \A i \in 1 .. n : Nothing(n)[i] = <<>>
<1>1. <<>> \in StringsOf(Wired)
  BY MonoidOf
<1>2. Nothing(n) \in Seq(StringsOf(Wired)) /\ Len(Nothing(n)) = n
  BY <1>1, IsASeq, LenProperties DEF Nothing
<1>3. QED
  BY <1>2 DEF TextsOf, Nothing

LEMMA NothingFlat ==
  ASSUME NEW n \in Nat
  PROVE  FlattenSeq(Nothing(n)) = <<>>
<1> DEFINE P == {k \in Nat : FlattenSeq(Nothing(k)) = <<>>}
<1>1. 0 \in P
  <2>1. Nothing(0) = <<>>
    BY DEF Nothing
  <2>2. QED
    BY <2>1, FlattenEmpty
<1>2. ASSUME NEW k \in Nat, k \in P PROVE k + 1 \in P
  <2> DEFINE s == Nothing(k)
             t == Nothing(k + 1)
             x == <<>>
  <2>1. /\ s \in TextsOf(Wired) /\ Len(s) = k
        /\ \A i \in 1 .. k : s[i] = x
    BY NothingType
  <2>2. /\ t \in TextsOf(Wired) /\ Len(t) = k + 1
        /\ \A i \in 1 .. k + 1 : t[i] = x
    BY NothingType
  <2>3. FlattenSeq(s) = x /\ x \in StringsOf(Wired) /\ x \o x = x
    BY <1>2, MonoidOf
  <2> HIDE DEF s, t, x
  <2>4. Extends(s, Len(s), t) /\ t[Len(s) + 1] = x /\ Len(t) = Len(s) + 1
    BY <2>1, <2>2 DEF Extends
  <2>5. FlattenSeq(t) = FlattenSeq(s) \o x
    BY <2>1, <2>2, <2>3, <2>4, FlattenAppendOf
  <2>6. FlattenSeq(t) = x
    BY <2>3, <2>5
  <2>7. QED
    BY <2>6 DEF t, x
<1> HIDE DEF P
<1>3. n \in P
  BY <1>1, <1>2, Induction
<1>4. QED
  BY <1>3 DEF P

\* What is unwritten is what remains of the last frame.
LEMMA UnwrittenIs ==
  ASSUME LineKnown, SendInv, ~overlapped
  PROVE  /\ \A t \in Threads : Sends(t) => Unwritten = Remains(t)
         /\ (\A t \in Threads : ~Sends(t)) => Unwritten = <<>>
<1> DEFINE n == Len(asked)
           remains(i) ==
               IF \E t \in Threads : Sends(t) /\ i = n
               THEN LET t == CHOOSE u \in Threads : Sends(u)
                    IN  SubSeq(FrameBytes[asked[i]], work[t].written + 1,
                               Len(FrameBytes[asked[i]]))
               ELSE <<>>
<1>1. n \in Nat
  BY LenProperties DEF SendInv, SendTyped
<1>2. Unwritten = FlattenSeq([i \in 1 .. n |-> remains(i)])
  BY Zenon DEF Unwritten
<1>3. ASSUME \A t \in Threads : ~Sends(t) PROVE Unwritten = <<>>
  <2>1. \A i \in 1 .. n : remains(i) = <<>>
    BY <1>3
  <2> HIDE DEF remains, n
  <2>2. [i \in 1 .. n |-> remains(i)] = Nothing(n)
    BY <2>1 DEF Nothing
  <2>3. QED
    BY <1>1, <1>2, <2>2, NothingFlat
<1>4. ASSUME NEW t \in Threads, Sends(t)
      PROVE  Unwritten = Remains(t)
  <2> DEFINE x == Remains(t)
  <2>1. /\ asked # <<>> /\ work[t].frame = asked[n] /\ x \in Wires
        /\ \A u \in Threads : Sends(u) => u = t
    BY <1>4, RemainsType DEF SendInv, Underway
  <2>2. n >= 1
    BY <1>1, <2>1, EmptySeq DEF SendInv, SendTyped
  <2>3. (CHOOSE u \in Threads : Sends(u)) = t
    BY <1>4, <2>1
  <2>4. remains(n) = x
    BY <1>4, <2>1, <2>3 DEF Remains
  <2>5. \A i \in 1 .. n - 1 : remains(i) = <<>>
    <3> SUFFICES ASSUME NEW i \in 1 .. n - 1 PROVE remains(i) = <<>>
      OBVIOUS
    <3>1. i # n
      BY <1>1
    <3>2. QED
      BY <3>1
  <2> HIDE DEF remains, x
  <2> DEFINE s == Nothing(n - 1)
             z == [i \in 1 .. n |-> remains(i)]
  <2>6. /\ s \in TextsOf(Wired) /\ Len(s) = n - 1
        /\ \A i \in 1 .. n - 1 : s[i] = <<>>
        /\ FlattenSeq(s) = <<>>
    <3>1. n - 1 \in Nat
      BY <1>1, <2>2
    <3>2. QED
      BY <3>1, NothingType, NothingFlat
  <2> HIDE DEF n
  <2>7. z \in TextsOf(Wired) /\ Len(z) = n
    <3>1. ASSUME NEW i \in 1 .. n PROVE remains(i) \in StringsOf(Wired)
      <4>1. i \in 1 .. n - 1 \/ i = n
        BY <1>1, <2>2
      <4>2. <<>> \in StringsOf(Wired)
        BY MonoidOf
      <4>3. QED
        BY <2>1, <2>4, <2>5, <4>1, <4>2 DEF Wires
    <3>2. z \in Seq(StringsOf(Wired)) /\ Len(z) = n
      BY <1>1, <3>1, IsASeq, LenProperties
    <3>3. QED
      BY <3>2 DEF TextsOf
  <2>8. /\ Len(z) = Len(s) + 1 /\ z[Len(s) + 1] = x
        /\ Extends(s, Len(s), z)
    <3>1. n \in 1 .. n /\ (n - 1) + 1 = n
      BY <1>1, <2>2
    <3>2. ASSUME NEW i \in 1 .. n - 1 PROVE z[i] = s[i]
      <4>1. i \in 1 .. n
        BY <1>1
      <4>2. QED
        BY <2>5, <2>6, <4>1
    <3>3. QED
      BY <2>4, <2>6, <2>7, <3>1, <3>2 DEF Extends
  <2> HIDE DEF s, z
  <2>9. FlattenSeq(z) = FlattenSeq(s) \o x
    BY <2>1, <2>6, <2>7, <2>8, FlattenAppendOf DEF Wires
  <2>10. FlattenSeq(z) = x
    BY <2>1, <2>6, <2>9, WiresEmpty
  <2>11. QED
    BY <1>2, <2>10 DEF x, z
<1>5. QED
  BY <1>3, <1>4

\* As long as no two threads were in sendCMD at once, the bytes on the way to
\* the board are those of the frames requested, whole and in order: the one
\* buffer m_send sends nothing of an earlier frame (MultiWii.cpp, sendCMD).
THEOREM FramesWhole == LineSpec => []SentWhole
<1> USE LineAssumption
<1>1. SendInv => SentWhole
  <2> SUFFICES ASSUME SendInv, ~overlapped
               PROVE  toBoard \o Unwritten = Line(asked)
    BY Zenon DEF SentWhole, Line, Framed
  <2>1. CASE \A t \in Threads : ~Sends(t)
    <3>1. Unwritten = <<>> /\ toBoard = Line(asked) /\ toBoard \in Wires
      BY <2>1, UnwrittenIs DEF SendInv, SendTyped
    <3>2. toBoard \o <<>> = toBoard
      BY <3>1, WiresEmpty
    <3>3. QED
      BY <3>1, <3>2
  <2>2. ASSUME NEW t \in Threads, Sends(t)
        PROVE  toBoard \o Unwritten = Line(asked)
    <3>1. Unwritten = Remains(t)
      BY <2>2, UnwrittenIs
    <3>2. toBoard \o Remains(t) = Line(asked)
      BY <2>2, Sending
    <3>3. QED
      BY <3>1, <3>2
  <2>3. QED
    BY <2>1, <2>2
<1>2. QED
  BY <1>1, SendAlways, PTL
=============================================================================
