--------------------------- MODULE WatchdogProofs ---------------------------
(***************************************************************************)
(* Theorems about Watchdog, for every number of watchdogs, every epoch,    *)
(* duration and clock resolution, and every delay of the check thread.     *)
(***************************************************************************)
EXTENDS Watchdog, TLAPS

USE NAssumption, EpochAssumption, DurationAssumption, MsAssumption,
    GapAssumption, HorizonAssumption

\* Division by an epoch or by the ticks of a millisecond.
LEMMA Division ==
  ASSUME NEW a \in Nat, NEW b \in Nat \ {0}
  PROVE  /\ a \div b \in Nat
         /\ b * (a \div b) <= a
         /\ a <= b * (a \div b) + b - 1
  OBVIOUS

\* Multiplication distributes (the provers need to be told).
LEMMA Distributes ==
  ASSUME NEW a \in Int, NEW b \in Int, NEW c \in Int
  PROVE  a * (b + c) = a * b + a * c
  OBVIOUS

\* The product of two naturals is a natural.
LEMMA ProductNat ==
  ASSUME NEW a \in Nat, NEW b \in Nat
  PROVE  a * b \in Nat
  OBVIOUS

\* The limit is a number of epochs.
LEMMA LimitType == Limit \in Nat
<1>1. Duration + Epoch - 1 \in Nat
  OBVIOUS
<1>2. QED
  BY <1>1, Division DEF Limit

\* Multiplication is monotonic ...
LEMMA Monotonic ==
  ASSUME NEW m \in Nat, NEW a \in Int, NEW b \in Int, a <= b
  PROVE  m * a <= m * b
<1>1. m * (b - a) \in Nat
  BY ProductNat
<1>2. m * b = m * a + m * (b - a)
  BY Distributes
<1>3. m * a \in Int /\ m * b \in Int
  OBVIOUS
<1>4. QED
  BY <1>1, <1>2, <1>3

\* ... and a quotient is at least what fits.
LEMMA QuotientBound ==
  ASSUME NEW m \in Nat \ {0}, NEW a \in Nat, NEW b \in Nat, m * a <= b
  PROVE  a <= b \div m
<1> DEFINE q == b \div m
<1>1. q \in Nat /\ b <= m * q + m - 1
  BY Division
<1>2. SUFFICES ASSUME q + 1 <= a PROVE FALSE
  BY <1>1
<1>3. m * (q + 1) <= m * a
  BY <1>1, <1>2, Monotonic
<1>4. m * (q + 1) = m * q + m
  BY <1>1, Distributes
<1>5. m * q \in Int /\ m * a \in Int
  BY <1>1
<1>6. QED
  BY <1>1, <1>3, <1>4, <1>5

-----------------------------------------------------------------------------
(* Types, and what is carried over.                                        *)

\* The sleep is part of the time since lastTime, and what is left after a wake
\* is at most an epoch.
Bounded == slept <= since /\ ExtraBounded

Typed == TypeOK /\ Bounded

\* What a wake measures, when the sleep took at least an epoch: the whole
\* milliseconds are split into epochs and a remainder of at most one epoch.
LEMMA WakeSplits ==
  ASSUME Typed, slept >= Epoch * Ms
  PROVE  /\ since \div Ms \in Nat /\ Measured \in Nat
         /\ NumOver \in Nat /\ Carry \in Nat /\ Carry <= Epoch
         /\ Measured = NumOver * Epoch + Carry
<1>1. since \in Nat /\ extra \in Nat /\ Epoch * Ms <= since
  BY ProductNat DEF Typed, TypeOK, Bounded
<1>2. Ms * Epoch <= since
  BY <1>1
<1>3. since \div Ms \in Nat /\ Epoch <= since \div Ms
  BY <1>1, <1>2, Division, QuotientBound
<1>4. Measured \in Nat
  BY <1>1, <1>3 DEF Measured
<1>5. CASE Measured > Epoch
  <2> DEFINE q == Measured \div Epoch
  <2>1. q \in Nat /\ Epoch * q <= Measured /\ Measured <= Epoch * q + Epoch - 1
    BY <1>4, Division
  <2>2. NumOver = q
    BY <1>5 DEF NumOver
  <2>3. q * Epoch = Epoch * q /\ q * Epoch \in Nat
    BY <2>1, ProductNat
  <2>4. Carry = Measured - q * Epoch
    BY <2>2 DEF Carry
  <2> HIDE DEF q
  <2>5. QED
    BY <1>3, <1>4, <2>1, <2>2, <2>3, <2>4
<1>6. CASE ~(Measured > Epoch)
  <2>1. NumOver = 0 /\ 0 * Epoch = 0
    BY <1>6 DEF NumOver
  <2>2. QED
    BY <1>3, <1>4, <1>6, <2>1 DEF Carry
<1>7. QED
  BY <1>5, <1>6

\* The next watchdog is one.
LEMMA AdvanceTyped ==
  ASSUME i \in Dogs, Advance
  PROVE  i' \in Dogs /\ cpc' \in {"test", "sleep", "ended"}
  BY DEF Advance, LastDog, Dogs

\* The initial state is typed.
LEMMA InitTyped == Init => Typed
<1> SUFFICES ASSUME Init PROVE Typed
  OBVIOUS
<1>1. 1 \in Dogs
  BY DEF Dogs
<1>2. /\ counts \in [Dogs -> Nat] /\ maxes \in [Dogs -> {0, Limit}]
      /\ age \in [Dogs -> Nat] /\ credit \in [Dogs -> Nat]
      /\ prompt \in [Dogs -> BOOLEAN] /\ owner \in [Dogs -> {"idle", "setMax"}]
  BY DEF Init
<1>3. /\ cpc = "sleep" /\ i \in Dogs /\ addCount \in Nat /\ extra = 0
      /\ tested = 0 /\ count \in Nat /\ since = 0 /\ slept = 0
      /\ killed = 0 /\ shutdown \in BOOLEAN
  BY <1>1 DEF Init
<1>4. TypeOK
  BY <1>2, <1>3 DEF TypeOK
<1>5. QED
  BY <1>3, <1>4 DEF Typed, Bounded, ExtraBounded

\* The owner of a watchdog keeps the types.
LEMMA OwnerTyped ==
  ASSUME NEW d \in Dogs
  PROVE  Typed /\ Owner(d) => Typed'
<1> SUFFICES ASSUME Typed, Owner(d) PROVE Typed'
  OBVIOUS
<1> USE DEF Typed, Bounded, ExtraBounded, checker, clock, history
<1>1. ASSUME Zero(d), UNCHANGED checker
      PROVE  /\ counts' \in [Dogs -> Nat] /\ age' \in [Dogs -> Nat]
             /\ credit' \in [Dogs -> Nat] /\ prompt' \in [Dogs -> BOOLEAN]
  <2>1. Pending(d) \in Nat
    BY DEF Pending, TypeOK
  <2>2. Ms * (Epoch * Pending(d) + extra) + since \in Nat
    BY <2>1, ProductNat DEF TypeOK
  <2>3. QED
    BY <1>1, <2>2 DEF Zero, TypeOK
<1>2. CASE Start(d)
  BY <1>1, <1>2 DEF Start, TypeOK
<1>3. CASE SetMax(d)
  BY <1>3, LimitType DEF SetMax, TypeOK
<1>4. CASE Ok(d)
  BY <1>1, <1>4 DEF Ok, TypeOK
<1>5. CASE Stop(d)
  BY <1>5 DEF Stop, TypeOK
<1>6. QED
  BY <1>2, <1>3, <1>4, <1>5 DEF Owner

\* The check thread keeps the types.
LEMMA CheckTyped == Typed /\ CheckThread => Typed'
<1> SUFFICES ASSUME Typed, CheckThread PROVE Typed'
  OBVIOUS
<1> USE DEF Bounded, ExtraBounded, clock, history
<1>1. CASE Wake
  <2>1. /\ addCount' \in Nat /\ extra' \in Nat /\ extra' <= Epoch
        /\ i' \in Dogs
    BY <1>1, WakeSplits DEF Wake, Elapsed, Dogs
  <2>2. QED
    BY <1>1, <2>1 DEF Wake, Typed, TypeOK
<1>2. CASE Increment
  <2>1. counts[i] + addCount \in Nat
    BY DEF Typed, TypeOK
  <2>2. counts' \in [Dogs -> Nat]
    BY <1>2, <2>1 DEF Increment, Typed, TypeOK
  <2>3. i' \in Dogs /\ cpc' \in {"increment", "test"}
    <3>1. /\ i \in Dogs
          /\ \/ i < LastDog /\ i' = i + 1 /\ cpc' = "increment"
             \/ i' = 1 /\ cpc' = "test"
      BY <1>2, Zenon DEF Increment, Typed, TypeOK
    <3>2. QED
      BY <3>1, NAssumption DEF Dogs, LastDog
  <2>4. QED
    BY <1>2, <2>2, <2>3 DEF Increment, Typed, TypeOK
<1>3. CASE Test
  <2>1. i' \in Dogs /\ cpc' \in {"load", "test", "sleep", "ended"}
    BY <1>3, AdvanceTyped DEF Test, Typed, TypeOK
  <2>2. QED
    BY <1>3, <2>1 DEF Test, Typed, TypeOK
<1>4. CASE LoadCount
  BY <1>4 DEF LoadCount, Typed, TypeOK
<1>5. CASE Compare
  <2>1. CASE killed' = i /\ UNCHANGED <<i, cpc>>
    BY <1>5, <2>1 DEF Compare, Dogs, Typed, TypeOK
  <2>2. CASE Advance /\ UNCHANGED killed
    BY <1>5, <2>2, AdvanceTyped DEF Compare, Typed, TypeOK
  <2>3. QED
    BY <1>5, <2>1, <2>2 DEF Compare
<1>6. QED
  BY <1>1, <1>2, <1>3, <1>4, <1>5 DEF CheckThread

\* Every step keeps the types.
LEMMA NextTyped == Typed /\ [Next]_vars => Typed'
<1> SUFFICES ASSUME Typed, [Next]_vars PROVE Typed'
  OBVIOUS
<1>1. CASE Tick
  BY <1>1 DEF Tick, checker, history, Typed, TypeOK, Bounded, ExtraBounded
<1>2. CASE Destroy
  BY <1>2 DEF Destroy, checker, clock, history, Typed, TypeOK, Bounded,
              ExtraBounded
<1>3. CASE UNCHANGED vars
  BY <1>3 DEF vars, checker, clock, history, Typed, TypeOK, Bounded,
              ExtraBounded
<1>4. QED
  BY <1>1, <1>2, <1>3, OwnerTyped, CheckTyped DEF Next

\* Type correctness: in particular extra, a signed number of milliseconds in
\* check_thread, never becomes negative.
THEOREM TypeCorrect == Spec => []TypeOK
<1>1. Typed => TypeOK
  BY DEF Typed
<1>2. QED
  BY InitTyped, NextTyped, <1>1, PTL DEF Spec

\* However late the check thread wakes, it carries at most one epoch over.
THEOREM CarryBound == Spec => []ExtraBounded
<1>1. Typed => ExtraBounded
  BY DEF Typed, Bounded
<1>2. QED
  BY InitTyped, NextTyped, <1>1, PTL DEF Spec

-----------------------------------------------------------------------------
(* The bookkeeping.                                                        *)

\* The epochs charged to a counter, or about to be.
Charged(d) == counts[d] + Pending(d)

\* The invariant for one watchdog.
Conserved(d) ==
    /\ Booked(d) <= age[d] + credit[d]
    /\ age[d] + credit[d] <= Booked(d) + (Ms - 1) * Charged(d)

\* What is booked, from its parts.
LEMMA BookedIs ==
  ASSUME TypeOK, NEW d \in Dogs
  PROVE  /\ Pending(d) \in Nat /\ Charged(d) \in Nat /\ Booked(d) \in Nat
         /\ Booked(d) = Ms * (Epoch * Charged(d) + extra) + since
<1>1. Pending(d) \in Nat /\ counts[d] \in Nat
  BY DEF TypeOK, Pending
<1>2. Charged(d) \in Nat
  BY <1>1 DEF Charged
<1>3. Ms * (Epoch * Charged(d) + extra) + since \in Nat
  BY <1>2, ProductNat DEF TypeOK
<1>4. QED
  BY <1>1, <1>2, <1>3 DEF Booked, Charged

\* A step that keeps all that is booked keeps the invariant.
LEMMA SameBooks ==
  ASSUME TypeOK, TypeOK', NEW d \in Dogs, Conserved(d),
         UNCHANGED <<extra, since>>, UNCHANGED <<age, credit>>,
         Charged(d)' = Charged(d)
  PROVE  Conserved(d)'
<1>1. Booked(d)' = Booked(d)
  BY BookedIs DEF Booked, Charged
<1>2. QED
  BY <1>1 DEF Conserved

\* Zeroing a counter opens its books anew.
LEMMA ZeroConserved ==
  ASSUME Typed, Typed', NEW d \in Dogs, NEW e \in Dogs, Conserved(e),
         Zero(d), UNCHANGED checker, UNCHANGED since
  PROVE  Conserved(e)'
<1>1. Pending(e)' = Pending(e) /\ UNCHANGED <<extra, since>>
  BY DEF Pending, checker
<1>2. CASE e # d
  <2>1. UNCHANGED <<counts[e], age[e], credit[e]>>
    BY <1>2 DEF Zero, Typed, TypeOK
  <2>2. QED
    BY <1>1, <2>1 DEF Conserved, Booked, Charged
<1>3. CASE e = d
  <2>1. counts'[e] = 0 /\ age'[e] = 0
        /\ credit'[e] = Ms * (Epoch * Pending(e) + extra) + since
    BY <1>3 DEF Zero, Typed, TypeOK
  <2>2. Charged(e)' = Pending(e) /\ Pending(e) \in Nat
    BY <1>1, <2>1, BookedIs DEF Charged, Typed
  <2>3. Booked(e)' = credit'[e] /\ credit'[e] \in Nat
    <3>1. Booked(e)' =
            Ms * (Epoch * (counts'[e] + Pending(e)') + extra') + since'
      BY DEF Booked
    <3>2. counts'[e] + Pending(e)' = Pending(e)
      BY <1>1, <2>1, <2>2
    <3>3. credit'[e] \in Nat
      BY DEF Typed, TypeOK
    <3>4. QED
      BY <1>1, <2>1, <3>1, <3>2, <3>3
  <2>4. (Ms - 1) * Charged(e)' \in Nat
    BY <2>2, ProductNat
  <2>5. QED
    BY <2>1, <2>3, <2>4 DEF Conserved
<1>4. QED
  BY <1>2, <1>3

\* A wake moves the time it measured to the books: in whole milliseconds, so
\* it loses less than one, and it charges at least one epoch.
LEMMA WakeConserved ==
  ASSUME Typed, Typed', NEW d \in Dogs, Conserved(d), Wake
  PROVE  Conserved(d)'
<1> DEFINE q == since \div Ms
           c == Charged(d)
           n == NumOver
<1>1. /\ q \in Nat /\ n \in Nat /\ Carry \in Nat /\ c \in Nat
      /\ Measured = n * Epoch + Carry
  BY WakeSplits, BookedIs DEF Wake, Elapsed, Typed
<1>2. Ms * q <= since /\ since <= Ms * q + Ms - 1
  BY Division DEF Typed, TypeOK
<1>3. Charged(d)' = c + (1 + n)
  <2>1. c = counts[d] /\ Pending(d)' = 1 + n /\ counts'[d] = counts[d]
    BY <1>1 DEF Wake, Charged, Pending, Dogs, Typed, TypeOK
  <2>2. QED
    BY <2>1 DEF Charged
<1>4. Epoch * Charged(d)' + extra' = Epoch * c + extra + q
  <2>1. Epoch * (c + (1 + n)) = Epoch * c + Epoch + n * Epoch
    BY <1>1, Distributes
  <2>2. extra' = Carry /\ extra + q - Epoch = n * Epoch + Carry
    BY <1>1 DEF Wake, Measured
  <2>3. n * Epoch \in Nat /\ Epoch * c \in Nat /\ extra \in Nat
    BY <1>1, ProductNat DEF Typed, TypeOK
  <2>4. q \in Nat /\ n \in Nat /\ Carry \in Nat
    BY <1>1
  <2> HIDE DEF q, c, n
  <2>5. Epoch * Charged(d)' = Epoch * c + Epoch + n * Epoch
    BY <1>3, <2>1
  <2> DEFINE a == Epoch * c
             b == n * Epoch
  <2>6. a + Epoch + b + Carry = a + extra + q
    <3> a \in Nat /\ b \in Nat /\ extra \in Nat /\ Epoch \in Nat
      BY <2>3
    <3> extra + q - Epoch = b + Carry
      BY <2>2
    <3> HIDE DEF a, b
    <3> QED
      BY <2>4
  <2>7. QED
    BY <2>2, <2>5, <2>6
<1>5. Booked(d)' = Ms * (Epoch * c + extra) + Ms * q
  <2>1. Booked(d)' = Ms * (Epoch * Charged(d)' + extra') + since'
    BY DEF Booked, Charged
  <2>2. since' = 0
    BY DEF Wake
  <2>3. Epoch * c + extra \in Nat
    BY <1>1, ProductNat DEF Typed, TypeOK
  <2>4. Ms * (Epoch * c + extra + q) = Ms * (Epoch * c + extra) + Ms * q
    BY <1>1, <2>3, Distributes
  <2>5. Ms * (Epoch * c + extra + q) \in Nat
    BY <1>1, <2>3, ProductNat
  <2> HIDE DEF q, c, n
  <2>6. QED
    BY <1>4, <2>1, <2>2, <2>4, <2>5
<1>6. Booked(d) = Ms * (Epoch * c + extra) + since
  BY BookedIs DEF Typed
<1>7. (Ms - 1) * Charged(d)' >= (Ms - 1) * c + (Ms - 1)
  <2>1. (Ms - 1) * (c + 1) = (Ms - 1) * c + (Ms - 1)
    BY <1>1, Distributes
  <2>2. (Ms - 1) * (c + 1) <= (Ms - 1) * Charged(d)'
    BY <1>1, <1>3, Monotonic
  <2>3. QED
    BY <2>1, <2>2
<1>8. UNCHANGED <<age, credit>>
  BY DEF Wake, history
<1>9. /\ Ms * (Epoch * c + extra) \in Nat /\ Ms * q \in Nat
      /\ (Ms - 1) * c \in Nat /\ (Ms - 1) * Charged(d)' \in Nat
      /\ age[d] \in Nat /\ credit[d] \in Nat /\ since \in Nat
  BY <1>1, <1>3, ProductNat DEF Typed, TypeOK
<1> HIDE DEF q, c, n
<1>10. QED
  BY <1>2, <1>5, <1>6, <1>7, <1>8, <1>9 DEF Conserved, c

\* The check thread's other steps move what is pending into the counters, or
\* touch neither.
LEMMA IncrementConserved ==
  ASSUME Typed, Typed', NEW d \in Dogs, Conserved(d), Increment
  PROVE  Conserved(d)'
<1>1. UNCHANGED <<extra, since, age, credit, addCount>>
  BY DEF Increment, clock, history
<1>2. /\ counts'[d] = IF d = i THEN counts[d] + addCount ELSE counts[d]
      /\ counts[d] \in Nat /\ addCount \in Nat
  BY DEF Increment, Typed, TypeOK
<1>3. Charged(d) = counts[d] + (IF i <= d THEN addCount ELSE 0)
  BY DEF Increment, Charged, Pending
<1>4. Pending(d)' = IF i < d THEN addCount ELSE 0
  <2>1. i \in 1 .. N /\ d \in 1 .. N
    BY DEF Typed, TypeOK, Dogs
  <2>2. CASE i < N
    BY <1>1, <2>1, <2>2 DEF Increment, LastDog, Pending
  <2>3. CASE i = N
    BY <2>1, <2>3 DEF Increment, LastDog, Pending
  <2>4. QED
    BY <2>1, <2>2, <2>3
<1>5. Charged(d)' = Charged(d)
  <2>1. i \in Nat /\ d \in Nat
    BY DEF Typed, TypeOK, Dogs
  <2>2. Charged(d)' = counts'[d] + Pending(d)'
    BY DEF Charged
  <2>3. QED
    BY <1>2, <1>3, <1>4, <2>1, <2>2
<1>6. QED
  BY <1>1, <1>5, SameBooks DEF Typed

\* A step that leaves the books alone, and stays out of the increment, keeps
\* every watchdog's account balanced.
LEMMA OtherConserved ==
  ASSUME Typed, Typed', NEW d \in Dogs, Conserved(d),
         UNCHANGED <<counts, addCount, extra, since, age, credit>>,
         cpc # "increment", cpc' # "increment"
  PROVE  Conserved(d)'
<1>1. Charged(d)' = Charged(d)
  BY DEF Charged, Pending
<1>2. QED
  BY <1>1, SameBooks DEF Typed

\* Every step keeps the books.
LEMMA NextConserved ==
  ASSUME Typed, Typed', NEW d \in Dogs, Conserved(d), [Next]_vars
  PROVE  Conserved(d)'
<1>1. ASSUME NEW e \in Dogs, Owner(e) PROVE Conserved(d)'
  <2>1. CASE Start(e) \/ Ok(e)
    BY <2>1, ZeroConserved DEF Start, Ok
  <2>2. CASE SetMax(e) \/ Stop(e)
    <3>1. UNCHANGED <<counts, cpc, i, addCount, extra, since, age, credit>>
      BY <2>2 DEF SetMax, Stop, checker, clock, history
    <3>2. Charged(d)' = Charged(d)
      BY <3>1 DEF Charged, Pending
    <3>3. QED
      BY <3>1, <3>2, SameBooks DEF Typed
  <2>3. QED
    BY <1>1, <2>1, <2>2 DEF Owner
<1>2. CASE Destroy \/ UNCHANGED vars
  <2>1. UNCHANGED <<counts, cpc, i, addCount, extra, since, age, credit>>
    BY <1>2 DEF Destroy, vars, checker, clock, history
  <2>2. Charged(d)' = Charged(d)
    BY <2>1 DEF Charged, Pending
  <2>3. QED
    BY <2>1, <2>2, SameBooks DEF Typed
<1>3. CASE Tick
  <2>1. /\ UNCHANGED <<counts, cpc, i, addCount, extra, credit>>
        /\ since' = since + 1 /\ age'[d] = age[d] + 1
    BY <1>3 DEF Tick, checker, history, Typed, TypeOK
  <2>2. Charged(d)' = Charged(d) /\ Pending(d)' = Pending(d)
    BY <2>1 DEF Charged, Pending
  <2>3. /\ Booked(d) = Ms * (Epoch * Charged(d) + extra) + since
        /\ Booked(d)' = Ms * (Epoch * Charged(d) + extra) + (since + 1)
    BY <2>1, <2>2 DEF Booked, Charged
  <2>4. /\ Ms * (Epoch * Charged(d) + extra) \in Nat
        /\ (Ms - 1) * Charged(d) \in Nat
        /\ since \in Nat /\ age[d] \in Nat /\ credit[d] \in Nat
    BY BookedIs, ProductNat DEF Typed, TypeOK
  <2>5. QED
    BY <2>1, <2>2, <2>3, <2>4 DEF Conserved
<1>4. CASE Wake
  BY <1>4, WakeConserved
<1>5. CASE Increment
  BY <1>5, IncrementConserved
<1>6. CASE Test \/ LoadCount \/ Compare
  <2>1. cpc # "increment" /\ cpc' # "increment"
    BY <1>6, AdvanceTyped DEF Test, LoadCount, Compare, Typed, TypeOK
  <2>2. UNCHANGED <<counts, addCount, extra, since, age, credit>>
    BY <1>6 DEF Test, LoadCount, Compare, clock, history
  <2>3. QED
    BY <2>1, <2>2, OtherConserved
<1>7. QED
  BY <1>1, <1>2, <1>3, <1>4, <1>5, <1>6 DEF Next, CheckThread

\* check_thread invents no time and loses less than a millisecond per epoch it
\* charges, whatever the epoch, the number of watchdogs and the delays.
THEOREM TimeAccounted == Spec => []TimeConserved
<1> DEFINE Books == \A d \in Dogs : Conserved(d)
<1>1. Init => Books
  <2> SUFFICES ASSUME Init, NEW d \in Dogs PROVE Conserved(d)
    OBVIOUS
  <2>1. /\ Charged(d) = 0 /\ age[d] = 0 /\ credit[d] = 0
        /\ extra = 0 /\ since = 0
    BY DEF Init, Charged, Pending
  <2>2. Booked(d) = 0
    BY <2>1, InitTyped, BookedIs DEF Typed
  <2>3. QED
    BY <2>1, <2>2 DEF Conserved
<1>2. Typed /\ Books /\ [Next]_vars => Books'
  BY NextTyped, NextConserved
<1>3. Books => TimeConserved
  BY DEF Conserved, TimeConserved, Charged
<1> HIDE DEF Books
<1>4. QED
  BY <1>1, <1>2, <1>3, InitTyped, NextTyped, PTL DEF Spec

-----------------------------------------------------------------------------
(* Who is over the limit was silent.                                       *)

\* The clock of a wake is within the bound on the gaps, what a wake is about to
\* charge is the carry and one gap, and so is what a fresh counter owes.
SinceBound == since <= IF cpc = "sleep" THEN MaxGap ELSE MaxGap - Epoch * Ms

ChargeBound ==
    cpc = "increment" => Ms * (Epoch * addCount + extra) <= Ms * Epoch + MaxGap

CreditBound == \A d \in Dogs : credit[d] <= Slack

Clocked == SinceBound /\ ChargeBound /\ CreditBound

\* The products the bounds are made of.
LEMMA Products ==
  /\ Ms * Epoch = Epoch * Ms /\ Ms * Epoch \in Nat
  /\ Ms * Epoch <= MaxGap /\ Slack = MaxGap + MaxGap
<1>1. Ms * Epoch = Epoch * Ms /\ Ms * Epoch \in Nat
  BY ProductNat
<1>2. QED
  BY <1>1 DEF Slack

\* Before the first wake nothing is owed.
LEMMA InitClocked == Init => Clocked
<1> SUFFICES ASSUME Init PROVE Clocked
  OBVIOUS
<1>1. SinceBound /\ ChargeBound
  BY Products DEF Init, SinceBound, ChargeBound
<1>2. CreditBound
  BY Products DEF Init, CreditBound
<1>3. QED
  BY <1>1, <1>2 DEF Clocked

\* The milliseconds a wake measured are what it charges and carries.
LEMMA WakeCharges ==
  ASSUME Typed, Clocked, Wake
  PROVE  Clocked'
<1> DEFINE q == since \div Ms
           n == NumOver
<1>1. /\ q \in Nat /\ n \in Nat /\ Carry \in Nat
      /\ Measured = n * Epoch + Carry
  BY WakeSplits DEF Wake, Elapsed
<1>2. since \in Nat /\ extra \in Nat /\ extra <= Epoch /\ Ms * q <= since
  BY Division DEF Typed, TypeOK, Bounded, ExtraBounded
<1>3. addCount' = 1 + n /\ extra' = Carry /\ since' = 0 /\ cpc' = "increment"
  BY DEF Wake
<1>4. since <= MaxGap
  BY DEF Wake, Clocked, SinceBound
<1>5. Epoch * (1 + n) = Epoch + n * Epoch /\ n * Epoch \in Nat
  BY <1>1, Distributes, ProductNat
<1>6. Measured = extra + q - Epoch
  BY DEF Measured
<1> HIDE DEF q, n
<1>7. Epoch * addCount' + extra' = extra + q
  BY <1>1, <1>2, <1>3, <1>5, <1>6
<1>8. Ms * (extra + q) = Ms * extra + Ms * q
  BY <1>1, <1>2, Distributes
<1>9. Ms * extra <= Ms * Epoch /\ Ms * extra \in Nat /\ Ms * q \in Nat
  BY <1>1, <1>2, Monotonic, ProductNat
<1>10. ChargeBound'
  BY <1>2, <1>4, <1>7, <1>8, <1>9, Products DEF ChargeBound
<1>11. SinceBound'
  BY <1>3, Products DEF SinceBound
<1>12. CreditBound'
  BY DEF Wake, history, Clocked, CreditBound
<1>13. QED
  BY <1>10, <1>11, <1>12 DEF Clocked

\* A counter just zeroed owes at most the carry and the gap it falls in.
LEMMA ZeroOwes ==
  ASSUME Typed, Typed', Clocked, NEW d \in Dogs, Zero(d), UNCHANGED checker,
         UNCHANGED since
  PROVE  Clocked'
<1>1. UNCHANGED <<cpc, i, addCount, extra, since>>
  BY DEF checker
<1>2. SinceBound' /\ ChargeBound'
  BY <1>1 DEF Clocked, SinceBound, ChargeBound
<1>3. credit'[d] = Ms * (Epoch * Pending(d) + extra) + since
  BY DEF Zero, Typed, TypeOK
<1>4. /\ since \in Nat /\ extra \in Nat /\ extra <= Epoch /\ addCount \in Nat
      /\ MaxGap \in Nat
  BY DEF Typed, TypeOK, Bounded, ExtraBounded
<1>5. credit'[d] <= Slack
  <2>1. CASE cpc = "increment" /\ i <= d
    <3>1. Pending(d) = addCount
      BY <2>1 DEF Pending
    <3>2. Ms * (Epoch * addCount + extra) <= Ms * Epoch + MaxGap
      BY <2>1 DEF Clocked, ChargeBound
    <3>3. since <= MaxGap - Epoch * Ms
      BY <2>1 DEF Clocked, SinceBound
    <3>4. Ms * (Epoch * addCount + extra) \in Nat
      BY <1>4, ProductNat
    <3>5. QED
      BY <1>3, <1>4, <3>1, <3>2, <3>3, <3>4, Products
  <2>2. CASE ~(cpc = "increment" /\ i <= d)
    <3>1. Epoch * Pending(d) = 0
      BY <2>2 DEF Pending
    <3>2. Ms * extra <= Ms * Epoch /\ Ms * extra \in Nat
      BY <1>4, Monotonic, ProductNat
    <3>3. since <= MaxGap
      BY <1>4, Products DEF Clocked, SinceBound
    <3>4. credit'[d] = Ms * extra + since
      BY <1>3, <1>4, <3>1
    <3>5. QED
      BY <1>4, <3>2, <3>3, <3>4, Products
  <2>3. QED
    BY <2>1, <2>2
<1>6. CreditBound'
  <2> SUFFICES ASSUME NEW e \in Dogs PROVE credit'[e] <= Slack
    BY DEF CreditBound, Slack
  <2>1. CASE e = d
    BY <1>5, <2>1
  <2>2. CASE e # d
    BY <2>2 DEF Zero, Typed, TypeOK, Clocked, CreditBound
  <2>3. QED
    BY <2>1, <2>2
<1>7. QED
  BY <1>2, <1>6 DEF Clocked

\* A step that touches neither the clock of a wake nor what it is to charge.
LEMMA OtherClocked ==
  ASSUME Clocked, UNCHANGED <<since, credit, addCount, extra>>,
         Typed, cpc' = cpc \/ (cpc # "sleep" /\ cpc' # "increment")
  PROVE  Clocked'
<1>1. CreditBound'
  BY DEF Clocked, CreditBound, Slack
<1>2. SinceBound' /\ ChargeBound'
  BY Products DEF Clocked, SinceBound, ChargeBound, Typed, TypeOK
<1>3. QED
  BY <1>1, <1>2 DEF Clocked

\* Every step keeps the bounds.
LEMMA NextClocked == Typed /\ Typed' /\ Clocked /\ [Next]_vars => Clocked'
<1> SUFFICES ASSUME Typed, Typed', Clocked, [Next]_vars PROVE Clocked'
  OBVIOUS
<1>1. ASSUME NEW d \in Dogs, Owner(d) PROVE Clocked'
  <2>1. CASE Start(d) \/ Ok(d)
    BY <2>1, ZeroOwes DEF Start, Ok
  <2>2. CASE SetMax(d) \/ Stop(d)
    BY <2>2, OtherClocked DEF SetMax, Stop, checker, clock, history
  <2>3. QED
    BY <1>1, <2>1, <2>2 DEF Owner
<1>2. CASE Destroy \/ UNCHANGED vars
  BY <1>2, OtherClocked DEF Destroy, vars, checker, clock, history
<1>3. CASE Tick
  <2>1. SinceBound'
    BY <1>3, Products DEF Tick, SinceBound, checker, Typed, TypeOK
  <2>2. ChargeBound' /\ CreditBound'
    BY <1>3 DEF Tick, checker, history, Clocked, ChargeBound, CreditBound,
                Slack
  <2>3. QED
    BY <2>1, <2>2 DEF Clocked
<1>4. CASE Wake
  BY <1>4, WakeCharges
<1>5. CASE Increment
  BY <1>5, OtherClocked DEF Increment, clock, history
<1>6. CASE Test \/ LoadCount \/ Compare
  <2>1. cpc # "sleep" /\ cpc' # "increment"
    BY <1>6, AdvanceTyped DEF Test, LoadCount, Compare, Typed, TypeOK
  <2>2. UNCHANGED <<addCount, extra, since, credit>>
    BY <1>6 DEF Test, LoadCount, Compare, clock, history
  <2>3. QED
    BY <2>1, <2>2, OtherClocked
<1>7. QED
  BY <1>1, <1>2, <1>3, <1>4, <1>5, <1>6 DEF Next, CheckThread

\* The books and the bounds together: a counter over its limit was charged at
\* least Limit + 1 epochs, of which its owner's silence explains all but the
\* slack.
LEMMA BooksBoundSilence ==
  ASSUME Typed, Clocked, TimeConserved
  PROVE  OverLimitMeansSilent
<1> SUFFICES ASSUME NEW d \in Dogs, counts[d] > Limit
             PROVE  age[d] + Slack >= Ms * Epoch * (Limit + 1)
  BY DEF OverLimitMeansSilent
<1> DEFINE l == Limit + 1
           c == Charged(d)
<1>1. l \in Nat /\ c \in Nat /\ l <= c
  BY LimitType, BookedIs DEF Charged, Typed, TypeOK
<1>2. /\ age[d] \in Nat /\ credit[d] \in Nat /\ extra \in Nat /\ since \in Nat
      /\ credit[d] <= Slack /\ Slack \in Nat
  BY Products DEF Typed, TypeOK, Clocked, CreditBound
<1>3. Booked(d) <= age[d] + credit[d]
  BY DEF TimeConserved
<1>4. Booked(d) = Ms * (Epoch * c + extra) + since
  BY BookedIs DEF Typed
<1> HIDE DEF l, c
<1>5. Epoch * l <= Epoch * c + extra
  <2>1. Epoch * l <= Epoch * c /\ Epoch * l \in Nat /\ Epoch * c \in Nat
    BY <1>1, Monotonic, ProductNat
  <2>2. QED
    BY <1>2, <2>1
<1>6. Ms * (Epoch * l) <= Ms * (Epoch * c + extra)
  BY <1>1, <1>2, <1>5, Monotonic, ProductNat
<1>7. Ms * (Epoch * l) = Ms * Epoch * l /\ Ms * (Epoch * l) \in Nat
      /\ Ms * (Epoch * c + extra) \in Nat
  BY <1>1, <1>2, ProductNat
<1>8. QED
  BY <1>2, <1>3, <1>4, <1>6, <1>7 DEF l

\* However late the check thread wakes, within MaxGap, and whatever the owners
\* do: a counter over its limit means its owner was silent for the duration but
\* for two gaps.
THEOREM OverLimitSilent == Spec => []OverLimitMeansSilent
<1>1. Typed /\ Clocked /\ TimeConserved => OverLimitMeansSilent
  BY BooksBoundSilence
<1>2. Typed /\ Clocked /\ [Next]_vars => Typed' /\ Clocked'
  BY NextTyped, NextClocked
<1>3. QED
  BY <1>1, <1>2, InitTyped, InitClocked, TimeAccounted, PTL DEF Spec

-----------------------------------------------------------------------------
(* Who is silent is noticed.                                               *)

\* The check of watchdog d is still to come in this pass of the check thread,
\* or it is on its way with a limit and a counter that will kill.
Ahead(d) ==
    \/ cpc = "increment" /\ d < i
    \/ cpc \in {"test", "load"} /\ i <= d
    \/ cpc = "compare" /\ (i < d \/ (i = d /\ counts[d] <= count))

\* start() was not torn apart by an epoch, and its limit still stands.
Guarded(d) == maxes[d] # 0 /\ prompt[d]

\* A guarded counter is over its limit only until its check.
Due(d) == Alive /\ Guarded(d) /\ Limit < counts[d] => Ahead(d)

\* The check thread compares only with a limit; it ends after destroy(), when
\* no watchdog runs and none will start.
Watching ==
    /\ cpc \in {"load", "compare"} => tested # 0
    /\ shutdown => \A d \in Dogs : maxes[d] = 0 /\ owner[d] = "idle"
    /\ cpc = "ended" => shutdown

\* The longest silence a wake finds with a counter not over its limit.
Silence == Ms * (Epoch * Limit + Epoch) + MaxGap + (Ms - 1) * Limit

\* During a pass, silence is what that wake found and the time since.
Silent(d) ==
    cpc # "sleep" /\ (counts[d] <= Limit \/ (Alive /\ Guarded(d)))
        => age[d] <= Silence + since

Noticed == Watching /\ \A d \in Dogs : Due(d) /\ Silent(d)

\* The longest silence is a number of ticks.
LEMMA SilenceType ==
  /\ Silence \in Nat
  /\ Silence = Ms * (Epoch * Limit) + Ms * Epoch + MaxGap + (Ms - 1) * Limit
<1>1. /\ Epoch * Limit \in Nat /\ Ms * (Epoch * Limit) \in Nat
      /\ Ms * Epoch \in Nat /\ (Ms - 1) * Limit \in Nat
  BY LimitType, ProductNat
<1>2. Ms * (Epoch * Limit + Epoch) = Ms * (Epoch * Limit) + Ms * Epoch
  BY <1>1, Distributes
<1>3. QED
  BY <1>1, <1>2 DEF Silence

\* With a counter not over the limit and nothing pending, the books bound the
\* silence: this is what a wake finds.
LEMMA WakeFinds ==
  ASSUME Typed, Clocked, NEW d \in Dogs, Conserved(d), cpc = "sleep",
         counts[d] <= Limit
  PROVE  age[d] <= Silence
<1> DEFINE c == counts[d]
<1>1. /\ c \in Nat /\ extra \in Nat /\ since \in Nat /\ age[d] \in Nat
      /\ credit[d] \in Nat /\ extra <= Epoch /\ c <= Limit
  BY DEF Typed, TypeOK, Bounded, ExtraBounded
<1>2. since <= MaxGap
  BY DEF Clocked, SinceBound
<1>3. Charged(d) = c
  BY <1>1 DEF Charged, Pending
<1>4. age[d] <= Ms * (Epoch * c + extra) + since + (Ms - 1) * c
  <2>1. age[d] + credit[d] <= Booked(d) + (Ms - 1) * c
    BY <1>3 DEF Conserved
  <2>2. Booked(d) = Ms * (Epoch * c + extra) + since /\ Booked(d) \in Nat
    BY <1>3, BookedIs DEF Typed
  <2>3. (Ms - 1) * c \in Nat
    BY <1>1, ProductNat
  <2> HIDE DEF c
  <2>4. QED
    BY <1>1, <2>1, <2>2, <2>3
<1> HIDE DEF c
<1>5. Epoch * c <= Epoch * Limit /\ Epoch * c \in Nat /\ Epoch * Limit \in Nat
  BY <1>1, LimitType, Monotonic, ProductNat
<1>6. Ms * (Epoch * c + extra) <= Ms * (Epoch * Limit + Epoch)
  BY <1>1, <1>5, Monotonic
<1>7. (Ms - 1) * c <= (Ms - 1) * Limit
  BY <1>1, LimitType, Monotonic
<1>8. /\ Ms * (Epoch * c + extra) \in Nat /\ (Ms - 1) * c \in Nat
      /\ Ms * (Epoch * Limit + Epoch) \in Nat /\ (Ms - 1) * Limit \in Nat
  BY <1>1, <1>5, LimitType, ProductNat
<1>9. QED
  BY <1>1, <1>2, <1>4, <1>6, <1>7, <1>8 DEF Silence

\* Before the first wake no watchdog runs.
LEMMA InitNoticed == Init => Noticed
<1> SUFFICES ASSUME Init PROVE Noticed
  OBVIOUS
<1>1. Watching
  BY DEF Init, Watching
<1>2. ASSUME NEW d \in Dogs PROVE Due(d) /\ Silent(d)
  BY DEF Init, Due, Guarded, Silent
<1>3. QED
  BY <1>1, <1>2 DEF Noticed

\* Every step keeps what the check thread compares with a limit.
LEMMA NextWatching == Typed /\ Watching /\ [Next]_vars => Watching'
<1> SUFFICES ASSUME Typed, Watching, [Next]_vars PROVE Watching'
  OBVIOUS
<1> USE DEF Watching
<1>1. ASSUME NEW d \in Dogs, Owner(d) PROVE Watching'
  <2>1. UNCHANGED <<checker, shutdown>>
    BY <1>1 DEF Owner, Start, SetMax, Ok, Stop
  <2>2. CASE ~shutdown
    BY <2>1, <2>2 DEF checker
  <2>3. CASE shutdown
    BY <1>1, <2>3 DEF Owner, Start, SetMax, Ok, Stop
  <2>4. QED
    BY <2>2, <2>3 DEF Typed, TypeOK
<1>2. CASE Destroy
  BY <1>2 DEF Destroy, checker
<1>3. CASE Tick \/ UNCHANGED vars
  BY <1>3 DEF Tick, vars, checker
<1>4. CASE Wake \/ Increment \/ LoadCount
  BY <1>4 DEF Wake, Increment, LoadCount
<1>5. CASE Test
  BY <1>5 DEF Test, Advance, Loops
<1>6. CASE Compare
  BY <1>6 DEF Compare, Advance, Loops
<1>7. QED
  BY <1>1, <1>2, <1>3, <1>4, <1>5, <1>6 DEF Next, CheckThread

\* A zeroed counter is not over the limit and its owner not silent.
LEMMA ZeroNoticed ==
  ASSUME Typed, Typed', NEW d \in Dogs, NEW e \in Dogs, Zero(d),
         Due(e), Silent(e), UNCHANGED <<maxes, cpc, i, count, since, killed>>
  PROVE  Due(e)' /\ Silent(e)'
<1>1. CASE e = d
  <2>1. counts'[e] = 0 /\ age'[e] = 0
    BY <1>1 DEF Zero, Typed, TypeOK
  <2>2. Limit \in Nat /\ Silence \in Nat /\ since' \in Nat
    BY LimitType, SilenceType DEF Typed, TypeOK
  <2>3. ~(Limit < counts'[e]) /\ age'[e] <= Silence + since'
    BY <2>1, <2>2
  <2>4. QED
    BY <2>3 DEF Due, Silent, Silence, Limit
<1>2. CASE e # d
  <2>1. UNCHANGED <<counts[e], age[e], prompt[e]>>
    BY <1>2 DEF Zero, Typed, TypeOK
  <2>2. QED
    BY <2>1 DEF Due, Silent, Alive, Guarded, Ahead, Silence, Limit
<1>3. QED
  BY <1>1, <1>2

\* The limit takes effect on a counter still at zero, or start() was torn.
LEMMA SetMaxNoticed ==
  ASSUME Typed, NEW d \in Dogs, NEW e \in Dogs, SetMax(d), Due(e), Silent(e)
  PROVE  Due(e)' /\ Silent(e)'
<1>1. UNCHANGED <<counts, age, cpc, i, count, since, killed>>
  BY DEF SetMax, checker, clock
<1>2. CASE e = d
  <2>1. prompt'[e] => counts[e] = 0
    BY <1>2, Zenon DEF SetMax, Typed, TypeOK
  <2>2. Limit \in Nat
    BY LimitType
  <2>3. counts[e] = 0 => counts[e] <= Limit /\ ~(Limit < counts[e])
    BY <2>2
  <2>4. Guarded(e)' => counts[e] <= Limit /\ ~(Limit < counts[e])
    BY <2>1, <2>3 DEF Guarded
  <2>5. QED
    BY <1>1, <2>4 DEF Due, Silent, Silence, Limit
<1>3. CASE e # d
  <2>1. UNCHANGED <<maxes[e], prompt[e]>>
    BY <1>3 DEF SetMax, Typed, TypeOK
  <2>2. QED
    BY <1>1, <2>1 DEF Due, Silent, Alive, Guarded, Ahead, Silence, Limit
<1>4. QED
  BY <1>2, <1>3

\* The owner's steps.
LEMMA OwnerNoticed ==
  ASSUME Typed, Typed', NEW d \in Dogs, NEW e \in Dogs, Owner(d),
         Due(e), Silent(e)
  PROVE  Due(e)' /\ Silent(e)'
<1>1. CASE Start(d) \/ Ok(d)
  BY <1>1, ZeroNoticed DEF Start, Ok, checker
<1>2. CASE SetMax(d)
  BY <1>2, SetMaxNoticed
<1>3. CASE Stop(d)
  <2>1. /\ UNCHANGED <<counts, age, cpc, i, count, since, killed, prompt>>
        /\ maxes'[e] # 0 => maxes[e] # 0
    BY <1>3 DEF Stop, checker, clock, history, Typed, TypeOK
  <2>2. QED
    BY <2>1 DEF Due, Silent, Alive, Guarded, Ahead, Silence, Limit
<1>4. QED
  BY <1>1, <1>2, <1>3 DEF Owner

\* A wake finds no guarded counter over its limit, so no silence too long.
LEMMA WakeNoticed ==
  ASSUME Typed, Clocked, NEW d \in Dogs, Conserved(d), Due(d), Wake
  PROVE  Due(d)' /\ Silent(d)'
<1>1. cpc = "sleep" /\ Alive /\ cpc' = "increment" /\ since' = 0
      /\ UNCHANGED <<counts, maxes, prompt, age, killed>>
  BY DEF Wake, history
<1>2. ~Ahead(d)
  BY <1>1 DEF Ahead
<1>3. counts[d] \in Nat /\ Limit \in Nat
  BY LimitType DEF Typed, TypeOK
<1>4. Guarded(d) => counts[d] <= Limit
  BY <1>1, <1>2, <1>3 DEF Due
<1>5. Guarded(d)' = Guarded(d)
  BY <1>1 DEF Guarded
<1>6. Due(d)'
  BY <1>1, <1>3, <1>4, <1>5 DEF Due
<1>7. counts[d] <= Limit => age[d] <= Silence
  BY <1>1, WakeFinds
<1>8. age[d] \in Nat /\ Silence \in Nat
  BY SilenceType DEF Typed, TypeOK
<1>9. counts[d] <= Limit => age'[d] <= Silence + since'
  BY <1>1, <1>7, <1>8
<1>10. counts'[d] <= Limit \/ (Alive' /\ Guarded(d)') => counts[d] <= Limit
  BY <1>1, <1>4, <1>5
<1>11. Silent(d)'
  BY <1>9, <1>10 DEF Silent, Silence, Limit
<1>12. QED
  BY <1>6, <1>11

\* A counter that an increment takes over the limit is checked after it.
LEMMA IncrementNoticed ==
  ASSUME Typed, NEW d \in Dogs, Due(d), Silent(d), Increment
  PROVE  Due(d)' /\ Silent(d)'
<1>1. /\ cpc = "increment"
      /\ UNCHANGED <<maxes, prompt, age, since, killed>>
  BY DEF Increment, clock, history
<1>2. /\ counts'[d] = IF d = i THEN counts[d] + addCount ELSE counts[d]
      /\ counts[d] \in Nat /\ addCount \in Nat /\ i \in 1 .. N /\ d \in 1 .. N
      /\ Limit \in Nat
  BY LimitType DEF Increment, Typed, TypeOK, Dogs
<1>3. \/ i < N /\ i' = i + 1 /\ cpc' = "increment"
      \/ i = N /\ i' = 1 /\ cpc' = "test"
  BY <1>1, <1>2 DEF Increment, LastDog
<1>4. counts[d] <= counts'[d]
  BY <1>2
<1>5. Silent(d)'
  <2>1. counts'[d] <= Limit => counts[d] <= Limit
    BY <1>2, <1>4
  <2>2. Alive' /\ Guarded(d)' => Alive /\ Guarded(d)
    BY <1>1 DEF Alive, Guarded
  <2>3. QED
    BY <1>1, <2>1, <2>2 DEF Silent, Silence, Limit
<1>6. Due(d)'
  <2> SUFFICES ASSUME Alive', Guarded(d)', Limit < counts'[d] PROVE Ahead(d)'
    BY DEF Due, Limit
  <2>1. CASE i = N
    BY <1>2, <1>3, <2>1 DEF Ahead
  <2>2. CASE i < N /\ d <= i
    BY <1>2, <1>3, <2>2 DEF Ahead
  <2>3. CASE i < N /\ i < d
    <3>1. counts'[d] = counts[d] /\ ~Ahead(d)
      BY <1>1, <1>2, <2>3 DEF Ahead
    <3>2. QED
      BY <1>1, <3>1 DEF Due, Alive, Guarded
  <2>4. QED
    BY <1>2, <2>1, <2>2, <2>3
<1>7. QED
  BY <1>5, <1>6

\* Within a pass the silence grows with the clock.
LEMMA PassSilent ==
  ASSUME NEW d \in Dogs, Silent(d), cpc # "sleep",
         UNCHANGED <<counts, maxes, prompt, age, since>>,
         Alive' => Alive
  PROVE  Silent(d)'
  BY DEF Silent, Guarded, Silence, Limit

\* The loop goes on to the next watchdog.
LEMMA AdvanceGoes ==
  ASSUME Typed, Advance, NEW d \in Dogs, i < d
  PROVE  cpc' = "test" /\ i' <= d
<1>1. i \in 1 .. N /\ d \in 1 .. N
  BY DEF Typed, TypeOK, Dogs
<1>2. QED
  BY <1>1 DEF Advance, LastDog

\* The check of a guarded watchdog over its limit goes through to the kill.
LEMMA CheckNoticed ==
  ASSUME Typed, Typed', Watching, NEW d \in Dogs, Due(d), Silent(d),
         Test \/ LoadCount \/ Compare
  PROVE  Due(d)' /\ Silent(d)'
<1>1. /\ UNCHANGED <<counts, maxes, prompt, age, since>>
      /\ cpc # "sleep" /\ Alive
  BY DEF Test, LoadCount, Compare, clock, history
<1>2. Silent(d)'
  BY <1>1, PassSilent
<1>3. /\ i \in 1 .. N /\ d \in 1 .. N /\ counts[d] \in Nat /\ count \in Nat
      /\ Limit \in Nat
  BY LimitType DEF Typed, TypeOK, Dogs
<1>4. SUFFICES ASSUME Alive', Guarded(d)', Limit < counts'[d]
               PROVE  Ahead(d)'
  BY <1>2 DEF Due, Limit
<1>5. maxes[d] = Limit /\ maxes[d] # 0 /\ Limit < counts[d] /\ Ahead(d)
  BY <1>1, <1>4 DEF Due, Guarded, Typed, TypeOK
<1>6. CASE Test
  <2>1. cpc = "test" /\ i <= d
    BY <1>5, <1>6 DEF Test, Ahead
  <2>2. CASE maxes[i] # 0
    BY <1>6, <2>1, <2>2 DEF Test, Ahead
  <2>3. CASE maxes[i] = 0
    <3>1. Advance /\ i < d
      BY <1>3, <1>5, <1>6, <2>1, <2>3 DEF Test
    <3>2. QED
      BY <3>1, AdvanceGoes DEF Ahead
  <2>4. QED
    BY <2>2, <2>3
<1>7. CASE LoadCount
  <2>1. i <= d /\ count' = counts[i] /\ cpc' = "compare" /\ i' = i
    BY <1>5, <1>7 DEF LoadCount, Ahead
  <2>2. QED
    BY <1>1, <1>3, <2>1 DEF Ahead
<1>8. CASE Compare
  <2>1. cpc = "compare" /\ tested = Limit
    BY <1>8 DEF Compare, Watching, Typed, TypeOK
  <2>2. PICK max \in {tested, maxes[i]} :
            IF Exceeds(max) THEN killed' = i /\ UNCHANGED <<i, cpc>>
                            ELSE Advance /\ UNCHANGED killed
    BY <1>8 DEF Compare
  <2>3. ~Exceeds(max)
    BY <1>3, <1>4, <2>2 DEF Alive
  <2>4. Advance
    BY <2>2, <2>3
  <2>5. i # d
    <3> SUFFICES ASSUME i = d PROVE FALSE
      OBVIOUS
    <3>1. max = Limit
      BY <1>5, <2>1, <2>2
    <3>2. counts[d] <= count
      BY <1>3, <1>5, <2>1 DEF Ahead
    <3>3. QED
      BY <1>3, <1>5, <2>3, <3>1, <3>2 DEF Exceeds
  <2>6. i < d
    BY <1>3, <1>5, <2>1, <2>5 DEF Ahead
  <2>7. QED
    BY <2>4, <2>6, AdvanceGoes DEF Ahead
<1>9. QED
  BY <1>6, <1>7, <1>8

\* Every step keeps the watch.
LEMMA NextNoticed ==
  ASSUME Typed, Typed', Clocked, TimeConserved, Noticed, [Next]_vars
  PROVE  Noticed'
<1>1. Watching'
  BY NextWatching DEF Noticed
<1>2. SUFFICES ASSUME NEW d \in Dogs PROVE Due(d)' /\ Silent(d)'
  BY <1>1 DEF Noticed
<1>3. Due(d) /\ Silent(d) /\ Watching
  BY DEF Noticed
<1>4. Conserved(d)
  BY DEF TimeConserved, Conserved, Charged
<1>5. ASSUME NEW e \in Dogs, Owner(e) PROVE Due(d)' /\ Silent(d)'
  BY <1>3, <1>5, OwnerNoticed
<1>6. CASE Destroy \/ UNCHANGED vars
  <2>1. UNCHANGED <<counts, maxes, prompt, age, since, cpc, i, count, killed>>
    BY <1>6 DEF Destroy, vars, checker, clock, history
  <2>2. QED
    BY <1>3, <2>1 DEF Due, Silent, Alive, Guarded, Ahead, Silence, Limit
<1>7. CASE Tick
  <2>1. /\ UNCHANGED <<counts, maxes, prompt, cpc, i, count, killed>>
        /\ since' = since + 1 /\ age'[d] = age[d] + 1
    BY <1>7 DEF Tick, checker, history, Typed, TypeOK
  <2>2. Due(d)'
    BY <1>3, <2>1 DEF Due, Alive, Guarded, Ahead, Limit
  <2>3. age[d] \in Nat /\ since \in Nat /\ Silence \in Nat
    BY SilenceType DEF Typed, TypeOK
  <2>4. age[d] <= Silence + since => age'[d] <= Silence + since'
    BY <2>1, <2>3
  <2>5. Silent(d)'
    BY <1>3, <2>1, <2>4 DEF Silent, Alive, Guarded, Silence, Limit
  <2>6. QED
    BY <2>2, <2>5
<1>8. CASE Wake
  BY <1>3, <1>4, <1>8, WakeNoticed
<1>9. CASE Increment
  BY <1>3, <1>9, IncrementNoticed
<1>10. CASE Test \/ LoadCount \/ Compare
  BY <1>3, <1>10, CheckNoticed
<1>11. QED
  BY <1>5, <1>6, <1>7, <1>8, <1>9, <1>10 DEF Next, CheckThread

\* What is noticed is noticed in time.
LEMMA NoticedInTime ==
  ASSUME Typed, Clocked, TimeConserved, Noticed
  PROVE  DetectInTime
<1> SUFFICES ASSUME NEW d \in Dogs, Alive, maxes[d] # 0, prompt[d]
             PROVE  age[d] <= Ms * Epoch * Limit + 2 * MaxGap
                                + (Ms - 1) * Limit
  BY DEF DetectInTime
<1>1. Guarded(d) /\ Due(d) /\ Silent(d) /\ Conserved(d)
  BY DEF Guarded, Noticed, TimeConserved, Conserved, Charged
<1>2. /\ age[d] \in Nat /\ since \in Nat /\ counts[d] \in Nat /\ Limit \in Nat
  BY LimitType DEF Typed, TypeOK
<1>3. age[d] <= Silence + (MaxGap - Ms * Epoch)
  <2>1. CASE cpc = "sleep"
    <3>1. counts[d] <= Limit
      BY <1>1, <1>2, <2>1 DEF Due, Ahead
    <3>2. QED
      BY <1>1, <1>2, <2>1, <3>1, WakeFinds, SilenceType, Products
  <2>2. CASE cpc # "sleep"
    <3>1. age[d] <= Silence + since
      BY <1>1, <2>2 DEF Silent
    <3>2. since <= MaxGap - Ms * Epoch
      BY <2>2, Products DEF Clocked, SinceBound
    <3>3. QED
      BY <1>2, <3>1, <3>2, SilenceType, Products
  <2>3. QED
    BY <2>1, <2>2
<1>4. Ms * (Epoch * Limit) = Ms * Epoch * Limit
      /\ Ms * (Epoch * Limit) \in Nat /\ (Ms - 1) * Limit \in Nat
  BY LimitType, ProductNat
<1>5. QED
  BY <1>2, <1>3, <1>4, SilenceType, Products

\* A watchdog that runs is never silent for much longer than its duration
\* while the process lives: the check thread finds it within two gaps and the
\* time that truncation lost, whatever the epoch, the delays and the owners do.
THEOREM DetectedInTime == Spec => []DetectInTime
<1>1. Typed /\ Clocked /\ TimeConserved /\ Noticed => DetectInTime
  BY NoticedInTime
<1>2. Typed /\ Clocked /\ [Next]_vars => Typed' /\ Clocked'
  BY NextTyped, NextClocked
<1>3. Typed /\ Clocked /\ TimeConserved /\ Noticed /\ [Next]_vars => Noticed'
  BY NextTyped, NextNoticed
<1>4. QED
  BY <1>1, <1>2, <1>3, InitTyped, InitClocked, InitNoticed, TimeAccounted, PTL
     DEF Spec
=============================================================================
