----------------------------- MODULE LibraryProofs -----------------------------
(***************************************************************************)
(* Proofs about the classes around the protocol: the stopwatch, for every  *)
(* clock and every tick, times and stamps, communicators of some of the    *)
(* ranks, for any number of ranks and of objects, and the strings of the   *)
(* command line, for any arguments.                                        *)
(***************************************************************************)
EXTENDS RunLogProofs, Timer, TimeUtil, Utilities, Communicator

-----------------------------------------------------------------------------
\* The stopwatch, times and stamps.

\* An interval is never negative, because the clock does not go back.
IntervalBegun == running => intervalStart <= clock

TimerInv == TimerTypeOK /\ IntervalBegun /\ TotalIsTimeRunning /\ TicsLagBehind

LEMMA TimerInitInv == TimerInit => TimerInv
<1> SUFFICES ASSUME TimerInit PROVE TimerInv
  OBVIOUS
<1>1. tics * Tick = 0 /\ updates * (Tick - 1) = 0 /\ total = 0
  BY TimerAssumption DEF TimerInit
<1>2. TicsLagBehind
  BY <1>1 DEF TicsLagBehind
<1>3. ~running /\ running \in BOOLEAN
  BY Zenon DEF TimerInit
<1>a. /\ clock \in 0..MaxClock /\ intervalStart \in 0..MaxClock
      /\ total \in Nat /\ interval \in Nat /\ tics \in Nat /\ ran \in Nat /\ updates \in Nat
  BY TimerAssumption DEF TimerInit
<1>4. TimerTypeOK
  BY <1>3, <1>a DEF TimerTypeOK
<1>5. IntervalBegun /\ TotalIsTimeRunning
  BY <1>3 DEF TimerInit, IntervalBegun, TotalIsTimeRunning
<1> QED
  BY <1>2, <1>4, <1>5 DEF TimerInv

\* What an update cuts off is less than a tic.
LEMMA Quotient ==
  ASSUME NEW i \in Nat, NEW d \in Nat \ {0}
  PROVE  /\ i \div d \in Nat
         /\ (i \div d) * d <= i
         /\ i - (i \div d) * d <= d - 1
  OBVIOUS

LEMMA UpdateInv ==
  ASSUME TimerInv, running, Update, clock' = clock, ran' = ran, running' \in BOOLEAN
  PROVE  TimerInv'
<1> DEFINE i == clock - intervalStart
           q == i \div Tick
<1>1. i \in Nat
  BY DEF TimerInv, TimerTypeOK, IntervalBegun
<1>2. q \in Nat /\ q * Tick <= i /\ i - q * Tick <= Tick - 1
  BY <1>1, Quotient, TimerAssumption
<1>3. total' = total + i /\ tics' = tics + q /\ updates' = updates + 1
      /\ interval' = i /\ intervalStart' = clock
  BY DEF Update
<1>4. TimerTypeOK' /\ IntervalBegun' /\ TotalIsTimeRunning'
  BY <1>1, <1>2, <1>3 DEF TimerInv, TimerTypeOK, IntervalBegun, TotalIsTimeRunning
<1>5. TicsLagBehind'
  <2> HIDE DEF i, q
  <2>1. total \in Nat /\ tics \in Nat /\ updates \in Nat /\ Tick \in Nat \ {0} /\ i \in Nat /\ q \in Nat
    BY <1>1, <1>2, TimerAssumption DEF TimerInv, TimerTypeOK
  <2>2. (tics + q) * Tick = tics * Tick + q * Tick
    BY <2>1
  <2>3. (updates + 1) * (Tick - 1) = updates * (Tick - 1) + (Tick - 1)
    BY <2>1
  <2>4. tics * Tick \in Int /\ q * Tick \in Int /\ updates * (Tick - 1) \in Int
    BY <2>1
  <2> QED
    BY <1>2, <1>3, <2>1, <2>2, <2>3, <2>4 DEF TimerInv, TicsLagBehind
<1> QED
  BY <1>4, <1>5 DEF TimerInv

LEMMA TimerNextInv == TimerInv /\ [TimerNext]_timerVars => TimerInv'
<1> SUFFICES ASSUME TimerInv, [TimerNext]_timerVars PROVE TimerInv'
  OBVIOUS
<1>1. CASE Elapse
  BY <1>1, TimerAssumption DEF Elapse, TimerInv, TimerTypeOK, IntervalBegun, TotalIsTimeRunning, TicsLagBehind
<1>2. CASE Reset
  <2>1. tics' * Tick = 0 /\ updates' * (Tick - 1) = 0 /\ total' = 0
    BY <1>2, TimerAssumption DEF Reset
  <2>2. TicsLagBehind'
    BY <2>1 DEF TicsLagBehind
  <2>3. ~running' /\ running' \in BOOLEAN
    BY <1>2, Zenon DEF Reset
  <2>a. /\ clock' \in 0..MaxClock /\ intervalStart' \in 0..MaxClock
        /\ total' \in Nat /\ interval' \in Nat /\ tics' \in Nat /\ ran' \in Nat /\ updates' \in Nat
    BY <1>2, TimerAssumption DEF Reset, TimerInv, TimerTypeOK
  <2>4. TimerTypeOK'
    BY <2>3, <2>a DEF TimerTypeOK
  <2>5. IntervalBegun' /\ TotalIsTimeRunning'
    BY <1>2, <2>3 DEF Reset, IntervalBegun, TotalIsTimeRunning
  <2> QED
    BY <2>2, <2>4, <2>5 DEF TimerInv
<1>3. CASE Start
  BY <1>3 DEF Start, TimerInv, TimerTypeOK, IntervalBegun, TotalIsTimeRunning, TicsLagBehind
<1>4. CASE Stop
  BY <1>4, UpdateInv DEF Stop
<1>5. CASE Read
  BY <1>5, UpdateInv DEF Read
<1>6. CASE UNCHANGED timerVars
  BY <1>6 DEF timerVars, TimerInv, TimerTypeOK, IntervalBegun, TotalIsTimeRunning, TicsLagBehind
<1> QED
  BY <1>1, <1>2, <1>3, <1>4, <1>5, <1>6 DEF TimerNext

LEMMA TimerInvCorrect == TimerSpec => []TimerInv
BY TimerInitInv, TimerNextInv, PTL DEF TimerSpec

\* TotalIsTimeRunning: the stopwatch shows the time for which it has run, for
\* every use of it (TimerMPI.h).
THEOREM TotalIsTimeRunningCorrect == TimerSpec => []TotalIsTimeRunning
<1>1. TimerInv => TotalIsTimeRunning
  BY DEF TimerInv
<1> QED BY <1>1, TimerInvCorrect, PTL

\* TicsLagBehind: its tics lag behind by less than one per update, and never
\* run ahead.
THEOREM TicsLagBehindCorrect == TimerSpec => []TicsLagBehind
<1>1. TimerInv => TicsLagBehind
  BY DEF TimerInv
<1> QED BY <1>1, TimerInvCorrect, PTL

-----------------------------------------------------------------------------
\* Times and stamps.

Hours == {h \in Nat : h < UShort}

NormalTimes == [hour : Hours, minute : 0..59, second : 0..59]

\* The times a caller may compute with.
Times == [hour : Hours, minute : {m \in Nat : m < 32768}, second : {s \in Nat : s < 32768}]

-----------------------------------------------------------------------------
\* A number of hours, minutes and seconds in seconds, and what is left of a
\* number of seconds when the hours overflow.
Sum(h, m, s) == s + m * 60 + h * 3600
Left(n) == n % (UShort * 3600)

\* Sixty seconds are a minute: what is carried, and what is left.
Carried(n) == n \div 60
Rest(n) == n % 60

\* Minutes and seconds of a sum, which do not overflow.
Small == {n \in Nat : n < 40000}

LEMMA Carry ==
  ASSUME NEW n \in Small
  PROVE  /\ n % UShort = n
         /\ Carried(n) \in Nat /\ Carried(n) < 700 /\ Rest(n) \in 0..59
         /\ n = 60 * Carried(n) + Rest(n)
<1>1. n \in Nat /\ n < 40000
  BY DEF Small
<1>2. n % UShort = n
  BY <1>1, SMT DEF UShort
<1>3. n \div 60 \in Nat /\ n % 60 \in 0..59 /\ n = 60 * (n \div 60) + (n % 60)
  BY <1>1, SMT
<1>4. n \div 60 < 700
  BY <1>1, <1>3, SMT
<1> QED BY <1>2, <1>3, <1>4 DEF Carried, Rest

LEMMA HoursLemma == ASSUME NEW h \in Nat PROVE h % UShort \in Hours
BY SMT DEF Hours, UShort

\* What is left of hours, minutes and seconds when the hours overflow.
LEMMA Overflow ==
  ASSUME NEW h \in Nat, NEW m \in 0..59, NEW s \in 0..59
  PROVE  Left(Sum(h, m, s)) = Sum(h % UShort, m, s)
<1> DEFINE k == h \div UShort
           l == h % UShort
           v == s + m * 60 + l * 3600
<1>1. k \in Nat /\ l \in Nat /\ l < UShort /\ h = 65536 * k + l
  BY SMT DEF UShort
<1> HIDE DEF k, l
<1>2. v \in Nat /\ v < 235929600 /\ s + m * 60 + h * 3600 = 235929600 * k + v
  BY <1>1, SMT DEF UShort
<1> HIDE DEF v
<1>3. (235929600 * k + v) % 235929600 = v
  BY <1>1, <1>2, SMT
<1>4. UShort * 3600 = 235929600
  BY SMT DEF UShort
<1> QED BY <1>2, <1>3, <1>4 DEF v, l, Sum, Left

\* A time made from any number of seconds is normal, and loses only the hours
\* that unsigned short cannot hold.
LEMMA FromSecondsLemma ==
  ASSUME NEW n \in Nat
  PROVE  /\ FromSeconds(n) \in NormalTimes
         /\ ToSeconds(FromSeconds(n)) = Left(n)
<1>1. PICK h \in Nat : h = n \div 3600
  BY SMT
<1>2. PICK m \in 0..59 : m = (n % 3600) \div 60
  BY SMT
<1>3. PICK s \in 0..59 : s = n % 60
  BY SMT
<1>4. n = Sum(h, m, s)
  BY <1>1, <1>2, <1>3, SMT DEF Sum
<1>5. FromSeconds(n) = [hour |-> h % UShort, minute |-> m, second |-> s]
  BY <1>1, <1>2, <1>3 DEF FromSeconds
<1>6. ToSeconds(FromSeconds(n)) = Sum(h % UShort, m, s)
  BY <1>5 DEF ToSeconds, Sum
<1>7. FromSeconds(n) \in NormalTimes
  BY <1>5, HoursLemma DEF NormalTimes
<1>8. Left(Sum(h, m, s)) = Sum(h % UShort, m, s)
  BY Overflow
<1> QED BY <1>4, <1>6, <1>7, <1>8

\* The minutes and hours of a sum of a hours, b minutes and c seconds.
MinutesOf(b, c) == b + Carried(c)
HoursOf(a, b, c) == a + Carried(MinutesOf(b, c))

LEMMA Carries ==
  ASSUME NEW a \in Nat, NEW b \in Nat, b < 33000, NEW c \in Small
  PROVE  /\ MinutesOf(b, c) \in Small
         /\ HoursOf(a, b, c) \in Nat
         /\ Sum(a, b, c) = Sum(HoursOf(a, b, c), Rest(MinutesOf(b, c)), Rest(c))
<1>1. /\ Carried(c) \in Nat /\ Carried(c) < 700 /\ Rest(c) \in 0..59
      /\ c = 60 * Carried(c) + Rest(c)
  BY Carry
<1>2. MinutesOf(b, c) \in Small
  BY <1>1, SMT DEF MinutesOf, Small
<1>3. /\ Carried(MinutesOf(b, c)) \in Nat /\ Rest(MinutesOf(b, c)) \in 0..59
      /\ MinutesOf(b, c) = 60 * Carried(MinutesOf(b, c)) + Rest(MinutesOf(b, c))
  BY <1>2, Carry
<1>4. HoursOf(a, b, c) \in Nat
  BY <1>3, SMT DEF HoursOf
<1>5. Sum(a, b, c) = Rest(c) + MinutesOf(b, c) * 60 + a * 3600
  BY <1>1, SMT DEF Sum, MinutesOf
<1>6. @ = Rest(c) + Rest(MinutesOf(b, c)) * 60 + (a + Carried(MinutesOf(b, c))) * 3600
  BY <1>1, <1>3, SMT
<1> QED BY <1>2, <1>4, <1>5, <1>6 DEF Sum, HoursOf

\* The sum of a normal time and a time whose minutes and seconds do not
\* overflow is normal, and stands for the sum of their seconds.
LEMMA PlusLemma ==
  ASSUME NEW t \in NormalTimes, NEW rhs \in Times
  PROVE  /\ Plus(t, rhs) \in NormalTimes
         /\ ToSeconds(Plus(t, rhs)) = Left(ToSeconds(t) + ToSeconds(rhs))
<1>1. /\ t.hour \in Nat /\ t.minute \in 0..59 /\ t.second \in 0..59
      /\ rhs.hour \in Nat /\ rhs.minute \in Nat /\ rhs.second \in Nat
  BY DEF NormalTimes, Times, Hours
<1>b. rhs.minute < 32768 /\ rhs.second < 32768
  BY DEF Times
<1>2. PICK a \in Nat : a = t.hour + rhs.hour
  BY <1>1, SMT
<1>3. PICK b \in Nat : b = t.minute + rhs.minute
  BY <1>1, SMT
<1>a. b < 33000
  BY <1>1, <1>b, <1>3, SMT
<1>4. PICK c \in Small : c = t.second + rhs.second
  BY <1>1, <1>b, SMT DEF Small
<1>5. /\ MinutesOf(b, c) \in Small /\ HoursOf(a, b, c) \in Nat
      /\ Sum(a, b, c) = Sum(HoursOf(a, b, c), Rest(MinutesOf(b, c)), Rest(c))
  BY <1>a, Carries
<1>6. PICK m \in Small, h \in Nat : m = MinutesOf(b, c) /\ h = HoursOf(a, b, c)
  BY <1>5
<1>7. /\ c % UShort = c /\ Rest(c) \in 0..59
      /\ m % UShort = m /\ Rest(m) \in 0..59
  BY Carry
<1>8. Plus(t, rhs) = [hour |-> h % UShort, minute |-> Rest(m), second |-> Rest(c)]
  <2>1. m = t.minute + rhs.minute + (c \div 60)
    BY <1>3, <1>6, Zenon DEF MinutesOf, Carried
  <2>2. h = t.hour + rhs.hour + (m \div 60)
    BY <1>2, <1>6, Zenon DEF HoursOf, Carried
  <2> QED BY <1>4, <1>7, <2>1, <2>2, Zenon DEF Plus, Rest
<1>9. ToSeconds(t) + ToSeconds(rhs) = Sum(h, Rest(m), Rest(c))
  <2>1. ToSeconds(t) = Sum(t.hour, t.minute, t.second)
    BY Zenon DEF ToSeconds, Sum
  <2>2. ToSeconds(rhs) = Sum(rhs.hour, rhs.minute, rhs.second)
    BY Zenon DEF ToSeconds, Sum
  <2>3. /\ t.hour \in Nat /\ t.minute \in Nat /\ t.second \in Nat
        /\ rhs.hour \in Nat /\ rhs.minute \in Nat /\ rhs.second \in Nat
    BY <1>1, SMT
  <2>4. Sum(t.hour, t.minute, t.second) + Sum(rhs.hour, rhs.minute, rhs.second)
          = Sum(t.hour + rhs.hour, t.minute + rhs.minute, t.second + rhs.second)
    <3>1. PICK h1 \in Nat, h2 \in Nat : h1 = t.hour /\ h2 = rhs.hour
      BY <2>3, Zenon
    <3>2. PICK m1 \in Nat, m2 \in Nat : m1 = t.minute /\ m2 = rhs.minute
      BY <2>3, Zenon
    <3>3. PICK s1 \in Nat, s2 \in Nat : s1 = t.second /\ s2 = rhs.second
      BY <2>3, Zenon
    <3>4. Sum(h1, m1, s1) + Sum(h2, m2, s2) = Sum(h1 + h2, m1 + m2, s1 + s2)
      BY SMT DEF Sum
    <3> QED BY <3>1, <3>2, <3>3, <3>4, Zenon
  <2> QED BY <1>2, <1>3, <1>4, <1>5, <1>6, <2>1, <2>2, <2>4, Zenon
<1>10. ToSeconds(Plus(t, rhs)) = Sum(h % UShort, Rest(m), Rest(c))
  BY <1>8 DEF ToSeconds, Sum
<1>11. Plus(t, rhs) \in NormalTimes
  BY <1>7, <1>8, HoursLemma DEF NormalTimes
<1>12. Left(Sum(h, Rest(m), Rest(c))) = Sum(h % UShort, Rest(m), Rest(c))
  BY <1>7, Overflow
<1> QED BY <1>9, <1>10, <1>11, <1>12

LEMMA SecondsType ==
  ASSUME NEW t \in Times
  PROVE  ToSeconds(t) \in Nat
BY SMT DEF ToSeconds, Times, Hours

-----------------------------------------------------------------------------
\* The object is normal, and stands for what its history says.
ValueInv == time \in NormalTimes /\ seconds = ToSeconds(time)

LEMMA ValueStep == ValueInv /\ [TimeNext]_timeVars => ValueInv'
<1> SUFFICES ASSUME ValueInv, [TimeNext]_timeVars PROVE ValueInv'
  OBVIOUS
<1>a. TimeArgs \subseteq Times
  BY TimeAssumption DEF Times, Hours
<1>0. time \in NormalTimes /\ seconds = ToSeconds(time) /\ ToSeconds(time) \in Nat
  BY SecondsType, SMT DEF ValueInv, NormalTimes, Times, Hours, UShort
<1>1. ASSUME NEW rhs \in TimeArgs, Add(rhs) PROVE ValueInv'
  BY <1>a, <1>0, <1>1, PlusLemma DEF Add, Compute, ValueInv, Left
<1>2. ASSUME NEW n \in Nat, Compute(FromSeconds(n), n) PROVE ValueInv'
  BY <1>2, FromSecondsLemma DEF Compute, ValueInv, Left
<1>3. ASSUME NEW rhs \in TimeArgs, Subtract(rhs) PROVE ValueInv'
  <2>1. ToSeconds(rhs) \in Nat
    BY <1>a, SecondsType
  <2>2. Distance(seconds, ToSeconds(rhs)) \in Nat
    BY <1>0, <2>1, SMT DEF Distance
  <2> QED BY <1>0, <1>2, <1>3, <2>2 DEF Subtract, Minus
<1>4. ASSUME NEW rhs \in TimeArgs, Assign(ToSeconds(rhs)) PROVE ValueInv'
  <2>1. ToSeconds(rhs) \in Nat
    BY <1>a, SecondsType
  <2> QED BY <1>2, <1>4, <2>1 DEF Assign
<1>5. CASE Clear
  BY <1>5, SMT DEF Clear, Compute, ValueInv, Zero, ToSeconds, NormalTimes, Hours, UShort
<1>6. CASE UNCHANGED valueVars
  BY <1>6 DEF ValueInv, valueVars
<1> QED BY <1>1, <1>3, <1>4, <1>5, <1>6 DEF TimeNext, timeVars, Advance, ReadDate, ReadTime,
              MakeStamp

\* TimeIsSeconds: for every times a caller computes with, the object is normal
\* and stands for the right number of seconds, up to an overflow of its hours.
THEOREM TimeIsSecondsCorrect == TimeSpec => []TimeIsSeconds
<1>1. TimeInit => ValueInv
  BY SMT DEF TimeInit, ValueInv, Zero, ToSeconds, NormalTimes, Hours, UShort
<1>2. ValueInv => TimeIsSeconds
  BY DEF ValueInv, TimeIsSeconds, Normal, NormalTimes
<1> QED BY <1>1, <1>2, ValueStep, PTL DEF TimeSpec

\* EarlierIsLess: operator< misses no time that is earlier.
THEOREM EarlierIsLessCorrect == TimeSpec => []EarlierIsLess
<1>1. TimeInit => ValueInv
  BY SMT DEF TimeInit, ValueInv, Zero, ToSeconds, NormalTimes, Hours, UShort
<1>2. ASSUME NEW t \in NormalTimes, NEW u \in NormalTimes, ToSeconds(t) < ToSeconds(u)
      PROVE  Less(t, u)
  <2>1. /\ t.hour \in Nat /\ t.minute \in Nat /\ t.second \in Nat
        /\ u.hour \in Nat /\ u.minute \in Nat /\ u.second \in Nat
    BY SMT DEF NormalTimes, Hours
  <2>2. ~(t.hour >= u.hour /\ t.minute >= u.minute /\ t.second >= u.second)
    BY <1>2, <2>1, SMT DEF ToSeconds
  <2> QED BY <2>1, <2>2, SMT DEF Less
<1>3. ValueInv => EarlierIsLess
  <2> SUFFICES ASSUME ValueInv, NEW t \in TimeArgs, Normal(t)
               PROVE  /\ ToSeconds(time) < ToSeconds(t) => Less(time, t)
                      /\ ToSeconds(t) < ToSeconds(time) => Less(t, time)
    BY DEF EarlierIsLess
  <2>1. t \in NormalTimes
    BY TimeAssumption, SMT DEF Normal, NormalTimes, Hours
  <2> QED BY <1>2, <2>1 DEF ValueInv
<1> QED BY <1>1, <1>3, ValueStep, PTL DEF TimeSpec

-----------------------------------------------------------------------------
\* A time of day is written with two digits for each part, whatever the moment.
LEMMA LocalTimeLemma ==
  ASSUME NEW m \in Nat
  PROVE  \E h \in 0..23, k \in 0..59, s \in 0..59 : LocalTime(m) = <<h, k, s>>
<1> DEFINE d == (86400 - Midnight + m) % 86400
<1>1. d \in Nat /\ d < 86400
  BY TimeAssumption, SMT
<1>2. PICK n \in Nat : n = d /\ n < 86400
  BY <1>1
<1>3. PICK h \in 0..23 : h = n \div 3600
  BY <1>2, SMT
<1>4. h % UShort = h
  BY SMT DEF UShort
<1>5. PICK k \in 0..59 : k = (n % 3600) \div 60
  BY SMT
<1>6. PICK s \in 0..59 : s = n % 60
  BY SMT
<1>7. LocalTime(m) = <<h, k, s>>
  BY <1>2, <1>3, <1>4, <1>5, <1>6 DEF LocalTime, FromSeconds
<1> QED BY <1>7

\* A stamp of a date and a time of day has the same numbers, and is made.
LEMMA MakeStampLemma ==
  ASSUME NEW m \in Nat, NEW n \in Nat
  PROVE  LET stamped == MakeDateTimeStamp([separator |-> "/", numbers |-> LocalDate(m)],
                                       [separator |-> ":", numbers |-> LocalTime(n)])
         IN  /\ ~stamped.date.thrown /\ ~stamped.time.thrown
             /\ stamped.date.numbers = LocalDate(m) /\ stamped.time.numbers = LocalTime(n)
<1> DEFINE date == [separator |-> "/", numbers |-> LocalDate(m)]
           day  == [separator |-> ":", numbers |-> LocalTime(n)]
<1>1. PICK h \in 0..23, k \in 0..59, s \in 0..59 : LocalTime(n) = <<h, k, s>>
  BY LocalTimeLemma
<1>2. h % UShort = h /\ k % UShort = k /\ s % UShort = s
  BY SMT DEF UShort
<1>3. ToTimeValues(day, ":") = [hour |-> h, minute |-> k, second |-> s]
  BY <1>1, <1>2 DEF ToTimeValues, Numbers
<1>4. /\ ToTimeStr(ToTimeValues(day, ":"), "-").numbers = LocalTime(n)
      /\ ~ToTimeStr(ToTimeValues(day, ":"), "-").thrown
  <2>1. TwoDigits(h) /\ TwoDigits(k) /\ TwoDigits(s)
    BY SMT DEF TwoDigits, FourDigits
  <2>2. ToTimeStr(ToTimeValues(day, ":"), "-").numbers = <<h, k, s>>
    BY <1>3 DEF ToTimeStr
  <2>3. ToTimeStr(ToTimeValues(day, ":"), "-").thrown = ~(TwoDigits(h) /\ TwoDigits(k) /\ TwoDigits(s))
    BY <1>3 DEF ToTimeStr
  <2> QED BY <1>1, <2>1, <2>2, <2>3
<1>5. LocalDate(m) = <<2019, 12, 31>> \/ LocalDate(m) = <<2020, 1, 1>>
  BY DEF LocalDate
<1>7. PICK y \in Nat, mm \in 1..12, dd \in 1..31 : LocalDate(m) = <<y, mm, dd>> /\ y < 10000
  BY <1>5
<1>8. Clamp(mm) = mm /\ dd % UShort = dd
  BY SMT DEF Clamp, UShort
<1>9. ToDateValues(date, "/") = [year |-> y, month |-> mm, day |-> dd]
  BY <1>7, <1>8 DEF ToDateValues, Numbers
<1>10. /\ ToDateStr(ToDateValues(date, "/"), "-").numbers = LocalDate(m)
       /\ ~ToDateStr(ToDateValues(date, "/"), "-").thrown
  <2>1. FourDigits(y) /\ TwoDigits(mm) /\ TwoDigits(dd)
    BY <1>7, SMT DEF TwoDigits, FourDigits
  <2>2. ToDateStr(ToDateValues(date, "/"), "-").numbers = <<y, mm, dd>>
    BY <1>9 DEF ToDateStr
  <2>3. ToDateStr(ToDateValues(date, "/"), "-").thrown = ~(FourDigits(y) /\ TwoDigits(mm) /\ TwoDigits(dd))
    BY <1>9 DEF ToDateStr
  <2>4. ToDateStr(ToDateValues(date, "/"), "-").numbers = LocalDate(m)
    BY <1>7, <2>2
  <2>5. ~ToDateStr(ToDateValues(date, "/"), "-").thrown
    BY <2>1, <2>3, Zenon
  <2> QED BY <2>4, <2>5
<1> QED BY <1>4, <1>10 DEF MakeDateTimeStamp

\* The results that a call has so far are of moments since it began.
StampInv ==
  /\ moment \in Nat /\ begun \in Nat /\ ended \in Nat /\ begun <= moment
  /\ dateStr # NoString =>
       \E m \in begun..moment : dateStr = [separator |-> "/", numbers |-> LocalDate(m)]
  /\ timeStr # NoString =>
       \E m \in begun..moment : timeStr = [separator |-> ":", numbers |-> LocalTime(m)]
  /\ StampIsOfCall

LEMMA StampStep == StampInv /\ [TimeNext]_timeVars => StampInv'
<1> SUFFICES ASSUME StampInv, [TimeNext]_timeVars PROVE StampInv'
  OBVIOUS
<1>1. CASE UNCHANGED stampVars
  BY <1>1 DEF StampInv, stampVars, StampIsOfCall, Calling
<1>2. CASE Advance
  <2>1. moment' = moment + 1 /\ moment' \in Nat /\ begun' = begun /\ begun' <= moment'
    BY <1>2, SMT DEF Advance, StampInv
  <2>2. begun..moment \subseteq begun'..moment'
    BY <2>1, SMT DEF StampInv
  <2>3. UNCHANGED <<dateStr, timeStr, begun, ended, stamp>>
    BY <1>2 DEF Advance
  <2> QED BY <2>1, <2>2, <2>3 DEF StampInv, StampIsOfCall, Calling
<1>3. CASE ReadDate
  <2>1. begun' \in Nat /\ begun' <= moment' /\ moment' = moment /\ moment' \in Nat
    BY <1>3, SMT DEF ReadDate, BeginIf, StampInv
  <2>2. moment' \in begun'..moment'
    BY <2>1, SMT
  <2>3. dateStr' = [separator |-> "/", numbers |-> LocalDate(moment')]
    BY <1>3, <2>1 DEF ReadDate, DateStr
  <2>4. timeStr' = timeStr /\ ended' = ended /\ stamp' = stamp
    BY <1>3 DEF ReadDate
  <2>5. timeStr # NoString => begun' = begun
    BY <1>3 DEF ReadDate, BeginIf, Calling
  <2>6. Calling'
    BY <2>3 DEF Calling, NoString
  <2> QED BY <2>1, <2>2, <2>3, <2>4, <2>5, <2>6 DEF StampInv, StampIsOfCall
<1>4. CASE ReadTime
  <2>1. begun' \in Nat /\ begun' <= moment' /\ moment' = moment /\ moment' \in Nat
    BY <1>4, SMT DEF ReadTime, BeginIf, StampInv
  <2>2. moment' \in begun'..moment'
    BY <2>1, SMT
  <2>3. timeStr' = [separator |-> ":", numbers |-> LocalTime(moment')]
    BY <1>4, <2>1 DEF ReadTime, TimeStr
  <2>4. dateStr' = dateStr /\ ended' = ended /\ stamp' = stamp
    BY <1>4 DEF ReadTime
  <2>5. dateStr # NoString => begun' = begun
    BY <1>4 DEF ReadTime, BeginIf, Calling
  <2>6. Calling'
    BY <2>3 DEF Calling, NoString
  <2> QED BY <2>1, <2>2, <2>3, <2>4, <2>5, <2>6 DEF StampInv, StampIsOfCall
<1>5. CASE MakeStamp
  <2>1. PICK m \in begun..moment : dateStr = [separator |-> "/", numbers |-> LocalDate(m)]
    BY <1>5 DEF MakeStamp, StampInv
  <2>2. PICK n \in begun..moment : timeStr = [separator |-> ":", numbers |-> LocalTime(n)]
    BY <1>5 DEF MakeStamp, StampInv
  <2>3. m \in Nat /\ n \in Nat
    BY SMT DEF StampInv
  <2>4. /\ ~stamp'.date.thrown /\ ~stamp'.time.thrown
        /\ stamp'.date.numbers = LocalDate(m) /\ stamp'.time.numbers = LocalTime(n)
    BY <1>5, <2>1, <2>2, <2>3, MakeStampLemma DEF MakeStamp
  <2>5. moment' = moment /\ begun' = begun /\ ended' = moment
        /\ dateStr' = NoString /\ timeStr' = NoString
    BY <1>5 DEF MakeStamp
  <2>6. LocalDate(m) = LocalDate(n) \/ (begun' < Midnight /\ Midnight <= ended')
    BY <2>3, <2>5, TimeAssumption, SMT DEF LocalDate, StampInv
  <2>7. StampIsOfCall'
    BY <2>4, <2>5, <2>6 DEF StampIsOfCall
  <2> QED BY <2>5, <2>7 DEF StampInv
<1> QED BY <1>1, <1>2, <1>3, <1>4, <1>5 DEF TimeNext, timeVars, Add, Subtract, Assign, Clear, Compute

\* StampIsOfCall: in whichever order MakeDateTimeStamp reads the clock for the
\* date and for the time, its stamp is of one moment of the call, unless the
\* call lasts over midnight, and it does not throw.
THEOREM StampIsOfCallCorrect == TimeSpec => []StampIsOfCall
<1>1. TimeInit => StampInv
  BY SMT DEF TimeInit, StampInv, StampIsOfCall
<1>2. StampInv => StampIsOfCall
  BY DEF StampInv
<1> QED BY <1>1, <1>2, StampStep, PTL DEF TimeSpec

-----------------------------------------------------------------------------
\* Communicators.

CommunicatorTypeOK ==
  /\ place \in [WorldRanks -> {"outside", "creating", "open", "freeing", "closed"}]
  /\ isInitialized \in [WorldRanks -> BOOLEAN]
  /\ made \in [WorldRanks -> Nat]
  /\ createCalls \in [WorldRanks -> Nat]
  /\ freeCalls \in [WorldRanks -> Nat]

\* What a rank has called for the objects it has made, at each place.
CallsInv(r) ==
  /\ createCalls[r] = made[r]
  /\ r \notin GroupRanks => freeCalls[r] = 0 /\ ~isInitialized[r] /\ place[r] # "freeing"
  /\ r \in GroupRanks =>
       /\ place[r] \in {"outside", "closed"} => ~isInitialized[r] /\ freeCalls[r] = made[r]
       /\ place[r] = "freeing" => isInitialized[r] /\ freeCalls[r] = made[r]
       /\ place[r] = "creating" => ~isInitialized[r] /\ freeCalls[r] + 1 = made[r]
       /\ place[r] = "open" => isInitialized[r] /\ freeCalls[r] + 1 = made[r]

\* Create keeps the ranks together: a rank that has returned from it is ahead
\* of none.
TogetherInv(r, q) ==
  /\ made[r] <= made[q] + 1
  /\ place[r] # "creating" => made[r] <= made[q]

CommunicatorInv ==
  /\ CommunicatorTypeOK
  /\ \A r \in WorldRanks : CallsInv(r)
  /\ \A r, q \in WorldRanks : TogetherInv(r, q)

LEMMA CommunicatorInitInv == CommunicatorInit => CommunicatorInv
BY SMT DEF CommunicatorInit, CommunicatorInv, CommunicatorTypeOK, CallsInv, TogetherInv

LEMMA CommunicatorStepInv == CommunicatorInv /\ [CommunicatorNext]_commVars => CommunicatorInv'
<1> SUFFICES ASSUME CommunicatorInv, [CommunicatorNext]_commVars PROVE CommunicatorInv'
  OBVIOUS
<1> USE DEF CommunicatorInv, CommunicatorTypeOK
<1>1. ASSUME NEW r \in WorldRanks, ConstructCommunicator(r) PROVE CommunicatorInv'
  <2>1. CommunicatorTypeOK'
    BY <1>1 DEF ConstructCommunicator, MoveTo, Count
  <2>2. ASSUME NEW q \in WorldRanks PROVE CallsInv(q)'
    BY <1>1 DEF ConstructCommunicator, MoveTo, Count, CallsInv
  <2>3. ASSUME NEW q \in WorldRanks, NEW u \in WorldRanks PROVE TogetherInv(q, u)'
    BY <1>1 DEF ConstructCommunicator, MoveTo, Count, TogetherInv
  <2> QED BY <2>1, <2>2, <2>3
<1>2. ASSUME NEW r \in WorldRanks, Initialize(r) PROVE CommunicatorInv'
  <2>1. CommunicatorTypeOK'
    BY <1>2 DEF Initialize, MoveTo
  <2>2. ASSUME NEW q \in WorldRanks PROVE CallsInv(q)'
    BY <1>2 DEF Initialize, MoveTo, CallsInv
  <2>3. ASSUME NEW q \in WorldRanks, NEW u \in WorldRanks PROVE TogetherInv(q, u)'
    BY <1>2 DEF Initialize, MoveTo, TogetherInv, CallsInv
  <2> QED BY <2>1, <2>2, <2>3
<1>3. ASSUME NEW r \in WorldRanks, Close(r) \/ Free(r) \/ Destruct(r) PROVE CommunicatorInv'
  <2>1. CommunicatorTypeOK'
    <3>1. CASE Close(r)
      BY <3>1 DEF Close, CloseTo, MoveTo, Count
    <3>2. CASE Free(r)
      BY <3>2 DEF Free, MoveTo
    <3>3. CASE Destruct(r)
      BY <3>3 DEF Destruct, CloseTo, MoveTo, Count
    <3> QED BY <1>3, <3>1, <3>2, <3>3
  <2>2. ASSUME NEW q \in WorldRanks PROVE CallsInv(q)'
    <3>1. CASE q = r
      BY <1>3, <3>1 DEF Close, Free, Destruct, CloseTo, MoveTo, Count, CallsInv
    <3>2. CASE q # r
      BY <1>3, <3>2 DEF Close, Free, Destruct, CloseTo, MoveTo, Count, CallsInv
    <3> QED BY <3>1, <3>2
  <2>3. ASSUME NEW q \in WorldRanks, NEW u \in WorldRanks PROVE TogetherInv(q, u)'
    BY <1>3 DEF Close, Free, Destruct, CloseTo, MoveTo, TogetherInv
  <2> QED BY <2>1, <2>2, <2>3
<1>4. CASE UNCHANGED commVars
  BY <1>4 DEF commVars, CallsInv, TogetherInv
<1> QED BY <1>1, <1>2, <1>3, <1>4 DEF CommunicatorNext

LEMMA CommunicatorInvCorrect == CommunicatorSpec => []CommunicatorInv
BY CommunicatorInitInv, CommunicatorStepInv, PTL DEF CommunicatorSpec

\* FreedOnce: however an object is closed, by its user, by its destructor or by
\* both, its rank calls Free once if it belongs to the group, and never else.
THEOREM FreedOnceCorrect == CommunicatorSpec => []FreedOnce
<1>1. CommunicatorInv => FreedOnce
  BY DEF CommunicatorInv, CommunicatorTypeOK, CallsInv, FreedOnce
<1> QED BY <1>1, CommunicatorInvCorrect, PTL

\* WaitsAreMet: no collective call waits for a rank that is past it.
THEOREM WaitsAreMetCorrect == CommunicatorSpec => []WaitsAreMet
<1>1. CommunicatorInv => WaitsAreMet
  <2> SUFFICES ASSUME CommunicatorInv, NEW r \in WorldRanks, NEW q \in WorldRanks
               PROVE  /\ place[r] = "creating" =>
                           createCalls[q] >= createCalls[r] \/ made[q] < made[r]
                      /\ place[r] = "freeing" /\ q \in GroupRanks =>
                           \/ freeCalls[q] >= freeCalls[r]
                           \/ /\ made[q] = made[r]
                              /\ \/ place[q] = "creating"
                                 \/ place[q] = "open" /\ isInitialized[q]
    BY DEF WaitsAreMet
  <2>1. /\ made[r] \in Nat /\ made[q] \in Nat /\ freeCalls[r] \in Nat /\ freeCalls[q] \in Nat
        /\ place[q] \in {"outside", "creating", "open", "freeing", "closed"}
    BY DEF CommunicatorInv, CommunicatorTypeOK
  <2>2. CallsInv(r) /\ CallsInv(q) /\ TogetherInv(r, q)
    BY DEF CommunicatorInv
  <2> QED BY <2>1, <2>2 DEF CallsInv, TogetherInv
<1> QED BY <1>1, CommunicatorInvCorrect, PTL

-----------------------------------------------------------------------------
\* The command line: what ParseTokens has cut off after each character.

Str == Seq(Characters)

StrVec == Seq(Str)

Scanning == [tokens : StrVec, token : Str]

NoTokens == [tokens |-> <<>>, token |-> <<>>]

LEMMA NoTokensType == NoTokens \in Scanning /\ <<>> \in Str /\ <<>> \in StrVec
BY EmptySeq DEF NoTokens, Scanning, Str, StrVec

LEMMA ScanType ==
  ASSUME NEW s \in Scanning, NEW c \in Characters
  PROVE  Scan(s, c, NL_CHAR) \in Scanning
<1>1. s.token \in Str /\ s.tokens \in StrVec
  BY DEF Scanning
<1> DEFINE l == Append(s.token, c)
           v == Append(s.tokens, s.token)
<1>2. l \in Str /\ v \in StrVec
  BY <1>1, AppendProperties DEF Str, StrVec
<1> HIDE DEF l, v
<1>3. [tokens |-> v, token |-> <<>>] \in Scanning /\ [s EXCEPT !.token = l] \in Scanning
  BY <1>2, NoTokensType DEF Scanning
<1> QED BY <1>3 DEF Scan, l, v

IsScan(f, str) ==
  /\ f \in [0..Len(str) -> Scanning] /\ f[0] = NoTokens
  /\ \A i \in 1..Len(str) : f[i] = Scan(f[i - 1], str[i], NL_CHAR)

LEMMA ScanExists ==
  ASSUME NEW str \in Str
  PROVE  \E f : IsScan(f, str)
<1> DEFINE n == Len(str)
           step == [i \in 1..n |-> [s \in Scanning |-> Scan(s, str[i], NL_CHAR)]]
<1>1. n \in Nat /\ \A i \in 1..n : str[i] \in Characters
  BY LenProperties, ElementOfSeq DEF Str
<1> HIDE DEF n
<1>2. AreSteps(step, n, Scanning)
  <2>1. \A i \in 1..n : \A s \in Scanning : Scan(s, str[i], NL_CHAR) \in Scanning
    BY <1>1, ScanType
  <2> QED BY <2>1 DEF AreSteps
<1>3. \A i \in 1..n : \A s \in Scanning : step[i][s] = Scan(s, str[i], NL_CHAR)
  OBVIOUS
<1> HIDE DEF step
<1>4. PICK f : IsIteration(f, n, Scanning, NoTokens, step)
  BY <1>1, <1>2, NoTokensType, Iteration
<1>5. f \in [0..n -> Scanning] /\ f[0] = NoTokens /\ \A i \in 1..n : f[i] = step[i][f[i - 1]]
  BY <1>4 DEF IsIteration
<1>6. \A i \in 1..n : f[i] = Scan(f[i - 1], str[i], NL_CHAR)
  <2>1. \A i \in 1..n : i - 1 \in 0..n
    BY <1>1
  <2> QED BY <1>3, <1>5, <2>1
<1> QED BY <1>5, <1>6 DEF IsScan, n

LEMMA ScannedIs ==
  ASSUME NEW str \in Str, NEW f, IsScan(f, str)
  PROVE  Scanned(str, NL_CHAR) = f[Len(str)]
<1> DEFINE n == Len(str)
           Is(g) == g = [i \in 0..n |-> IF i = 0 THEN NoTokens ELSE Scan(g[i - 1], str[i], NL_CHAR)]
           after == CHOOSE g : Is(g)
<1>1. n \in Nat
  BY LenProperties DEF Str
<1>2. f \in [0..n -> Scanning] /\ f[0] = NoTokens /\ \A i \in 1..n : f[i] = Scan(f[i - 1], str[i], NL_CHAR)
  BY DEF IsScan
<1>3. Scanned(str, NL_CHAR) = after[n]
  BY DEF Scanned, NoTokens
<1>4. Is(f)
  <2>1. \A i \in 0..n : i # 0 => i \in 1..n
    BY <1>1
  <2> HIDE DEF n
  <2> QED BY <1>2, <2>1
<1>5. Is(after)
  BY <1>4
<1> HIDE DEF after
<1>6. StepAlike(f, after, n)
  <2>1. after[0] = NoTokens
    BY <1>1, <1>5
  <2>2. \A i \in 1..n : after[i] = Scan(after[i - 1], str[i], NL_CHAR)
    BY <1>1, <1>5
  <2> HIDE DEF n
  <2> QED BY <1>2, <2>1, <2>2 DEF StepAlike
<1>7. f[n] = after[n]
  <2> HIDE DEF n
  <2>1. n \in 0..n
    BY <1>1
  <2> QED BY <1>1, <1>6, <2>1, SameIteration
<1> QED BY <1>3, <1>7

LEMMA ScannedEmpty == Scanned(<<>>, NL_CHAR) = NoTokens
<1>1. <<>> \in Str /\ Len(<<>>) = 0
  BY EmptySeq DEF Str
<1>2. PICK f : IsScan(f, <<>>)
  BY <1>1, ScanExists
<1> QED BY <1>1, <1>2, ScannedIs DEF IsScan

LEMMA AllTokensEmpty == AllTokens(<<>>, NL_CHAR) = <<(<<>>)>>
<1>1. Scanned(<<>>, NL_CHAR).tokens = <<>> /\ Scanned(<<>>, NL_CHAR).token = <<>>
  BY ScannedEmpty DEF NoTokens
<1>2. Append(<<>>, <<>>) = <<(<<>>)>>
  OBVIOUS
<1> QED BY <1>1, <1>2 DEF AllTokens

LEMMA ScannedAppend ==
  ASSUME NEW str \in Str, NEW c \in Characters
  PROVE  /\ Scanned(str, NL_CHAR) \in Scanning
         /\ Scanned(Append(str, c), NL_CHAR) = Scan(Scanned(str, NL_CHAR), c, NL_CHAR)
<1> DEFINE n == Len(str)
           more == Append(str, c)
<1>1. /\ n \in Nat /\ more \in Str /\ Len(more) = n + 1 /\ more[n + 1] = c
      /\ \A i \in 1..n : more[i] = str[i]
  BY AppendProperties, LenProperties DEF Str
<1> HIDE DEF more
<1>2. PICK f : IsScan(f, more)
  BY <1>1, ScanExists
<1>3. f \in [0..n + 1 -> Scanning] /\ f[0] = NoTokens /\ \A i \in 1..n + 1 : f[i] = Scan(f[i - 1], more[i], NL_CHAR)
  BY <1>1, <1>2 DEF IsScan
<1> DEFINE g == [i \in 0..n |-> f[i]]
<1>4. IsScan(g, str)
  <2>1. g \in [0..n -> Scanning] /\ g[0] = NoTokens
    BY <1>1, <1>3
  <2>2. ASSUME NEW i \in 1..n PROVE g[i] = Scan(g[i - 1], str[i], NL_CHAR)
    <3>1. i \in 0..n /\ i - 1 \in 0..n /\ i \in 1..n + 1
      BY <1>1
    <3> QED BY <1>1, <1>3, <3>1
  <2> HIDE DEF g
  <2> QED BY <2>1, <2>2 DEF IsScan
<1>5. Scanned(str, NL_CHAR) = f[n]
  <2>1. Scanned(str, NL_CHAR) = g[n]
    BY <1>4, ScannedIs
  <2> QED BY <1>1, <2>1
<1>6. Scanned(more, NL_CHAR) = f[n + 1]
  BY <1>1, <1>2, ScannedIs
<1>7. f[n + 1] = Scan(f[n], c, NL_CHAR) /\ f[n] \in Scanning
  <2>1. n + 1 \in 1..n + 1 /\ (n + 1) - 1 = n /\ n \in 0..n + 1
    BY <1>1
  <2>2. f[n + 1] = Scan(f[(n + 1) - 1], more[n + 1], NL_CHAR)
    BY <1>3, <2>1
  <2> QED BY <1>1, <1>3, <2>1, <2>2
<1> QED BY <1>5, <1>6, <1>7 DEF more

-----------------------------------------------------------------------------
\* FlattenSeq of what a function makes of each element.

\* What Without makes of one element more.
LEMMA WithoutAppend ==
  ASSUME NEW S, NEW s \in Seq(S), NEW e \in S, NEW U
  PROVE  /\ Without(s, U) \in Seq(S)
         /\ Without(Append(s, e), U) = IF e \in U THEN Without(s, U) ELSE Append(Without(s, U), e)
<1> DEFINE piece(x) == IF x \in U THEN <<>> ELSE <<x>>
           n == Len(s)
           r == Append(s, e)
           p == [i \in 1..n |-> piece(s[i])]
           q == [i \in 1..n + 1 |-> piece(r[i])]
           l == piece(e)
<1>1. /\ n \in Nat /\ DOMAIN s = 1..n /\ r \in Seq(S) /\ Len(r) = n + 1 /\ DOMAIN r = 1..n + 1
      /\ r[n + 1] = e /\ \A i \in 1..n : r[i] = s[i] /\ s[i] \in S
  BY AppendProperties, LenProperties, ElementOfSeq
<1>2. \A x \in S : piece(x) \in Seq(S)
  <2>1. <<>> \in Seq(S) /\ \A x \in S : <<x>> \in Seq(S)
    OBVIOUS
  <2> QED BY <2>1
<1>3. Without(s, U) = FlattenSeq(p) /\ Without(r, U) = FlattenSeq(q)
  BY <1>1 DEF Without
<1> HIDE DEF r
<1>4. p \in Seq(Seq(S)) /\ Len(p) = n /\ l \in Seq(S)
  <2>1. \A i \in 1..n : p[i] \in Seq(S)
    BY <1>1, <1>2
  <2>2. p \in [1..n -> Seq(S)]
    BY <2>1
  <2> HIDE DEF p
  <2> QED BY <1>1, <1>2, <2>2
<1>5. q = Append(p, l)
  <2>1. q \in Seq(Seq(S)) /\ Len(q) = n + 1
    <3>1. \A i \in 1..n + 1 : q[i] \in Seq(S)
      <4>1. \A i \in 1..n + 1 : r[i] \in S
        BY <1>1, ElementOfSeq
      <4> QED BY <1>2, <4>1
    <3>2. q \in [1..n + 1 -> Seq(S)]
      BY <3>1
    <3> HIDE DEF q
    <3> QED BY <1>1, <3>2
  <2>2. q[n + 1] = l /\ \A i \in 1..n : q[i] = p[i]
    BY <1>1
  <2> HIDE DEF p, q, l
  <2>3. /\ Append(p, l) \in Seq(Seq(S)) /\ Len(Append(p, l)) = n + 1 /\ Append(p, l)[n + 1] = l
        /\ \A i \in 1..n : Append(p, l)[i] = p[i]
    BY <1>4, AppendProperties
  <2> DEFINE a == Append(p, l)
  <2> HIDE DEF a
  <2>4. \A i \in 1..n + 1 : q[i] = a[i]
    <3>1. \A i \in 1..n + 1 : i = n + 1 \/ i \in 1..n
      BY <1>1
    <3> QED BY <2>2, <2>3, <3>1 DEF a
  <2>5. q = a
    BY <2>1, <2>3, <2>4, SeqEqual DEF a
  <2> QED BY <2>5 DEF a
<1> HIDE DEF p, q, l
<1>6. FlattenSeq(p) \in Seq(S) /\ FlattenSeq(q) = FlattenSeq(p) \o l
  BY <1>4, <1>5, FlattenAppend
<1>7. FlattenSeq(p) \o l = IF e \in U THEN FlattenSeq(p) ELSE Append(FlattenSeq(p), e)
  <2> DEFINE w == FlattenSeq(p)
  <2>1. w \in Seq(S)
    BY <1>6
  <2> HIDE DEF w
  <2>2. w \o <<>> = w /\ w \o <<e>> = Append(w, e)
    BY <2>1, ConcatEmptySeq, AppendIsConcat
  <2> QED BY <2>2 DEF w, l
<1> QED BY <1>3, <1>6, <1>7 DEF r

LEMMA WithoutEmpty == ASSUME NEW U PROVE Without(<<>>, U) = <<>>
<1>1. [i \in DOMAIN <<>> |-> IF <<>>[i] \in U THEN <<>> ELSE <<(<<>>[i])>>] = <<>>
  OBVIOUS
<1> QED BY <1>1, FlattenEmpty DEF Without

LEMMA WithoutConcat ==
  ASSUME NEW S, NEW a \in Seq(S), NEW b \in Seq(S), NEW U
  PROVE  Without(a \o b, U) = Without(a, U) \o Without(b, U)
<1> DEFINE T == {t \in Seq(S) : Without(a \o t, U) = Without(a, U) \o Without(t, U)}
<1>0. Without(a, U) \in Seq(S) /\ \A t \in Seq(S) : Without(t, U) \in Seq(S)
  <2>1. \A t \in Seq(S) : Without(t, U) \in Seq(S)
    <3>1. ASSUME NEW t \in Seq(S), t # <<>> PROVE Without(t, U) \in Seq(S)
      <4>1. PICK r \in Seq(S), e \in S : t = Append(r, e)
        BY <3>1, SequenceEmptyOrAppend
      <4> QED BY <4>1, WithoutAppend
    <3>2. Without(<<>>, U) \in Seq(S)
      BY WithoutEmpty, EmptySeq
    <3> QED BY <3>1, <3>2
  <2> QED BY <2>1
<1>1. <<>> \in T
  <2>1. a \o <<>> = a /\ <<>> \in Seq(S) /\ Without(a, U) \o <<>> = Without(a, U)
    BY <1>0, ConcatEmptySeq, EmptySeq
  <2> QED BY <2>1, WithoutEmpty
<1>2. ASSUME NEW t \in Seq(S), NEW e \in S, t \in T PROVE Append(t, e) \in T
  <2>1. a \o Append(t, e) = Append(a \o t, e) /\ a \o t \in Seq(S) /\ Append(t, e) \in Seq(S)
    BY ConcatAppend, AppendProperties
  <2>2. Without(Append(a \o t, e), U) = IF e \in U THEN Without(a \o t, U) ELSE Append(Without(a \o t, U), e)
    <3> DEFINE c == a \o t
    <3>1. c \in Seq(S)
      BY <2>1
    <3> HIDE DEF c
    <3>2. Without(Append(c, e), U) = IF e \in U THEN Without(c, U) ELSE Append(Without(c, U), e)
      BY <3>1, WithoutAppend
    <3> QED BY <3>2 DEF c
  <2>3. Without(Append(t, e), U) = IF e \in U THEN Without(t, U) ELSE Append(Without(t, U), e)
    BY WithoutAppend
  <2>4. Without(a, U) \o Append(Without(t, U), e) = Append(Without(a, U) \o Without(t, U), e)
    BY <1>0, ConcatAppend
  <2>5. Without(a \o t, U) = Without(a, U) \o Without(t, U)
    BY <1>2
  <2>6. Without(Append(a \o t, e), U) = Without(a, U) \o Without(Append(t, e), U)
    BY <2>2, <2>3, <2>4, <2>5
  <2> QED BY <2>1, <2>6
<1> HIDE DEF T
<1>3. \A t \in Seq(S) : t \in T
  BY <1>1, <1>2, SequenceInduction
<1> QED BY <1>3 DEF T

-----------------------------------------------------------------------------
\* JoinStrings, with one string more.

Nothing(v) == \A k \in 1..Len(v) : v[k] = <<>>

\* What JoinStrings puts in front of the next string.
Between(v) == IF Nothing(v) THEN <<>> ELSE <<NL_CHAR>>

LEMMA JoinEmpty == JoinStrings(<<>>, NL_CHAR) = <<>>
<1> DEFINE isFirst(i) == \A k \in 1..i - 1 : <<>>[k] = <<>>
<1>1. [i \in DOMAIN <<>> |-> IF isFirst(i) THEN <<>>[i] ELSE <<NL_CHAR>> \o <<>>[i]] = <<>>
  OBVIOUS
<1> QED BY <1>1, FlattenEmpty DEF JoinStrings

LEMMA JoinAppend ==
  ASSUME NEW v \in StrVec, NEW s \in Str
  PROVE  /\ JoinStrings(v, NL_CHAR) \in Str /\ Between(v) \in Str /\ Between(v) \o s \in Str
         /\ JoinStrings(Append(v, s), NL_CHAR) = JoinStrings(v, NL_CHAR) \o (Between(v) \o s)
<1> DEFINE n == Len(v)
           r == Append(v, s)
           piece(w, i) == IF \A k \in 1..i - 1 : w[k] = <<>> THEN w[i] ELSE <<NL_CHAR>> \o w[i]
           p == [i \in 1..n |-> piece(v, i)]
           q == [i \in 1..n + 1 |-> piece(r, i)]
           l == Between(v) \o s
<1>1. /\ n \in Nat /\ DOMAIN v = 1..n /\ r \in StrVec /\ Len(r) = n + 1 /\ DOMAIN r = 1..n + 1
      /\ r[n + 1] = s /\ \A i \in 1..n : r[i] = v[i] /\ v[i] \in Str
  BY AppendProperties, LenProperties, ElementOfSeq DEF StrVec
<1>2. JoinStrings(v, NL_CHAR) = FlattenSeq(p) /\ JoinStrings(r, NL_CHAR) = FlattenSeq(q)
  BY <1>1 DEF JoinStrings
<1> HIDE DEF r
<1>3. <<NL_CHAR>> \in Str /\ Between(v) \in Str
  <2>1. <<NL_CHAR>> \in Str
    BY UtilitiesAssumption DEF Str
  <2> QED BY <2>1, NoTokensType DEF Between
<1>4. \A x \in Str : <<NL_CHAR>> \o x \in Str
  BY <1>3, ConcatProperties DEF Str
<1>5. l \in Str
  BY <1>3, ConcatProperties DEF Str
<1>6. \A i \in 1..n : p[i] \in Str
  BY <1>1, <1>4
<1>7. \A i \in 1..n : q[i] = p[i]
  <2>1. ASSUME NEW i \in 1..n PROVE piece(r, i) = piece(v, i)
    <3>1. \A k \in 1..i - 1 : k \in 1..n
      BY <1>1
    <3>2. \A k \in 1..i - 1 : r[k] = v[k]
      BY <1>1, <3>1
    <3> QED BY <1>1, <3>2
  <2>2. \A i \in 1..n : i \in 1..n + 1
    BY <1>1
  <2> QED BY <2>1, <2>2
<1>8. q[n + 1] = l
  <2>1. (n + 1) - 1 = n /\ n + 1 \in 1..n + 1
    BY <1>1
  <2>2. (\A k \in 1..(n + 1) - 1 : r[k] = <<>>) <=> Nothing(v)
    BY <1>1, <2>1 DEF Nothing
  <2>3. <<>> \o s = s
    BY ConcatEmptySeq DEF Str
  <2> QED BY <1>1, <2>1, <2>2, <2>3 DEF Between
<1> HIDE DEF p, q, l
<1>9. p \in StrVec /\ Len(p) = n
  <2>1. p = [i \in 1..n |-> p[i]]
    BY DEF p
  <2>2. p \in [1..n -> Str]
    BY <1>6, <2>1
  <2> QED BY <1>1, <2>2 DEF StrVec
<1>10. q \in StrVec /\ Len(q) = n + 1
  <2>1. \A i \in 1..n + 1 : q[i] \in Str
    <3>1. \A i \in 1..n + 1 : i = n + 1 \/ i \in 1..n
      BY <1>1
    <3> QED BY <1>5, <1>6, <1>7, <1>8, <3>1
  <2>2. q = [i \in 1..n + 1 |-> q[i]]
    BY DEF q
  <2>3. q \in [1..n + 1 -> Str]
    BY <2>1, <2>2
  <2> QED BY <1>1, <2>3 DEF StrVec
<1>11. q = Append(p, l)
  <2> DEFINE a == Append(p, l)
  <2>1. /\ a \in StrVec /\ Len(a) = n + 1 /\ a[n + 1] = l /\ \A i \in 1..n : a[i] = p[i]
    BY <1>5, <1>9, AppendProperties DEF StrVec
  <2> HIDE DEF a
  <2>2. \A i \in 1..n + 1 : q[i] = a[i]
    <3>1. \A i \in 1..n + 1 : i = n + 1 \/ i \in 1..n
      BY <1>1
    <3> QED BY <1>7, <1>8, <2>1, <3>1
  <2>3. q = a
    BY <1>10, <2>1, <2>2, SeqEqual DEF StrVec
  <2> QED BY <2>3 DEF a
<1>12. FlattenSeq(p) \in Str /\ FlattenSeq(q) = FlattenSeq(p) \o l
  BY <1>5, <1>9, <1>11, FlattenAppend DEF Str, StrVec
<1> QED BY <1>2, <1>3, <1>5, <1>12 DEF r, l

-----------------------------------------------------------------------------
\* No character but white space is lost: in the line, nor in the tokens.

Visible(s) == Without(s, WhiteSpace)

LEMMA VisibleType == \A s \in Str : Visible(s) \in Str
<1>1. \A s \in Str : Without(s, WhiteSpace) \in Str
  BY UtilitiesAssumption, WithoutAppend DEF Str
<1> QED BY <1>1 DEF Visible

LEMMA VisibleAppend ==
  \A s \in Str, c \in Characters :
    Visible(Append(s, c)) = IF c \in WhiteSpace THEN Visible(s) ELSE Append(Visible(s), c)
<1> SUFFICES ASSUME NEW s \in Seq(Characters), NEW c \in Characters
             PROVE  Visible(Append(s, c)) = IF c \in WhiteSpace THEN Visible(s) ELSE Append(Visible(s), c)
  BY DEF Str
<1> QED BY WithoutAppend DEF Visible

LEMMA VisibleConcat == \A a, b \in Str : Visible(a \o b) = Visible(a) \o Visible(b)
<1> SUFFICES ASSUME NEW a \in Seq(Characters), NEW b \in Seq(Characters)
             PROVE  Visible(a \o b) = Visible(a) \o Visible(b)
  BY DEF Str
<1> QED BY WithoutConcat DEF Visible

LEMMA VisibleJoin == \A v \in StrVec : Visible(JoinStrings(v, NL_CHAR)) = Visible(FlattenSeq(v))
<1> DEFINE T == {v \in StrVec : Visible(JoinStrings(v, NL_CHAR)) = Visible(FlattenSeq(v))}
<1>1. <<>> \in T
  BY JoinEmpty, FlattenEmpty, NoTokensType
<1>2. ASSUME NEW v \in StrVec, NEW s \in Str, v \in T PROVE Append(v, s) \in T
  <2> DEFINE j == JoinStrings(v, NL_CHAR)
             b == Between(v)
             bs == b \o s
             f == FlattenSeq(v)
  <2>1. /\ j \in Str /\ b \in Str /\ bs \in Str
        /\ JoinStrings(Append(v, s), NL_CHAR) = j \o bs
    BY JoinAppend
  <2>2. f \in Str /\ FlattenSeq(Append(v, s)) = f \o s
    BY FlattenAppend DEF Str, StrVec
  <2>3. Visible(j) = Visible(f)
    BY <1>2
  <2>4. Append(v, s) \in StrVec
    BY AppendProperties DEF StrVec
  <2>5. Visible(b) = <<>>
    <3>1. NL_CHAR \in WhiteSpace /\ NL_CHAR \in Characters
      BY UtilitiesAssumption DEF WhiteSpace
    <3>2. <<>> \in Seq(Characters) /\ Append(<<>>, NL_CHAR) = <<NL_CHAR>>
      OBVIOUS
    <3>3. Without(Append(<<>>, NL_CHAR), WhiteSpace) = Without(<<>>, WhiteSpace)
      BY <3>1, <3>2, WithoutAppend
    <3> QED BY <3>2, <3>3, WithoutEmpty DEF Visible, Between
  <2>6. Visible(s) \in Str /\ Visible(j) \in Str
    BY <2>1, VisibleType
  <2>7. bs = b \o s
    OBVIOUS
  <2> HIDE DEF j, b, bs, f
  <2>8. /\ Visible(j \o bs) = Visible(j) \o Visible(bs)
        /\ Visible(b \o s) = Visible(b) \o Visible(s)
        /\ Visible(f \o s) = Visible(f) \o Visible(s)
    BY <2>1, <2>2, VisibleConcat
  <2>9. <<>> \o Visible(s) = Visible(s)
    BY <2>6, ConcatEmptySeq DEF Str
  <2> QED BY <2>1, <2>2, <2>3, <2>4, <2>5, <2>7, <2>8, <2>9
<1> HIDE DEF T
<1>3. \A v \in StrVec : v \in T
  BY <1>1, <1>2, SequenceInduction DEF StrVec
<1> QED BY <1>3 DEF T

\* What a scan holds: the tokens behind each other and the one begun.
Held(s) == FlattenSeq(s.tokens) \o s.token

LEMMA HeldType == \A s \in Scanning : Held(s) \in Str /\ FlattenSeq(s.tokens) \in Str
<1> SUFFICES ASSUME NEW s \in Scanning PROVE Held(s) \in Str /\ FlattenSeq(s.tokens) \in Str
  OBVIOUS
<1>1. s.tokens \in StrVec /\ s.token \in Str
  BY DEF Scanning
<1>2. FlattenSeq(s.tokens) \in Str
  BY <1>1, FlattenAppend DEF Str, StrVec
<1> DEFINE f == FlattenSeq(s.tokens)
           l == s.token
<1>3. f \in Str /\ l \in Str
  BY <1>1, <1>2
<1> HIDE DEF f, l
<1>4. f \o l \in Str
  BY <1>3, ConcatProperties DEF Str
<1> QED BY <1>3, <1>4 DEF Held, f, l

\* A character that is not white is held, a delimiter or white space ends the
\* token or becomes part of it.
LEMMA HeldScan ==
  ASSUME NEW s \in Scanning, NEW c \in Characters
  PROVE  \/ c \in WhiteSpace /\ Held(Scan(s, c, NL_CHAR)) = Held(s)
         \/ Held(Scan(s, c, NL_CHAR)) = Append(Held(s), c)
<1> DEFINE f == FlattenSeq(s.tokens)
           l == s.token
<1>1. s.tokens \in StrVec /\ l \in Str /\ f \in Str
  BY HeldType DEF Scanning
<1>2. NL_CHAR \in WhiteSpace
  BY DEF WhiteSpace
<1>3. CASE l = <<>> /\ c \in WhiteSpace
  BY <1>3 DEF Scan
<1>4. CASE ~(l = <<>> /\ c \in WhiteSpace) /\ c = NL_CHAR
  <2>1. Scan(s, c, NL_CHAR) = [tokens |-> Append(s.tokens, l), token |-> <<>>]
    BY <1>4 DEF Scan
  <2>2. FlattenSeq(Append(s.tokens, l)) = f \o l
    BY <1>1, FlattenAppend DEF Str, StrVec
  <2>3. Held(Scan(s, c, NL_CHAR)) = (f \o l) \o <<>>
    <3> DEFINE u == Append(s.tokens, l)
    <3> HIDE DEF u
    <3>1. Held([tokens |-> u, token |-> <<>>]) = FlattenSeq(u) \o <<>>
      BY DEF Held
    <3> QED BY <2>1, <2>2, <3>1 DEF u
  <2>4. f \o l \in Str
    BY HeldType DEF Held
  <2>5. (f \o l) \o <<>> = f \o l
    BY <2>4, ConcatEmptySeq DEF Str
  <2> QED BY <1>2, <1>4, <2>3, <2>5 DEF Held
<1>5. CASE ~(l = <<>> /\ c \in WhiteSpace) /\ c # NL_CHAR
  <2>1. Scan(s, c, NL_CHAR) = [s EXCEPT !.token = Append(l, c)]
    BY <1>5 DEF Scan
  <2>2. Held(Scan(s, c, NL_CHAR)) = f \o Append(l, c)
    BY <2>1 DEF Held, Scanning
  <2> HIDE DEF f, l
  <2>3. f \o Append(l, c) = Append(f \o l, c)
    BY <1>1, ConcatAppend DEF Str
  <2> QED BY <2>2, <2>3 DEF Held, f, l
<1> QED BY <1>3, <1>4, <1>5

LEMMA VisibleScanned == \A str \in Str : Visible(Held(Scanned(str, NL_CHAR))) = Visible(str)
<1> DEFINE T == {t \in Str : Visible(Held(Scanned(t, NL_CHAR))) = Visible(t)}
<1>1. <<>> \in T
  <2>1. Held(NoTokens) = <<>> \o <<>>
    BY FlattenEmpty DEF Held, NoTokens
  <2>2. <<>> \o <<>> = <<>>
    BY ConcatEmptySeq, NoTokensType DEF Str
  <2> QED BY <2>1, <2>2, ScannedEmpty, NoTokensType
<1>2. ASSUME NEW t \in Str, NEW c \in Characters, t \in T PROVE Append(t, c) \in T
  <2> DEFINE s == Scanned(t, NL_CHAR)
             h == Held(s)
  <2>1. s \in Scanning /\ Scanned(Append(t, c), NL_CHAR) = Scan(s, c, NL_CHAR)
    BY ScannedAppend
  <2>2. h \in Str
    BY <2>1, HeldType
  <2>3. \/ c \in WhiteSpace /\ Held(Scan(s, c, NL_CHAR)) = h
        \/ Held(Scan(s, c, NL_CHAR)) = Append(h, c)
    BY <2>1, HeldScan
  <2>4. Visible(h) = Visible(t)
    BY <1>2
  <2> HIDE DEF s, h
  <2>5. /\ Visible(Append(t, c)) = IF c \in WhiteSpace THEN Visible(t) ELSE Append(Visible(t), c)
        /\ Visible(Append(h, c)) = IF c \in WhiteSpace THEN Visible(h) ELSE Append(Visible(h), c)
    BY <2>2, VisibleAppend
  <2>6. Append(t, c) \in Str
    BY AppendProperties DEF Str
  <2>7. Visible(Held(Scan(s, c, NL_CHAR))) = Visible(Append(t, c))
    BY <2>3, <2>4, <2>5
  <2> QED BY <2>1, <2>6, <2>7
<1> HIDE DEF T
<1>3. \A t \in Str : t \in T
  BY <1>1, <1>2, SequenceInduction DEF Str
<1> QED BY <1>3 DEF T

-----------------------------------------------------------------------------
\* No more tokens than characters.

Fits(s, n) ==
  2 * Len(s.tokens) <= n /\ (s.token # <<>> => 2 * Len(s.tokens) + 1 <= n)

LEMMA FitsScan ==
  ASSUME NEW s \in Scanning, NEW c \in Characters, NEW n \in Nat, Fits(s, n)
  PROVE  Fits(Scan(s, c, NL_CHAR), n + 1)
<1> DEFINE k == Len(s.tokens)
<1>1. s.tokens \in StrVec /\ s.token \in Str /\ k \in Nat
  BY LenProperties DEF Scanning, StrVec
<1>2. 2 * k <= n /\ (s.token # <<>> => 2 * k + 1 <= n)
  BY DEF Fits
<1> HIDE DEF k
<1>3. 2 * k <= n + 1 /\ 2 * k + 1 <= n + 1
  BY <1>1, <1>2
<1>4. CASE s.token = <<>> /\ c \in WhiteSpace
  BY <1>3, <1>4 DEF Scan, Fits, k
<1>5. CASE ~(s.token = <<>> /\ c \in WhiteSpace) /\ c = NL_CHAR
  <2>1. 2 * (k + 1) <= n + 1
    BY <1>1, <1>2, <1>5 DEF WhiteSpace
  <2> DEFINE v == Append(s.tokens, s.token)
  <2>2. Len(v) = k + 1
    BY <1>1, AppendProperties DEF StrVec, k
  <2> HIDE DEF v
  <2>3. Fits([tokens |-> v, token |-> <<>>], n + 1)
    BY <2>1, <2>2 DEF Fits
  <2> QED BY <1>5, <2>3 DEF Scan, v
<1>6. CASE ~(s.token = <<>> /\ c \in WhiteSpace) /\ c # NL_CHAR
  <2>1. Scan(s, c, NL_CHAR).tokens = s.tokens
    BY <1>6 DEF Scan, Scanning
  <2> QED BY <1>3, <2>1 DEF Fits, k
<1> QED BY <1>4, <1>5, <1>6

LEMMA ScannedFits == \A str \in Str : Fits(Scanned(str, NL_CHAR), Len(str))
<1> DEFINE T == {t \in Str : Fits(Scanned(t, NL_CHAR), Len(t))}
<1>1. <<>> \in T
  <2>1. Len(<<>>) = 0 /\ 2 * 0 = 0
    OBVIOUS
  <2>2. Fits(NoTokens, 0)
    BY <2>1 DEF Fits, NoTokens
  <2> QED BY <2>1, <2>2, ScannedEmpty, NoTokensType
<1>2. ASSUME NEW t \in Str, NEW c \in Characters, t \in T PROVE Append(t, c) \in T
  <2>1. /\ Scanned(t, NL_CHAR) \in Scanning
        /\ Scanned(Append(t, c), NL_CHAR) = Scan(Scanned(t, NL_CHAR), c, NL_CHAR)
    BY ScannedAppend
  <2>2. Len(t) \in Nat /\ Len(Append(t, c)) = Len(t) + 1 /\ Append(t, c) \in Str
    BY AppendProperties, LenProperties DEF Str
  <2>3. Fits(Scanned(Append(t, c), NL_CHAR), Len(t) + 1)
    BY <1>2, <2>1, <2>2, FitsScan
  <2> QED BY <2>2, <2>3
<1> HIDE DEF T
<1>3. \A t \in Str : t \in T
  BY <1>1, <1>2, SequenceInduction DEF Str
<1> QED BY <1>3 DEF T

-----------------------------------------------------------------------------
\* Plain strings come out as they went in.

\* What is plain, or nothing.
IsPart(s) == s = <<>> \/ Plain(s)

LEMMA PartAppend ==
  ASSUME NEW s \in Str, NEW c \in Characters, IsPart(Append(s, c))
  PROVE  /\ IsPart(s) /\ c # NL_CHAR
         /\ s = <<>> => c \notin WhiteSpace
<1> DEFINE a == Append(s, c)
           n == Len(s)
<1>1. /\ a \in Str /\ n \in Nat /\ Len(a) = n + 1 /\ a[n + 1] = c
      /\ \A i \in 1..n : a[i] = s[i]
  BY AppendProperties, LenProperties DEF Str
<1>2. (s = <<>> <=> n = 0) /\ DOMAIN s = 1..n /\ DOMAIN a = 1..n + 1
  BY <1>1, EmptySeq, LenProperties DEF Str
<1> HIDE DEF a, n
<1>3. a # <<>>
  BY <1>1, EmptySeq
<1>4. Plain(a)
  BY <1>3 DEF IsPart, a
<1>5. a[1] \notin WhiteSpace /\ \A i \in 1..n + 1 : a[i] # NL_CHAR
  BY <1>2, <1>4 DEF Plain
<1>6. c # NL_CHAR
  <2>1. n + 1 \in 1..n + 1
    BY <1>1
  <2> QED BY <1>1, <1>5, <2>1
<1>7. s = <<>> => c \notin WhiteSpace
  <2>1. n = 0 => n + 1 = 1
    OBVIOUS
  <2> QED BY <1>1, <1>2, <1>5, <2>1
<1>8. s # <<>> => Plain(s)
  <2> SUFFICES ASSUME s # <<>> PROVE Plain(s)
    OBVIOUS
  <2>1. 1 \in 1..n /\ \A i \in 1..n : i \in 1..n + 1
    BY <1>1, <1>2
  <2> QED BY <1>1, <1>2, <1>5, <2>1 DEF Plain
<1> QED BY <1>6, <1>7, <1>8 DEF IsPart

\* Behind a delimiter, a part becomes the token.
LEMMA PartScanned ==
  ASSUME NEW b \in Str, Scanned(b, NL_CHAR).token = <<>>
  PROVE  \A s \in Str : IsPart(s) => /\ Scanned(b \o s, NL_CHAR).tokens = Scanned(b, NL_CHAR).tokens
                                     /\ Scanned(b \o s, NL_CHAR).token = s
<1> DEFINE z == Scanned(b, NL_CHAR)
           Becomes(s) == Scanned(b \o s, NL_CHAR).tokens = z.tokens /\ Scanned(b \o s, NL_CHAR).token = s
           T == {s \in Str : IsPart(s) => Becomes(s)}
<1>1. <<>> \in T
  <2>1. b \o <<>> = b
    BY ConcatEmptySeq DEF Str
  <2> QED BY <2>1, NoTokensType
<1>2. ASSUME NEW s \in Str, NEW c \in Characters, s \in T PROVE Append(s, c) \in T
  <2>1. Append(s, c) \in Str
    BY AppendProperties DEF Str
  <2> SUFFICES ASSUME IsPart(Append(s, c)) PROVE Becomes(Append(s, c))
    BY <2>1
  <2>2. IsPart(s) /\ c # NL_CHAR /\ (s = <<>> => c \notin WhiteSpace)
    BY PartAppend
  <2>3. Becomes(s)
    BY <1>2, <2>2
  <2> DEFINE bs == b \o s
             x == Scanned(bs, NL_CHAR)
  <2>4. b \o Append(s, c) = Append(bs, c) /\ bs \in Str
    BY ConcatAppend DEF Str
  <2>5. x.tokens = z.tokens /\ x.token = s
    BY <2>3
  <2> HIDE DEF bs
  <2>6. x \in Scanning /\ Scanned(Append(bs, c), NL_CHAR) = Scan(x, c, NL_CHAR)
    BY <2>4, ScannedAppend
  <2> HIDE DEF x, z
  <2>7. Scan(x, c, NL_CHAR) = [x EXCEPT !.token = Append(s, c)]
    BY <2>2, <2>5 DEF Scan
  <2>8. Scan(x, c, NL_CHAR).tokens = z.tokens /\ Scan(x, c, NL_CHAR).token = Append(s, c)
    BY <2>5, <2>6, <2>7 DEF Scanning
  <2> QED BY <2>4, <2>6, <2>8
<1> HIDE DEF T
<1>3. \A s \in Str : s \in T
  BY <1>1, <1>2, SequenceInduction DEF Str
<1> QED BY <1>3 DEF T

AllPlain(v) == \A i \in 1..Len(v) : Plain(v[i])

LEMMA TokensOfPlain ==
  \A v \in StrVec : AllPlain(v) /\ v # <<>> => AllTokens(JoinStrings(v, NL_CHAR), NL_CHAR) = v
<1> DEFINE Comes(v) == /\ AllTokens(JoinStrings(v, NL_CHAR), NL_CHAR) = v
                       /\ Scanned(JoinStrings(v, NL_CHAR), NL_CHAR).token # <<>>
           T == {v \in StrVec : AllPlain(v) /\ v # <<>> => Comes(v)}
<1>1. <<>> \in T
  BY NoTokensType
<1>2. ASSUME NEW v \in StrVec, NEW s \in Str, v \in T PROVE Append(v, s) \in T
  <2> DEFINE n == Len(v)
             r == Append(v, s)
  <2>1. /\ n \in Nat /\ r \in StrVec /\ Len(r) = n + 1 /\ r[n + 1] = s
        /\ \A i \in 1..n : r[i] = v[i]
    BY AppendProperties, LenProperties DEF StrVec
  <2> SUFFICES ASSUME AllPlain(r) PROVE Comes(r)
    BY <2>1
  <2>2. Plain(s) /\ AllPlain(v)
    <3>1. n + 1 \in 1..n + 1 /\ \A i \in 1..n : i \in 1..n + 1
      BY <2>1
    <3> HIDE DEF r
    <3> QED BY <2>1, <3>1 DEF AllPlain
  <2> DEFINE j == JoinStrings(v, NL_CHAR)
             b == Between(v)
  <2>3. j \in Str /\ b \in Str /\ JoinStrings(r, NL_CHAR) = j \o (b \o s)
    BY JoinAppend
  <2> DEFINE jb == j \o b
  <2>4. jb \in Str /\ j \o (b \o s) = jb \o s
    <3> HIDE DEF j, b
    <3> QED BY <2>3, ConcatProperties, ConcatAssociative DEF Str
  <2>5. Scanned(jb, NL_CHAR).token = <<>> /\ Scanned(jb, NL_CHAR).tokens = v
    <3>1. CASE v = <<>>
      <4>1. Nothing(v)
        BY <3>1 DEF Nothing
      <4>2. j = <<>> /\ b = <<>>
        BY <3>1, <4>1, JoinEmpty DEF Between
      <4>3. jb = <<>>
        BY <4>2, NoTokensType, ConcatEmptySeq DEF Str
      <4>4. Scanned(jb, NL_CHAR) = NoTokens
        BY <4>3, ScannedEmpty
      <4> HIDE DEF jb
      <4> QED BY <3>1, <4>4 DEF NoTokens
    <3>2. CASE v # <<>>
      <4>1. ~Nothing(v)
        <5>1. 1 \in 1..n
          BY <2>1, <3>2, EmptySeq DEF StrVec
        <5> QED BY <2>2, <5>1 DEF Nothing, AllPlain, Plain
      <4>2. jb = Append(j, NL_CHAR)
        <5>1. jb = j \o <<NL_CHAR>>
          BY <4>1 DEF Between
        <5> HIDE DEF jb, j
        <5> QED BY <2>3, <5>1, UtilitiesAssumption, AppendIsConcat DEF Str
      <4> DEFINE x == Scanned(j, NL_CHAR)
      <4>3. Append(x.tokens, x.token) = v /\ x.token # <<>>
        BY <1>2, <2>2, <3>2 DEF AllTokens
      <4> HIDE DEF j
      <4>4. x \in Scanning /\ Scanned(Append(j, NL_CHAR), NL_CHAR) = Scan(x, NL_CHAR, NL_CHAR)
        BY <2>3, UtilitiesAssumption, ScannedAppend
      <4> HIDE DEF x, jb
      <4>5. Scan(x, NL_CHAR, NL_CHAR) = [tokens |-> v, token |-> <<>>]
        BY <4>3 DEF Scan
      <4> QED BY <4>2, <4>4, <4>5
    <3> QED BY <3>1, <3>2
  <2> HIDE DEF jb, r
  <2>6. Scanned(jb \o s, NL_CHAR).tokens = v /\ Scanned(jb \o s, NL_CHAR).token = s
    BY <2>2, <2>4, <2>5, PartScanned DEF IsPart
  <2>7. AllTokens(jb \o s, NL_CHAR) = r
    BY <2>6 DEF AllTokens, r
  <2>8. s # <<>>
    BY <2>2 DEF Plain
  <2> QED BY <2>3, <2>4, <2>6, <2>7, <2>8
<1> HIDE DEF T
<1>3. \A v \in StrVec : v \in T
  BY <1>1, <1>2, SequenceInduction DEF StrVec
<1> QED BY <1>3 DEF T

-----------------------------------------------------------------------------
\* The limit of ParseTokens.

LEMMA ToShortIs ==
  ASSUME NEW n \in Nat
  PROVE  /\ n <= ShortMax => ToShort(n) = n
         /\ ShortMax < n /\ n <= 2 * (ShortMax + 1) => ToShort(n) <= 0 /\ ToShort(n) \in Int
<1> DEFINE m == 2 * (ShortMax + 1)
           k == n + ShortMax + 1
<1>1. ShortMax \in Nat \ {0} /\ m \in Nat \ {0} /\ k \in Nat
  BY UtilitiesAssumption
<1>2. \A a \in Nat, b \in Nat \ {0} : a < b => a % b = a
  OBVIOUS
<1>3. \A a \in Nat, b \in Nat \ {0} : b <= a /\ a < 2 * b => a % b = a - b
  OBVIOUS
<1>4. ToShort(n) = (k % m) - (ShortMax + 1)
  BY DEF ToShort
<1>5. n <= ShortMax => k < m
  BY <1>1
<1>6. ShortMax < n /\ n <= m => m <= k /\ k < 2 * m
  BY <1>1
<1>7. k = n + ShortMax + 1 /\ m = ShortMax + ShortMax + 2
  BY <1>1
<1> HIDE DEF k, m
<1>8. n <= ShortMax => k % m = k
  BY <1>1, <1>2, <1>5
<1>9. ShortMax < n /\ n <= m => k % m = k - m
  BY <1>1, <1>3, <1>6
<1>10. n <= ShortMax => ToShort(n) = n
  BY <1>1, <1>4, <1>7, <1>8
<1>11. ShortMax < n /\ n <= m => ToShort(n) = n - ShortMax - ShortMax - 2
  BY <1>1, <1>4, <1>7, <1>9
<1>12. ShortMax < n /\ n <= m => ToShort(n) <= 0 /\ ToShort(n) \in Int
  BY <1>1, <1>7, <1>11
<1> QED BY <1>10, <1>12 DEF m

LEMMA AllTokensType ==
  ASSUME NEW str \in Str
  PROVE  /\ AllTokens(str, NL_CHAR) \in StrVec /\ Len(AllTokens(str, NL_CHAR)) \in Nat \ {0}
         /\ str # <<>> => Len(AllTokens(str, NL_CHAR)) <= Len(str)
         /\ FlattenSeq(AllTokens(str, NL_CHAR)) = Held(Scanned(str, NL_CHAR))
<1> DEFINE s == Scanned(str, NL_CHAR)
           n == Len(str)
           k == Len(s.tokens)
<1>1. s \in Scanning /\ Fits(s, n)
  <2>1. NL_CHAR \in Characters
    BY UtilitiesAssumption
  <2> QED BY <2>1, ScannedAppend, ScannedFits
<1>2. n \in Nat /\ (str # <<>> => n # 0)
  BY LenProperties, EmptySeq DEF Str
<1>3. AllTokens(str, NL_CHAR) = Append(s.tokens, s.token)
  BY DEF AllTokens
<1> HIDE DEF s, n
<1>4. s.tokens \in StrVec /\ s.token \in Str /\ k \in Nat
  BY <1>1, LenProperties DEF Scanning, StrVec
<1>5. Append(s.tokens, s.token) \in StrVec /\ Len(Append(s.tokens, s.token)) = k + 1
  BY <1>4, AppendProperties DEF StrVec
<1>6. 2 * k <= n
  BY <1>1 DEF Fits
<1> HIDE DEF k
<1>7. str # <<>> => k + 1 <= n
  BY <1>2, <1>4, <1>6
<1>8. FlattenSeq(Append(s.tokens, s.token)) = Held(s)
  BY <1>4, FlattenAppend DEF Str, StrVec, Held
<1> QED BY <1>3, <1>4, <1>5, <1>7, <1>8 DEF s, n

LEMMA AllOfSeq ==
  ASSUME NEW S, NEW q \in Seq(S)
  PROVE  SubSeq(q, 1, Len(q)) = q
<1>1. Len(q) \in Nat /\ q = [i \in 1..Len(q) |-> q[i]]
  BY LenProperties
<1>2. SubSeq(q, 1, Len(q)) = [i \in 1..Len(q) |-> q[i]]
  BY <1>1 DEF SubSeq
<1> QED BY <1>1, <1>2

\* Without a maximum, a line as long as short can say gives all tokens, but
\* none if it is empty.
LEMMA ParseAll ==
  ASSUME NEW str \in Str, NEW most \in Int, most <= 0
  PROVE  /\ str # <<>> /\ Len(str) <= ShortMax =>
              ParseTokens(str, NL_CHAR, most) = AllTokens(str, NL_CHAR)
         /\ str = <<>> => ParseTokens(str, NL_CHAR, most) = <<>>
<1> DEFINE all == AllTokens(str, NL_CHAR)
           n == Len(str)
           limit == ToShort(n)
<1>1. /\ all \in StrVec /\ Len(all) \in Nat \ {0} /\ (str # <<>> => Len(all) <= n)
      /\ n \in Nat
  BY AllTokensType, LenProperties DEF Str
<1>2. ParseTokens(str, NL_CHAR, most) = SubSeq(all, 1, IF limit < Len(all) THEN limit ELSE Len(all))
  <2>1. ~(most > 0)
    OBVIOUS
  <2> QED BY <2>1 DEF ParseTokens
<1>3. n <= ShortMax => limit = n
  BY <1>1, ToShortIs
<1>4. ShortMax \in Nat /\ Len(<<>>) = 0
  BY UtilitiesAssumption
<1> HIDE DEF all, limit
<1>5. ASSUME str # <<>>, n <= ShortMax PROVE SubSeq(all, 1, IF limit < Len(all) THEN limit ELSE Len(all)) = all
  <2>1. ~(limit < Len(all))
    BY <1>1, <1>3, <1>5
  <2> QED BY <1>1, <2>1, AllOfSeq DEF StrVec
<1>6. ASSUME limit = 0 PROVE SubSeq(all, 1, IF limit < Len(all) THEN limit ELSE Len(all)) = <<>>
  <2>1. limit < Len(all)
    BY <1>1, <1>6
  <2>2. SubSeq(all, 1, limit) = <<>>
    BY <1>1, <1>6, EmptySeq DEF SubSeq, StrVec
  <2> QED BY <2>1, <2>2
<1>7. str = <<>> => limit = 0
  BY <1>1, <1>3, <1>4
<1> QED BY <1>2, <1>3, <1>5, <1>6, <1>7 DEF all

-----------------------------------------------------------------------------
\* The invariant: what each stage has left.

UtilInv ==
  /\ argv \in Argvs /\ maxNumber \in MaxNumbers
  /\ stage \in {"given", "configured", "sent", "parsed"}
  /\ stage # "given" => args = Given
  /\ stage \in {"sent", "parsed"} => line = JoinStrings(Given, NL_CHAR)
  /\ stage = "parsed" => tokens = ParseTokens(line, NL_CHAR, maxNumber)

LEMMA UtilInvCorrect == UtilSpec => []UtilInv
<1>1. UtilInit => UtilInv
  BY DEF UtilInit, UtilInv
<1>2. UtilInv /\ [UtilNext]_utilVars => UtilInv'
  <2> SUFFICES ASSUME UtilInv, [UtilNext]_utilVars PROVE UtilInv'
    OBVIOUS
  <2>1. argv' = argv /\ maxNumber' = maxNumber
    BY DEF UtilNext, Configure, SendArgs, ParseArgs, utilVars
  <2>2. Given' = Given
    BY <2>1 DEF Given, Without
  <2>3. CASE Configure
    BY <2>1, <2>2, <2>3 DEF UtilInv, Configure, ToStrVec, Given
  <2>4. CASE SendArgs
    BY <2>1, <2>2, <2>4 DEF UtilInv, SendArgs
  <2>5. CASE ParseArgs
    BY <2>1, <2>2, <2>5 DEF UtilInv, ParseArgs
  <2>6. CASE UNCHANGED utilVars
    BY <2>2, <2>6 DEF UtilInv, utilVars
  <2> QED BY <2>3, <2>4, <2>5, <2>6 DEF UtilNext
<1> QED BY <1>1, <1>2, PTL DEF UtilSpec

\* The arguments that are no null pointers are strings.
LEMMA GivenType == UtilInv => Given \in StrVec /\ JoinStrings(Given, NL_CHAR) \in Str
<1> SUFFICES ASSUME UtilInv PROVE Given \in StrVec /\ JoinStrings(Given, NL_CHAR) \in Str
  OBVIOUS
<1> DEFINE S == Str \cup {NullPtr}
           T == {s \in Seq(S) : Without(s, {NullPtr}) \in StrVec}
<1>1. <<>> \in T
  BY WithoutEmpty, NoTokensType, EmptySeq
<1>2. ASSUME NEW s \in Seq(S), NEW e \in S, s \in T PROVE Append(s, e) \in T
  <2>1. Append(s, e) \in Seq(S)
    BY AppendProperties
  <2>2. Without(Append(s, e), {NullPtr}) =
          IF e \in {NullPtr} THEN Without(s, {NullPtr}) ELSE Append(Without(s, {NullPtr}), e)
    <3> HIDE DEF S
    <3> QED BY WithoutAppend
  <2>3. e \notin {NullPtr} => Append(Without(s, {NullPtr}), e) \in StrVec
    BY <1>2, AppendProperties DEF StrVec
  <2> QED BY <1>2, <2>1, <2>2, <2>3
<1> HIDE DEF T
<1>3. \A s \in Seq(S) : s \in T
  <2> HIDE DEF S
  <2> QED BY <1>1, <1>2, SequenceInduction
<1>4. argv \in Seq(S) /\ argv # <<>>
  BY UtilitiesAssumption DEF UtilInv, Str
<1>5. Tail(argv) \in Seq(S)
  <2> HIDE DEF S
  <2> QED BY <1>4
<1>6. Given \in StrVec
  BY <1>3, <1>5 DEF T, Given
<1>7. <<>> \in Str
  BY NoTokensType
<1> QED BY <1>6, <1>7, JoinAppend

\* CharactersArrive: the task that asks for all arguments gets each of their
\* characters but white space, for any arguments, also empty, white or of
\* several lines, and null pointers among them, if a short can count the line
\* they make (JoinStrings, ParseTokens).
THEOREM CharactersArriveCorrect == UtilSpec => []CharactersArrive
<1>1. UtilInv => CharactersArrive
  <2> SUFFICES ASSUME UtilInv, stage = "parsed", maxNumber <= 0, Len(line) <= ShortMax
               PROVE  Without(FlattenSeq(tokens), WhiteSpace) = Without(FlattenSeq(Given), WhiteSpace)
    BY DEF CharactersArrive
  <2>1. /\ line \in Str /\ Given \in StrVec /\ line = JoinStrings(Given, NL_CHAR)
        /\ tokens = ParseTokens(line, NL_CHAR, maxNumber) /\ maxNumber \in Int
    BY GivenType, UtilitiesAssumption DEF UtilInv
  <2>2. Visible(line) = Visible(FlattenSeq(Given))
    BY <2>1, VisibleJoin
  <2>3. CASE line # <<>>
    <3>1. tokens = AllTokens(line, NL_CHAR)
      BY <2>1, <2>3, ParseAll
    <3>2. FlattenSeq(tokens) = Held(Scanned(line, NL_CHAR))
      BY <2>1, <3>1, AllTokensType
    <3>3. Visible(FlattenSeq(tokens)) = Visible(line)
      BY <2>1, <3>2, VisibleScanned
    <3> QED BY <2>2, <3>3 DEF Visible
  <2>4. CASE line = <<>>
    <3>1. tokens = <<>>
      BY <2>1, <2>4, ParseAll
    <3> QED BY <2>2, <2>4, <3>1, FlattenEmpty DEF Visible
  <2> QED BY <2>3, <2>4
<1> QED BY <1>1, UtilInvCorrect, PTL

\* ArgumentsArrive: the task gets the arguments of the program, in order and
\* none else, for any number of arguments that can travel, and whatever number
\* of them it asks for (JoinStrings, ParseTokens).
THEOREM ArgumentsArriveCorrect == UtilSpec => []ArgumentsArrive
<1>1. UtilInv => ArgumentsArrive
  <2> SUFFICES ASSUME UtilInv, stage = "parsed", \A i \in DOMAIN Given : Plain(Given[i]), Len(line) <= ShortMax
               PROVE  tokens = IF 0 < maxNumber /\ maxNumber < Len(Given) THEN SubSeq(Given, 1, maxNumber)
                               ELSE IF Given = <<>> /\ maxNumber > 0 THEN <<(<<>>)>> ELSE Given
    BY DEF ArgumentsArrive
  <2>1. /\ line \in Str /\ Given \in StrVec /\ line = JoinStrings(Given, NL_CHAR)
        /\ tokens = ParseTokens(line, NL_CHAR, maxNumber) /\ maxNumber \in Int
    BY GivenType, UtilitiesAssumption DEF UtilInv
  <2> DEFINE all == AllTokens(line, NL_CHAR)
  <2>2. all \in StrVec /\ Len(all) \in Nat \ {0} /\ Len(Given) \in Nat
    BY <2>1, AllTokensType, LenProperties DEF StrVec
  <2>3. 0 < maxNumber => tokens = SubSeq(all, 1, IF maxNumber < Len(all) THEN maxNumber ELSE Len(all))
    BY <2>1 DEF ParseTokens
  <2>4. SubSeq(all, 1, Len(all)) = all
    BY <2>2, AllOfSeq DEF StrVec
  <2>5. CASE Given = <<>>
    <3>1. line = <<>>
      BY <2>1, <2>5, JoinEmpty
    <3>2. all = <<(<<>>)>> /\ Len(all) = 1
      <4>1. AllTokens(line, NL_CHAR) = AllTokens(<<>>, NL_CHAR)
        BY <3>1
      <4> QED BY <4>1, AllTokensEmpty
    <3> HIDE DEF all
    <3>3. CASE 0 < maxNumber
      <4>1. ~(maxNumber < Len(all)) /\ ~(maxNumber < Len(Given))
        BY <2>1, <2>5, <3>2, <3>3, EmptySeq
      <4> QED BY <2>3, <2>4, <2>5, <3>2, <3>3, <4>1
    <3>4. CASE ~(0 < maxNumber)
      <4>1. tokens = <<>>
        BY <2>1, <3>1, <3>4, ParseAll
      <4> QED BY <2>5, <3>4, <4>1
    <3> QED BY <3>3, <3>4
  <2>6. CASE Given # <<>>
    <3>1. AllPlain(Given)
      <4>1. DOMAIN Given = 1..Len(Given)
        BY <2>1, LenProperties DEF StrVec
      <4> QED BY <4>1 DEF AllPlain
    <3>2. all = Given
      BY <2>1, <2>6, <3>1, TokensOfPlain
    <3>3. CASE 0 < maxNumber
      <4> HIDE DEF all
      <4> QED BY <2>3, <2>4, <2>6, <3>2, <3>3
    <3>4. CASE ~(0 < maxNumber)
      <4>1. maxNumber <= 0
        BY <2>1, <3>4
      <4>2. line = <<>> => all = <<(<<>>)>>
        BY AllTokensEmpty
      <4>3. line # <<>>
        <5>1. 1 \in 1..Len(Given) /\ (Given = <<(<<>>)>> => Given[1] = <<>>)
          BY <2>1, <2>2, <2>6, EmptySeq DEF StrVec
        <5> QED BY <3>1, <3>2, <4>2, <5>1 DEF AllPlain, Plain
      <4>4. tokens = all
        BY <2>1, <4>1, <4>3, ParseAll
      <4> QED BY <3>2, <3>4, <4>4
    <3> QED BY <3>3, <3>4
  <2> QED BY <2>5, <2>6
<1> QED BY <1>1, UtilInvCorrect, PTL

=============================================================================
