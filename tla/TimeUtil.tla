------------------------------ MODULE TimeUtil ------------------------------
(***************************************************************************)
(* Times of day and dates: the arithmetic of TimeValues (timetypes.h), the *)
(* strings they are read from and written to, and the stamp that begins an *)
(* entry of the log (timeutil.cpp).  A string is the sequence of the       *)
(* numbers in it and the character between them.                           *)
(***************************************************************************)
EXTENDS Integers, Sequences

CONSTANTS
  TimeArgs,     \* times a caller computes with
  MaxSteps,     \* bound on the computations
  Midnight,     \* the moment at which the year ends
  MaxMoment     \* bound on the clock

\* How many values unsigned short has, the type of the parts of a time.
UShort == 65536

\* Sums of minutes and of seconds do not overflow.
ASSUME TimeAssumption ==
  /\ TimeArgs \subseteq [hour : Nat, minute : Nat, second : Nat]
  /\ \A t \in TimeArgs : t.hour < UShort /\ t.minute < 32768 /\ t.second < 32768
  /\ MaxSteps \in Nat
  /\ Midnight \in Nat \ {0} /\ MaxMoment \in Nat
  /\ Midnight <= MaxMoment /\ MaxMoment <= 86400

VARIABLES
  time,       \* an object of class TimeValues
  seconds,    \* history: the time it stands for, in seconds
  steps,      \* computations done
  moment,     \* the clock
  dateStr,    \* in MakeDateTimeStamp: the results of DateStr and TimeStr, or
  timeStr,    \* NoString while they have not been called
  begun,      \* history: when the call of MakeDateTimeStamp began
  ended,      \* history: when it returned
  stamp       \* the last stamp, or NoStamp

valueVars == <<time, seconds, steps>>
stampVars == <<moment, dateStr, timeStr, begun, ended, stamp>>
timeVars == <<valueVars, stampVars>>

-----------------------------------------------------------------------------
\* TimeValues::Clear and operator=(unsigned int).
Zero == [hour |-> 0, minute |-> 0, second |-> 0]

FromSeconds(n) ==
  [hour |-> (n \div 3600) % UShort, minute |-> (n % 3600) \div 60, second |-> n % 60]

ToSeconds(t) == t.second + t.minute * 60 + t.hour * 3600

\* A mistake in operator+: the minutes are carried before the seconds.
PlusMinutesFirst(t, rhs) ==
  LET m == t.minute + rhs.minute
      s == t.second + rhs.second
  IN  [hour |-> (t.hour + rhs.hour + (m \div 60)) % UShort,
       minute |-> (m % 60) + (s \div 60),
       second |-> s % 60]

\* operator+, which changes its left side: the seconds are carried to the
\* minutes, the minutes to the hours, and days are not counted.
Plus(t, rhs) ==
  LET s == (t.second + rhs.second) % UShort
      m == (t.minute + rhs.minute + (s \div 60)) % UShort
  IN  [hour |-> (t.hour + rhs.hour + (m \div 60)) % UShort, minute |-> m % 60, second |-> s % 60]

Distance(m, n) == IF m > n THEN m - n ELSE n - m

\* operator-, which changes its left side too: the time between the two.
Minus(t, rhs) == FromSeconds(Distance(ToSeconds(t), ToSeconds(rhs)))

\* A mistake in operator<: no part may be later.
LessInAll(t, rhs) == t.hour < rhs.hour /\ t.minute < rhs.minute /\ t.second < rhs.second

\* operator< of TimeValues.
Less(t, rhs) == t.hour < rhs.hour \/ t.minute < rhs.minute \/ t.second < rhs.second

-----------------------------------------------------------------------------
\* ParseTokens, of a string that separates its numbers with its own separator:
\* with another one the string is one token, which atoi reads to its first
\* number.
Numbers(str, separator) ==
  IF str.separator = separator THEN str.numbers ELSE <<str.numbers[1]>>

ToTimeValues(str, separator) ==
  LET n == Numbers(str, separator)
  IN  [hour   |-> n[1] % UShort,
       minute |-> IF Len(n) > 1 THEN n[2] % UShort ELSE 0,
       second |-> IF Len(n) > 2 THEN n[3] % UShort ELSE 0]

Clamp(month) == IF month < 1 THEN 1 ELSE IF month > 12 THEN 12 ELSE month

\* A mistake in ToDateValues: the order of "mm/dd/yy", the form its comment
\* gives (timeutil.cpp:48).
MonthFirst(str, separator) ==
  LET n == Numbers(str, separator)
  IN  [year |-> n[3], month |-> Clamp(n[1]), day |-> n[2]]

\* The year first, and the month is clamped.
ToDateValues(str, separator) ==
  LET n == Numbers(str, separator)
  IN  [year  |-> n[1],
       month |-> IF Len(n) > 1 THEN Clamp(n[2]) ELSE 1,
       day   |-> IF Len(n) > 2 THEN n[3] % UShort ELSE 1]

\* PrependZeroIf, applied to the digits of n: with more of them than it is told
\* it inserts a negative number of zeros, and std::string throws.
TwoDigits(n)  == n < 100
FourDigits(n) == n < 10000

ToTimeStr(t, separator) ==
  [separator |-> separator, numbers |-> <<t.hour, t.minute, t.second>>,
   thrown |-> ~(TwoDigits(t.hour) /\ TwoDigits(t.minute) /\ TwoDigits(t.second))]

ToDateStr(d, separator) ==
  [separator |-> separator, numbers |-> <<d.year, d.month, d.day>>,
   thrown |-> ~(FourDigits(d.year) /\ TwoDigits(d.month) /\ TwoDigits(d.day))]

MakeDateTimeStamp(date, timeOfDay) ==
  [date |-> ToDateStr(ToDateValues(date, "/"), "-"),
   time |-> ToTimeStr(ToTimeValues(timeOfDay, ":"), "-")]

\* std::localtime, around the end of a year.
LocalDate(m) == IF m < Midnight THEN <<2019, 12, 31>> ELSE <<2020, 1, 1>>

LocalTime(m) ==
  LET t == FromSeconds((86400 - Midnight + m) % 86400) IN <<t.hour, t.minute, t.second>>

DateStr == [separator |-> "/", numbers |-> LocalDate(moment)]

TimeStr == [separator |-> ":", numbers |-> LocalTime(moment)]

NoString == [separator |-> "none"]
NoStamp == [date |-> NoString, time |-> NoString]

-----------------------------------------------------------------------------
TimeInit ==
  /\ time = Zero /\ seconds = 0 /\ steps = 0
  /\ moment = 0 /\ begun = 0 /\ ended = 0
  /\ dateStr = NoString /\ timeStr = NoString /\ stamp = NoStamp

\* A computation of a caller, which makes the object stand for n seconds, or
\* for what is left of them when its hours overflow.
Compute(t, n) ==
  /\ steps < MaxSteps
  /\ time' = t /\ seconds' = n % (UShort * 3600) /\ steps' = steps + 1
  /\ UNCHANGED stampVars

Add(rhs)      == Compute(Plus(time, rhs), seconds + ToSeconds(rhs))
Subtract(rhs) == Compute(Minus(time, rhs), Distance(seconds, ToSeconds(rhs)))
Assign(n)     == Compute(FromSeconds(n), n)
Clear         == Compute(Zero, 0)

\* The clock advances.
Advance ==
  /\ moment < MaxMoment
  /\ moment' = moment + 1
  /\ UNCHANGED <<valueVars, dateStr, timeStr, begun, ended, stamp>>

Calling == dateStr # NoString \/ timeStr # NoString

BeginIf == begun' = IF Calling THEN begun ELSE moment

\* The arguments of MakeDateTimeStamp in timeutil.h are evaluated in an order
\* that C++ leaves open; each reads the clock for itself.
ReadDate ==
  /\ dateStr = NoString
  /\ dateStr' = DateStr
  /\ BeginIf
  /\ UNCHANGED <<valueVars, moment, timeStr, ended, stamp>>

ReadTime ==
  /\ timeStr = NoString
  /\ timeStr' = TimeStr
  /\ BeginIf
  /\ UNCHANGED <<valueVars, moment, dateStr, ended, stamp>>

MakeStamp ==
  /\ dateStr # NoString /\ timeStr # NoString
  /\ stamp' = MakeDateTimeStamp(dateStr, timeStr)
  /\ ended' = moment
  /\ dateStr' = NoString /\ timeStr' = NoString
  /\ UNCHANGED <<valueVars, moment, begun>>

TimeNext ==
  \/ \E rhs \in TimeArgs : Add(rhs) \/ Subtract(rhs) \/ Assign(ToSeconds(rhs))
  \/ Clear
  \/ Advance \/ ReadDate \/ ReadTime \/ MakeStamp

TimeSpec == TimeInit /\ [][TimeNext]_timeVars

-----------------------------------------------------------------------------
Normal(t) == t.minute < 60 /\ t.second < 60

\* However times are added, subtracted and assigned, also with hours that
\* overflow and operands that are not normal, the object is normal and stands
\* for the right number of seconds (operator+, operator- and operator=).
TimeIsSeconds == Normal(time) /\ ToSeconds(time) = seconds

\* A time that is earlier is less: a comparison misses none.  (The converse
\* does not hold: 02:00:00 is less than 01:30:00 too, timetypes.h:125.)
EarlierIsLess ==
  \A t \in {u \in TimeArgs : Normal(u)} :
    /\ ToSeconds(time) < ToSeconds(t) => Less(time, t)
    /\ ToSeconds(t) < ToSeconds(time) => Less(t, time)

\* A stamp is of one moment of the call that made it, unless the day changes
\* during the call, when the date or the time may be almost a day off because
\* each reads the clock for itself; and it is made without an exception
\* (MakeDateTimeStamp).
StampIsOfCall ==
  (stamp # NoStamp /\ ~Calling) =>
    /\ ~stamp.date.thrown /\ ~stamp.time.thrown
    /\ \/ \E m \in begun..ended :
            stamp.date.numbers = LocalDate(m) /\ stamp.time.numbers = LocalTime(m)
       \/ begun < Midnight /\ Midnight <= ended

=============================================================================
