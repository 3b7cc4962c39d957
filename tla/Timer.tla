-------------------------------- MODULE Timer --------------------------------
(***************************************************************************)
(* mtbmpi::TimerMPI, the stopwatch the controller times the tasks with.    *)
(* The clock of MPI counts in whole units, of which Tick make a tic; the   *)
(* floating-point seconds of the code are exact here.                      *)
(***************************************************************************)
EXTENDS Integers

CONSTANTS
  Tick,       \* MPI::Wtick(), in units of the clock
  MaxClock,   \* bound on the clock
  MaxUpdates  \* bound on the updates between two resets

ASSUME TimerAssumption == Tick \in Nat \ {0} /\ MaxClock \in Nat /\ MaxUpdates \in Nat

VARIABLES
  clock,           \* MPI::Wtime()
  running, total, intervalStart, interval, tics,   \* the members of TimerMPI
  ran,             \* history: the time for which the timer has run since a reset
  updates          \* history: the updates since a reset

timerVars == <<clock, running, total, intervalStart, interval, tics, ran, updates>>

\* TimerMPI(false); with true, start() follows.
TimerInit ==
  /\ clock \in 0..MaxClock
  /\ running = FALSE
  /\ total = 0 /\ intervalStart = 0 /\ interval = 0 /\ tics = 0
  /\ ran = 0 /\ updates = 0

\* Time passes.
Elapse ==
  /\ clock < MaxClock
  /\ clock' = clock + 1
  /\ ran' = IF running THEN ran + 1 ELSE ran
  /\ UNCHANGED <<running, total, intervalStart, interval, tics, updates>>

Reset ==
  /\ running' = FALSE
  /\ total' = 0 /\ intervalStart' = 0 /\ interval' = 0 /\ tics' = 0
  /\ ran' = 0 /\ updates' = 0
  /\ UNCHANGED clock

\* A mistake in start(): a timer that runs begins its interval again.
StartAgain ==
  /\ intervalStart' = clock
  /\ running' = TRUE
  /\ UNCHANGED <<clock, total, interval, tics, ran, updates>>

\* start() has no effect on a timer that runs.
Start ==
  /\ ~running
  /\ updates < MaxUpdates
  /\ intervalStart' = clock
  /\ running' = TRUE
  /\ UNCHANGED <<clock, total, interval, tics, ran, updates>>

\* A mistake in update(): the tics of all the time are added to those counted.
UpdateTotalTics ==
  /\ interval' = clock - intervalStart
  /\ total' = total + interval'
  /\ tics' = tics + total' \div Tick
  /\ intervalStart' = clock
  /\ updates' = updates + 1

\* update() of a timer that runs.  The sum of the tics, an integer, and the
\* quotient is cut to an integer.
Update ==
  /\ interval' = clock - intervalStart
  /\ total' = total + interval'
  /\ tics' = tics + interval' \div Tick
  /\ intervalStart' = clock
  /\ updates' = updates + 1

\* stop(), which has no effect on a timer that does not run.
Stop == running /\ Update /\ running' = FALSE /\ UNCHANGED <<clock, ran>>

\* read(), read_tics() and read_interval() of a timer that runs; of one that
\* does not, they return the values of the last update.
Read ==
  /\ running
  /\ updates < MaxUpdates
  /\ Update
  /\ UNCHANGED <<clock, running, ran>>

TimerNext == Elapse \/ Reset \/ Start \/ Stop \/ Read

TimerSpec == TimerInit /\ [][TimerNext]_timerVars

-----------------------------------------------------------------------------
TimerTypeOK ==
  /\ clock \in 0..MaxClock
  /\ running \in BOOLEAN
  /\ total \in Nat /\ intervalStart \in 0..MaxClock /\ interval \in Nat /\ tics \in Nat
  /\ ran \in Nat /\ updates \in Nat

\* What read() returns is the time for which the timer has run since the last
\* reset: no interval is lost or counted twice, however often it is read,
\* started or stopped (start, stop and update in TimerMPI.h).
TotalIsTimeRunning == ran = total + (IF running THEN clock - intervalStart ELSE 0)

\* The tics lag behind the seconds by less than one tic per update, and never
\* run ahead of them: a timer that is read more often than it ticks may count
\* none at all (update).
TicsLagBehind ==
  /\ tics * Tick <= total
  /\ total - tics * Tick <= updates * (Tick - 1)

=============================================================================
