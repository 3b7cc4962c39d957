------------------------------- MODULE Library -------------------------------
(***************************************************************************)
(* The classes around the protocol: the run log, the stopwatch, times and  *)
(* stamps, the strings of the command line, communicators of some of the   *)
(* ranks, and transfers of vectors of strings.  They share no state, so    *)
(* that a behaviour is one of a single part, which the first state chooses.*)
(***************************************************************************)
EXTENDS RunLog, Timer, TimeUtil, Utilities, Communicator, CommStrings

VARIABLE part

LibraryVars == <<runLogVars, timerVars, timeVars, utilVars, commVars, stringsVars, part>>

\* The parts that stand still have one initial state.
LibraryInit ==
  /\ part \in {"log", "timer", "time", "arguments", "communicator", "vectors"}
  /\ RunLogInit /\ TimerInit /\ TimeInit /\ UtilInit /\ CommunicatorInit /\ StringsInit
  /\ part # "timer" => clock = 0
  /\ part # "arguments" => maxNumber = 0 /\ Len(argv) = 1
  /\ part # "vectors" => strVec = << >>

LibraryNext ==
  /\ UNCHANGED part
  /\ \/ /\ part = "log" /\ RunLogNext
        /\ UNCHANGED <<timerVars, timeVars, utilVars, commVars, stringsVars>>
     \/ /\ part = "timer" /\ TimerNext
        /\ UNCHANGED <<runLogVars, timeVars, utilVars, commVars, stringsVars>>
     \/ /\ part = "time" /\ TimeNext
        /\ UNCHANGED <<runLogVars, timerVars, utilVars, commVars, stringsVars>>
     \/ /\ part = "arguments" /\ UtilNext
        /\ UNCHANGED <<runLogVars, timerVars, timeVars, commVars, stringsVars>>
     \/ /\ part = "communicator" /\ CommunicatorNext
        /\ UNCHANGED <<runLogVars, timerVars, timeVars, utilVars, stringsVars>>
     \/ /\ part = "vectors" /\ StringsNext
        /\ UNCHANGED <<runLogVars, timerVars, timeVars, utilVars, commVars>>

LibrarySpec == LibraryInit /\ [][LibraryNext]_LibraryVars

=============================================================================
