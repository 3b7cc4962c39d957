------------------------------ MODULE MCMTBMPI ------------------------------
(***************************************************************************)
(* Values of the constants of MTBMPI for TLC, and symmetry.                *)
(***************************************************************************)
EXTENDS MTBMPI, Examples, TLC

\* Applications, as the states the five methods of their adapter return.

\* The repository's examples, with an error as another outcome.
WorkTask == [OutputWorkTask EXCEPT !["StartTask"] = @ \cup {"Error"}]

\* Initialization may fail, a started task may run on until it is stopped,
\* and it may refuse to stop.
LongTask ==
  [WorkTask EXCEPT !["InitializeTask"] = {"Initialized", "Error"},
                   !["StartTask"] = {"Completed", "Running"},
                   !["StopTask"] = {"Terminated", "Running"}]

\* A task that runs on, can be paused meanwhile, and completes when it is
\* resumed.
PausableTask ==
  [WorkTask EXCEPT !["StartTask"] = {"Running"},
                   !["ResumeTask"] = {"Completed"}]

TaskSymmetry == Permutations(Tasks)

=============================================================================
