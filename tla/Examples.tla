------------------------------- MODULE Examples -------------------------------
(***************************************************************************)
(* The repository's two example programs, as values of the constants that  *)
(* describe an application.                                                *)
(***************************************************************************)
EXTENDS Naturals

\* class WorkTask of SimpleExample: the states its five methods return.
SimpleWorkTask ==
  [InitializeTask |-> {"Initialized"},
   StartTask      |-> {"Completed"},
   StopTask       |-> {"Terminated"},
   PauseTask      |-> {"Paused"},
   ResumeTask     |-> {"Running"}]

\* class WorkTask of OutputMgrExample returns the same, and sends one message
\* of results from StartTask, which its class OutputMgr receives.
OutputWorkTask == SimpleWorkTask
OutputWorkTaskResults == 1

\* Both demand three processes.
ExampleMinNumProc == 3

\* class CallBacks of SimpleExample only prints: no task waits for another.
CallBacksGroup == {}

=============================================================================
