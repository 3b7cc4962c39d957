------------------------------- MODULE States -------------------------------
(***************************************************************************)
(* The states of a task and the predicates on them (State.h), and the      *)
(* tags of the messages the processes exchange (MsgTags.h).                *)
(***************************************************************************)

\* enum State.  The names are the enumerators' without the prefix State_.
State == {"Created", "Initialized", "Running", "Completed",
          "Paused", "Terminated", "Error", "Unknown"}

\* The states in which Task::Activate leaves its message loop.
Ended(s) == s \in {"Completed", "Terminated", "Error"}

\* Requests a task sends to the controller.  A Tag_State message is written
\* as the state it carries.
Request == {"RequestStop", "RequestCmdLineArgs", "RequestConfig"}

\* Messages that the controller, or the application through the master's
\* hooks, sends to a task.  Task::ProcessMessage has a case for each; only
\* those that pause and resume a task carry data (see Task).
ControlTag == {"InitializeTask", "StartTask", "RequestStopTask",
               "RequestPauseTask", "RequestResumeTask"}

\* Tags that a task is sent but that its loop leaves in the queue.
UnhandledTag == {"Configuration", "Data"}

=============================================================================
