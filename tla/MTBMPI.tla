------------------------------- MODULE MTBMPI -------------------------------
(***************************************************************************)
(* The framework: the controller, the blackboard and the tasks, one MPI    *)
(* process each, that exchange messages over one communicator, and the     *)
(* collective MPI::Finalize with which they end together (Master.cpp).     *)
(***************************************************************************)
EXTENDS Task, Controller, Blackboard

VARIABLE exited   \* MPI::Finalize has returned in every process

vars == <<networkVars, taskVars, controllerVars, bbpc, exited>>

Init ==
  /\ NetworkInit
  /\ TaskInit
  /\ ControllerInit
  /\ BlackboardInit
  /\ exited = FALSE

TaskStep(t) == ~SendWaits(t) /\ TaskAction(t) /\ UNCHANGED <<controllerVars, bbpc, exited>>

ControllerStep == ControllerAction /\ UNCHANGED <<taskVars, bbpc, exited>>

BlackboardStep == BlackboardAction /\ UNCHANGED <<taskVars, controllerVars, exited>>

\* Master::~Master in every process: WaitUntilStopped in the controller's,
\* then MPI::Finalize, which returns when all processes have called it.
Finalize ==
  /\ ~exited
  /\ \A t \in Tasks : tpc[t] = "gone"
  /\ CanStop
  /\ bbpc = "stopped"
  /\ exited' = TRUE
  /\ UNCHANGED <<networkVars, taskVars, controllerVars, bbpc>>

\* The program has ended: not a deadlock.
Terminated == exited /\ UNCHANGED vars

Next ==
  \/ \E t \in Tasks : TaskStep(t)
  \/ ControllerStep
  \/ BlackboardStep
  \/ Finalize
  \/ Terminated

\* Every process runs on, and a method of the application's adapter returns.
\* The blackboard, though, may turn for ever on results it does not receive.
Fairness ==
  /\ \A t \in Tasks : WF_vars(TaskStep(t))
  /\ WF_vars(ControllerStep)
  /\ WF_vars(~ProbesResults /\ BlackboardStep)
  /\ WF_vars(Finalize)

Spec == Init /\ [][Next]_vars

FairSpec == Spec /\ Fairness

-----------------------------------------------------------------------------
\* Every variable has a value of its type, every channel carries only
\* messages its receiver may be sent.
TypeOK ==
  /\ NetworkTypeOK
  /\ TaskTypeOK
  /\ ControllerTypeOK
  /\ BlackboardTypeOK
  /\ exited \in BOOLEAN

\* The reports of its state among the messages of t that are in flight.
Reports(t) == {i \in 1..Len(toController[t]) : toController[t][i] \in State}

\* The tracker lags behind a task but never diverges from it: when the
\* controller has received what a task sent, it holds the task's own state
\* (Task::SetState against Controller::SetTaskState).
TrackerFollowsTask ==
  \A t \in Tasks :
    /\ Reports(t) = {} => tracker[t] = state[t]
    /\ \A last \in Reports(t) :
         (\A i \in Reports(t) : i <= last) => toController[t][last] = state[t]

\* No task's StartTask is called before the InitializeTask of every task has
\* succeeded: the barrier that the aggregate flags of Controller::Activate
\* make of messages received in any order.
StartBarrier ==
  \A t \in Tasks :
    (tpc[t] = "StartTask" \/ \E i \in 1..Len(toTask[t]) : toTask[t][i] = "StartTask")
      => readied = Tasks

\* A task that receives Tag_InitializeTask has only been created, and one that
\* receives Tag_StartTask is initialized: DoActionStart's branch for a failed
\* initialization is not taken, because StartAllTasks awaits every task.
LifecycleOrder ==
  \A t \in Tasks :
    tpc[t] = "waiting" =>
      /\ Arrived(toTask, t, "InitializeTask") => state[t] = "Created"
      /\ Arrived(toTask, t, "StartTask") => state[t] = "Initialized"

\* When the controller closes the job (Controller::Activate leaves its loop)
\* every task has ended: no task is left without a controller to serve it.
ControllerOutlivesTasks ==
  cpc \in {"closing", "stopped"} => \A t \in Tasks : Ended(state[t])

\* When the controller closes the job, every task it has heard of has ended.
\* What it has not heard of, State_Unknown, AreAllStopped counts as stopped: a
\* request sent by the constructor of an adapter, before State_Created, closes
\* the job when it is the first message the controller handles.
KnownTasksEnd ==
  cpc \in {"closing", "stopped"} =>
    \A t \in Tasks : tracker[t] = "Unknown" \/ Ended(state[t])

\* The blackboard stops only when every task has ended (Controller.h:85,
\* "call this only after all tasks are stopped").
BlackboardOutlivesTasks ==
  bbpc = "stopped" => \A t \in Tasks : Ended(state[t])

\* A task recorded as ended is never recorded in a state that is no end again,
\* however late or forced its reports: so AreAllStopped, once true of tasks
\* that have all reported, stays true.
EndIsFinal == [][\A t \in Tasks : Ended(tracker[t]) => Ended(tracker'[t])]_vars

\* The blackboard does not stop while a task waits in Comm::Send for it to
\* receive its results, which it would do for ever: the controller learns of
\* the end of that task, and tells the blackboard to stop, only after the wait.
NoSenderIsLeft ==
  bbpc = "stopped" => \A t \in Tasks : ~SendWaits(t)

\* When the controller has left the loop, ~Master does not wait for it:
\* WaitUntilCanStop polls a tracker that nobody would change any more.
WaitIsOver == cpc = "stopped" => CanStop

\* Every request for the command-line arguments is answered, whatever else
\* the controller is doing.
ArgsAnswered == \A t \in Tasks : asking[t] ~> ~asking[t]

\* The job ends: all processes reach MPI::Finalize.
Termination == <>exited

\* Once a task has asked for it, the job stops: all processes reach
\* MPI::Finalize, whatever the tasks were doing.
StopLeadsToExit ==
  \A t \in Tasks : Arrived(toController, t, "RequestStop") ~> exited

\* A task that is sent Tag_RequestPauseTask pauses, unless it ends first:
\* messages that reach it while a method of its adapter runs are not lost.
PauseObeyed ==
  \A t \in Tasks :
    (\E i \in 1..Len(toTask[t]) : toTask[t][i] = "RequestPauseTask")
      ~> state[t] = "Paused" \/ Ended(state[t])

-----------------------------------------------------------------------------
\* The framework implements Job.

\* The phase of a task.  StartTask may run with any state the adapter reports.
Phase(t) ==
  CASE Ended(state[t])        -> "ended"
    [] state[t] = "Unknown"   -> "new"
    [] ~Ended(state[t]) /\ (tpc[t] = "StartTask" \/ state[t] \in {"Running", "Paused"}) -> "begun"
    [] state[t] = "Created"   -> "created"
    [] state[t] = "Initialized" /\ tpc[t] # "StartTask" -> "ready"

J == INSTANCE Job WITH
       Workers <- Tasks,
       phase   <- [t \in Tasks |-> Phase(t)],
       ready   <- readied,
       closed  <- cpc \in {"closing", "stopped"}

\* Seen as phases of the tasks, the framework runs a job behind its barriers
\* and closes it only when every task has ended, also when it is told to stop.
JobSafety == J!Spec

\* The framework runs a job as Job promises, and closes it.
ImplementsJob == J!FairSpec

-----------------------------------------------------------------------------
\* Claims of comments and documents that the code does not keep.

\* "Blackboard will forward the message to its OutputMgr" (ReadMe.md:325): no
\* results of a task are left behind when the program ends.
ResultsAreForwarded == exited => \A t \in Tasks : ~Pending(t, "Results")

\* "handle failed initialization" (Task.cpp:203): when the initialization of a
\* task fails, the tasks that wait to be started do not wait forever.
FailedInitIsHandled ==
  \A t, u \in Tasks :
    (tracker[t] = "Error" /\ state[u] = "Initialized") ~> state[u] # "Initialized"

\* "unknown message - mark as received but discard" (Task.cpp:372): a waiting
\* task does not keep a message that it has no case for.
UnknownIsDiscarded ==
  \A t \in Tasks, m \in UnhandledTag :
    (tpc[t] = "waiting" /\ Arrived(toTask, t, m)) ~> ~Arrived(toTask, t, m)

=============================================================================
