----------------------------- MODULE Controller -----------------------------
(***************************************************************************)
(* Rank 0: mtbmpi::Controller, its event loop and handlers, with the       *)
(* tracker it owns and what the application's master does in the hooks the *)
(* loop calls.  One iteration of the loop is the sequence                  *)
(*   "top"  check the tracker; initialize or start all the tasks           *)
(*   "hook" ActionsWhileActive, if tasks are started and not all stopped   *)
(*   "probe" receive and handle one message, then check the tracker again  *)
(* and the loop is left when every task is stopped.                        *)
(***************************************************************************)
EXTENDS Network, Tracker

CONSTANTS
  BeforeStartSends,  \* tags ActionsBeforeTasksStart may send to the tasks
  ActiveSends,       \* tags ActionsWhileActive may send to a task
  HookStops,         \* whether ActionsWhileActive may call StopAllTasks
  MaxHookCalls       \* bound on the calls of the hook that send something

ASSUME HooksAssumption ==
  /\ BeforeStartSends \subseteq ControllerMessage \ {"InitializeTask", "StartTask"}
  /\ ActiveSends \subseteq ControllerMessage \ {"InitializeTask", "StartTask"}
  /\ HookStops \in BOOLEAN
  /\ MaxHookCalls \in Nat

VARIABLES
  tracker,         \* Tracker::taskStateArray
  cpc,             \* where the controller is
  created,         \* tasksAreCreated
  initialized,     \* tasksAreInitialized
  requestedInit,   \* requestedInitAll
  started,         \* tasksAreStarted
  stateBB,         \* what it believes the state of the blackboard to be
  hooks            \* calls of the hook that may still send something

controllerVars == <<tracker, cpc, created, initialized, requestedInit, started, stateBB, hooks>>

ControllerTypeOK ==
  /\ tracker \in [Tasks -> State]
  /\ cpc \in {"top", "hook", "probe", "confirming", "closing", "stopped"}
  /\ created \in BOOLEAN
  /\ initialized \in BOOLEAN
  /\ requestedInit \in BOOLEAN
  /\ started \in BOOLEAN
  /\ stateBB \in {"Running", "Completed"}
  /\ hooks \in 0..MaxHookCalls

\* Controller::Controller and Master::CreateProcesses, which takes the
\* blackboard to be running.  The flags are those Activate begins with.
ControllerInit ==
  /\ tracker = NewTracker(Tasks)
  /\ cpc = "top"
  /\ created = FALSE
  /\ initialized = FALSE
  /\ requestedInit = FALSE
  /\ started = FALSE
  /\ stateBB = "Running"
  /\ hooks = MaxHookCalls

-----------------------------------------------------------------------------
\* The top of the loop.

NowCreated     == created \/ AreAllCreated(tracker)
NowInitialized == initialized \/ (NowCreated /\ AreAllInitialized(tracker))

\* What all actions of the loop's top do: refresh the flags, and go to the
\* hook when tasks are started and not all stopped.
CheckTracker ==
  /\ cpc = "top"
  /\ created' = NowCreated
  /\ initialized' = NowInitialized
  /\ cpc' = IF (started \/ NowInitialized) /\ ~AreAllStopped(tracker) THEN "hook" ELSE "probe"
  /\ UNCHANGED <<toController, idsToController, toBlackboard, argsReply, confirmation,
                 tracker, stateBB, hooks>>

\* A mistake at the top of the loop: requestedInitAll is not remembered.
InitializeAgain ==
  /\ CheckTracker
  /\ NowCreated /\ ~NowInitialized
  /\ toTask' = [t \in Tasks |-> Append(toTask[t], "InitializeTask")]
  /\ UNCHANGED <<requestedInit, started>>

InitializeAllTasks ==
  /\ CheckTracker
  /\ ~requestedInit /\ NowCreated /\ ~NowInitialized
  /\ toTask' = [t \in Tasks |-> Append(toTask[t], "InitializeTask")]
  /\ requestedInit' = TRUE
  /\ UNCHANGED started

\* The hook ActionsBeforeTasksStart may send a message to every task before
\* StartAllTasks does.
StartAllTasks ==
  /\ CheckTracker
  /\ NowInitialized /\ ~started
  /\ \E first \in {<< >>} \cup {<<m>> : m \in BeforeStartSends} :
       toTask' = [t \in Tasks |-> toTask[t] \o Append(first, "StartTask")]
  /\ started' = TRUE
  /\ UNCHANGED requestedInit

NothingToRequest ==
  /\ CheckTracker
  /\ requestedInit \/ ~NowCreated \/ NowInitialized
  /\ ~NowInitialized \/ started
  /\ UNCHANGED <<toTask, requestedInit, started>>

-----------------------------------------------------------------------------
\* A mistake in StopAllTasks: only the tasks known to run are stopped.
StopRunningTasks ==
  toTask' = [t \in Tasks |-> IF tracker[t] = "Running"
                               THEN Append(toTask[t], "RequestStopTask")
                               ELSE toTask[t]]

\* StopAllTasks, called by a handler or, through the master, by the hook.
StopAllTasks ==
  toTask' = [t \in Tasks |-> IF Ended(tracker[t])
                               THEN toTask[t]
                               ELSE Append(toTask[t], "RequestStopTask")]

flags == <<created, initialized, requestedInit, started>>

\* ActionsWhileActive does nothing.
HookPasses ==
  /\ cpc = "hook" /\ cpc' = "probe"
  /\ UNCHANGED <<networkVars, tracker, flags, stateBB, hooks>>

HookCall ==
  /\ cpc = "hook" /\ cpc' = "probe"
  /\ hooks > 0 /\ hooks' = hooks - 1
  /\ UNCHANGED <<toController, idsToController, toBlackboard, argsReply, confirmation,
                 tracker, flags, stateBB>>

HookStopsTasks == HookStops /\ HookCall /\ StopAllTasks

HookSends(t, m) == HookCall /\ toTask' = Post(toTask, t, m)

-----------------------------------------------------------------------------
\* The check after a message is handled, with the blackboard in state bb and
\* the tracker as the handler leaves it: go on, or close the job.  Closing it
\* sends Tag_StopBlackboard unless the blackboard has already stopped.

\* A mistake in it: the job is closed without a look at the tracker.
CloseOnceStarted(bb) ==
  IF ~started
    THEN cpc' = "top" /\ UNCHANGED toBlackboard
    ELSE IF bb = "Completed"
      THEN cpc' = "stopped" /\ UNCHANGED toBlackboard
      ELSE cpc' = "closing" /\ toBlackboard' = Post(toBlackboard, ID_Master, "StopBlackboard")

AfterMessage(bb) ==
  IF ~AreAllStopped(tracker')
    THEN cpc' = "top" /\ UNCHANGED toBlackboard
    ELSE IF bb = "Completed"
      THEN cpc' = "stopped" /\ UNCHANGED toBlackboard
      ELSE cpc' = "closing" /\ toBlackboard' = Post(toBlackboard, ID_Master, "StopBlackboard")

\* Recv of the message that Probe reported, of task t.
Receive(t, m) ==
  /\ cpc = "probe"
  /\ Arrived(toController, t, m)
  /\ toController' = Take(toController, t)
  /\ idsToController' = Take(idsToController, t)
  /\ UNCHANGED <<confirmation, flags, stateBB, hooks>>

\* The report of t sets the slot of the number it carries, whoever sent it; a
\* negative number is ignored.
SetTaskState(t, s) ==
  LET taskID == Head(idsToController[t])
  IN  tracker' = IF taskID \in Tasks THEN TrackState(tracker, taskID, s) ELSE tracker

\* A mistake in the switch: every message is taken for a report.
TakeForReport(t) ==
  \E m \in TaskMessage :
    /\ Receive(t, m)
    /\ SetTaskState(t, m)
    /\ AfterMessage(stateBB)
    /\ UNCHANGED <<toTask, argsReply>>

DoActionState(t) ==
  \E s \in State :
    /\ Receive(t, s)
    /\ SetTaskState(t, s)
    /\ AfterMessage(stateBB)
    /\ UNCHANGED <<toTask, argsReply>>

\* A mistake in DoActionRequestCmdLineArgs: the reply is forgotten.
ReceiveArgsRequest(t) ==
  /\ Receive(t, "RequestCmdLineArgs")
  /\ UNCHANGED <<toTask, argsReply, tracker>>
  /\ AfterMessage(stateBB)

DoActionRequestCmdLineArgs(t) ==
  /\ Receive(t, "RequestCmdLineArgs")
  /\ argsReply' = [argsReply EXCEPT ![t] = TRUE]
  /\ UNCHANGED <<toTask, tracker>>
  /\ AfterMessage(stateBB)

\* The request is received and not answered.
DoActionRequestConfig(t) ==
  /\ Receive(t, "RequestConfig")
  /\ UNCHANGED <<toTask, argsReply, tracker>>
  /\ AfterMessage(stateBB)

\* DoActionRequestStop stops the tasks, then the blackboard, whose
\* confirmation it awaits before the check that follows every message.
DoActionRequestStop(t) ==
  /\ Receive(t, "RequestStop")
  /\ StopAllTasks
  /\ UNCHANGED <<tracker, argsReply>>
  /\ IF stateBB = "Completed"
       THEN AfterMessage(stateBB)
       ELSE /\ cpc' = "confirming"
            /\ toBlackboard' = Post(toBlackboard, ID_Master, "StopBlackboard")

\* StopBlackboard receives the confirmation.
ReceiveConfirmation ==
  /\ confirmation /\ confirmation' = FALSE
  /\ stateBB' = "Completed"
  /\ UNCHANGED <<toController, idsToController, toTask, argsReply, tracker, flags, hooks>>

\* A mistake in DoActionRequestStop: a stopped blackboard ends the loop.
ConfirmAndLeave == cpc = "confirming" /\ ReceiveConfirmation /\ cpc' = "stopped" /\ UNCHANGED toBlackboard

ConfirmStopRequest == cpc = "confirming" /\ ReceiveConfirmation /\ AfterMessage("Completed")

ConfirmClosing == cpc = "closing" /\ ReceiveConfirmation /\ cpc' = "stopped" /\ UNCHANGED toBlackboard

-----------------------------------------------------------------------------
ControllerAction ==
  \/ InitializeAllTasks \/ StartAllTasks \/ NothingToRequest
  \/ HookPasses \/ HookStopsTasks
  \/ \E t \in Tasks, m \in ActiveSends : HookSends(t, m)
  \/ \E t \in Tasks :
       \/ DoActionState(t)
       \/ DoActionRequestStop(t)
       \/ DoActionRequestCmdLineArgs(t)
       \/ DoActionRequestConfig(t)
  \/ ConfirmStopRequest \/ ConfirmClosing

\* Controller::WaitUntilCanStop returns.
CanStop == cpc = "stopped" /\ AreAllStopped(tracker) /\ stateBB = "Completed"

=============================================================================
