-------------------------------- MODULE Task --------------------------------
(***************************************************************************)
(* A work process: mtbmpi::Task, its message loop and its handlers, and    *)
(* what the application's TaskAdapter may do while one of its five virtual *)
(* methods (or its constructor) runs.  The adapter is the application's:   *)
(* the constants say which states it returns and which messages it sends.  *)
(***************************************************************************)
EXTENDS Network

CONSTANTS
  Results,        \* [Callback -> states that virtual method may return]
  ReportStates,   \* states the adapter gives to SetState while it works
  CtorRequests,   \* requests the adapter's constructor sends
  CallRequests,   \* requests the adapter's virtual methods send
  SendsResults,   \* whether the adapter sends Tag_TaskResults
  LongSenders,    \* tasks whose results are too long for a send that does not wait
  MaxRequests     \* bound on the requests, reports and results of a task

\* The virtual methods of TaskAdapterBase.
Callback == {"InitializeTask", "StartTask", "StopTask", "PauseTask", "ResumeTask"}

\* Only InitializeTask announces an initialized task, and no method returns
\* to the states before it ("The methods return the current state of the
\* task", ReadMe.md).  A method that runs does not report that it is over.
ASSUME ResultsAssumption ==
  /\ Results \in [Callback -> SUBSET (State \ {"Unknown", "Created"})]
  /\ \A c \in Callback : Results[c] # {} 
  /\ \A c \in Callback \ {"InitializeTask"} : "Initialized" \notin Results[c]
  /\ ReportStates \subseteq {"Running", "Paused"}
ASSUME RequestsAssumption ==
  /\ CtorRequests \subseteq Request
  /\ CallRequests \subseteq Request
  /\ SendsResults \in BOOLEAN
  /\ LongSenders \subseteq Tasks
  /\ MaxRequests \in Nat

VARIABLES
  state,     \* Task::state of each task
  bufferID,  \* Task::bufferState[0] of each task, the ID its reports carry
  tpc,       \* where each task is: a method of the adapter that is running, or
             \* "constructing", "waiting" (in Probe), "leaving", "gone"
  asking,    \* the adapter is blocked until Tag_CmdLineArgs arrives
  budget,    \* requests, reports and results the task may still send
  readied    \* history: the tasks whose InitializeTask returned "Initialized"

taskVars == <<state, bufferID, tpc, asking, budget, readied>>

TaskTypeOK ==
  /\ state \in [Tasks -> State]
  /\ bufferID \in [Tasks -> IDNum]
  /\ tpc \in [Tasks -> Callback \cup {"constructing", "waiting", "leaving", "gone"}]
  /\ asking \in [Tasks -> BOOLEAN]
  /\ budget \in [Tasks -> 0..MaxRequests]
  /\ readied \subseteq Tasks

TaskInit ==
  /\ state = [t \in Tasks |-> "Unknown"]
  /\ bufferID = [t \in Tasks |-> t]
  /\ tpc = [t \in Tasks |-> "constructing"]
  /\ asking = [t \in Tasks |-> FALSE]
  /\ budget = [t \in Tasks |-> MaxRequests]
  /\ readied = {}

Goto(t, where) == tpc' = [tpc EXCEPT ![t] = where]

-----------------------------------------------------------------------------
\* A mistake in SetState: the state changes and nobody is told.
SetStateSilently(t, s) ==
  /\ state' = [state EXCEPT ![t] = s]
  /\ UNCHANGED <<toController, idsToController, bufferID>>

\* Task::SendStateToController, which sends both numbers of bufferState.
SendStateToController(t, s) ==
  /\ toController' = Post(toController, t, s)
  /\ idsToController' = Post(idsToController, t, bufferID[t])
  /\ UNCHANGED bufferID

\* The same, twice.
SendStatesToController(t, s1, s2) ==
  /\ toController' = Post(Post(toController, t, s1), t, s2)
  /\ idsToController' = Post(Post(idsToController, t, bufferID[t]), t, bufferID[t])
  /\ UNCHANGED bufferID

\* Task::SetState.
SetState(t, s) ==
  /\ state' = [state EXCEPT ![t] = s]
  /\ SendStateToController(t, s)

\* Task::LogState.
LogState(t) == toBlackboard' = Post(toBlackboard, t, state'[t])

\* The tail of the loop of Task::Activate: leave it or wait for a message.
LeaveOrWait(t) == Goto(t, IF Ended(state'[t]) THEN "leaving" ELSE "waiting")

-----------------------------------------------------------------------------
\* Task::Task ends: the adapter exists and the controller is told.
Construct(t) ==
  /\ tpc[t] = "constructing" /\ ~asking[t]
  /\ SetState(t, "Created")
  /\ Goto(t, "waiting")
  /\ UNCHANGED <<toTask, toBlackboard, argsReply, confirmation, asking, budget, readied>>

\* ProcessMessage and the handlers up to the call of the adapter's method c.
\* Only StartTask asks for a state; State_Error never reaches a handler.
Enter(t, tag, c) ==
  /\ tpc[t] = "waiting"
  /\ Arrived(toTask, t, tag)
  /\ toTask' = Take(toTask, t)
  /\ Goto(t, c)
  /\ UNCHANGED <<toController, idsToController, toBlackboard, argsReply, confirmation,
                 state, asking, budget, readied>>

EnterInitialize(t) == Enter(t, "InitializeTask", "InitializeTask") /\ UNCHANGED bufferID

EnterStart(t) ==
  state[t] = "Initialized" /\ Enter(t, "StartTask", "StartTask") /\ UNCHANGED bufferID

EnterStop(t) == Enter(t, "RequestStopTask", "StopTask") /\ UNCHANGED bufferID

\* A message that pauses or resumes a task is received into bufferState: its
\* first number replaces the ID, unless it has no data or is that ID.
ReceiveIntoBuffer(t) ==
  \E id \in {bufferID[t], t} \cup ForeignIDs : bufferID' = [bufferID EXCEPT ![t] = id]

\* A mistake in DoActionPause: a task is only paused before it starts.
PauseUnstarted(t) ==
  /\ state[t] = "Initialized"
  /\ Enter(t, "RequestPauseTask", "PauseTask") /\ ReceiveIntoBuffer(t)

EnterPause(t) == Enter(t, "RequestPauseTask", "PauseTask") /\ ReceiveIntoBuffer(t)

EnterResume(t) == Enter(t, "RequestResumeTask", "ResumeTask") /\ ReceiveIntoBuffer(t)

\* DoActionStart finds a state other than State_Initialized.
RefuseStart(t) ==
  /\ tpc[t] = "waiting" /\ state[t] # "Initialized"
  /\ Arrived(toTask, t, "StartTask")
  /\ toTask' = Take(toTask, t)
  /\ SetState(t, "Error")
  /\ toBlackboard' = Post(Post(toBlackboard, t, "InitializationFailed"), t, "Error")
  /\ Goto(t, "leaving")
  /\ UNCHANGED <<argsReply, confirmation, asking, budget, readied>>

\* DoActionInitialize, DoActionStart, DoActionPause and DoActionResume after
\* the adapter's method c returns the task's new state.
Return(t, c) ==
  /\ tpc[t] = c /\ ~asking[t]
  /\ \E s \in Results[c] :
       /\ SetState(t, s)
       /\ readied' = IF s = "Initialized" THEN readied \cup {t} ELSE readied
  /\ LogState(t)
  /\ LeaveOrWait(t)
  /\ UNCHANGED <<toTask, argsReply, confirmation, asking, budget>>

ReturnInitialize(t) == Return(t, "InitializeTask")
ReturnStart(t)      == Return(t, "StartTask")
ReturnPause(t)      == Return(t, "PauseTask")
ReturnResume(t)     == Return(t, "ResumeTask")

\* DoActionStop looks this many times for messages to throw away.
DiscardChecks == 10

\* Mistakes in DoActionStop: the state StopTask returned is kept, whatever it
\* is; it is reported after the forced State_Terminated; the forced state is
\* not reported.
KeepStopResult(t, s) == SetState(t, s)
ReportForcedFirst(t, s) ==
  IF s \in {"Completed", "Terminated"}
    THEN SetState(t, s)
    ELSE /\ state' = [state EXCEPT ![t] = "Terminated"]
         /\ SendStatesToController(t, "Terminated", s)
ForceSilently(t, s) ==
  /\ state' = [state EXCEPT ![t] = IF s \in {"Completed", "Terminated"} THEN s ELSE "Terminated"]
  /\ SendStateToController(t, s)

\* DoActionStop after StopTask returns s: a task that has not stopped is
\* forced to, and reports both states.
ForceStop(t, s) ==
  IF s \in {"Completed", "Terminated"}
    THEN SetState(t, s)
    ELSE /\ state' = [state EXCEPT ![t] = "Terminated"]
         /\ SendStatesToController(t, s, "Terminated")

ReturnStop(t) ==
  /\ tpc[t] = "StopTask" /\ ~asking[t]
  /\ \E s \in Results["StopTask"] : ForceStop(t, s)
  /\ LogState(t)
  /\ \E k \in 0..DiscardChecks :
       /\ k <= Len(toTask[t])
       /\ toTask' = [toTask EXCEPT ![t] = SubSeq(@, k + 1, Len(@))]
  /\ LeaveOrWait(t)
  /\ UNCHANGED <<argsReply, confirmation, asking, budget, readied>>

\* A mistake in ~Task: the object gives its initial state back.
DestroyUnknown(t) ==
  /\ tpc[t] = "leaving"
  /\ SetState(t, "Unknown")
  /\ Goto(t, "gone")
  /\ UNCHANGED <<toTask, toBlackboard, argsReply, confirmation, asking, budget, readied>>

\* Task::~Task, called by Master::MakeTask after Activate.
Destroy(t) ==
  /\ tpc[t] = "leaving"
  /\ SetState(t, "Terminated")
  /\ Goto(t, "gone")
  /\ UNCHANGED <<toTask, toBlackboard, argsReply, confirmation, asking, budget, readied>>

-----------------------------------------------------------------------------
\* What the adapter does while its constructor or a method runs.

Spend(t) == budget[t] > 0 /\ budget' = [budget EXCEPT ![t] = @ - 1]

\* The adapter sends a request; after Tag_RequestCmdLineArgs it waits.
AskController(t, q) ==
  /\ \/ tpc[t] = "constructing" /\ q \in CtorRequests
     \/ tpc[t] \in Callback /\ q \in CallRequests
  /\ ~asking[t]
  /\ Spend(t)
  /\ toController' = Post(toController, t, q)
  /\ idsToController' = Post(idsToController, t, t)
  /\ asking' = [asking EXCEPT ![t] = (q = "RequestCmdLineArgs")]
  /\ UNCHANGED <<toTask, toBlackboard, argsReply, confirmation, state, bufferID, tpc, readied>>

ReceiveArgs(t) ==
  /\ asking[t] /\ argsReply[t]
  /\ asking' = [asking EXCEPT ![t] = FALSE]
  /\ argsReply' = [argsReply EXCEPT ![t] = FALSE]
  /\ UNCHANGED <<toController, idsToController, toTask, toBlackboard, confirmation,
                 state, bufferID, tpc, budget, readied>>

\* GetParent().SetState(s) from StartTask or ResumeTask.
Report(t, s) ==
  /\ tpc[t] \in {"StartTask", "ResumeTask"} /\ ~asking[t]
  /\ Spend(t)
  /\ SetState(t, s)
  /\ UNCHANGED <<toTask, toBlackboard, argsReply, confirmation, tpc, asking, readied>>

Pending(p, m) == \E i \in 1..Len(toBlackboard[p]) : toBlackboard[p][i] = m

\* The send of long results returns when the blackboard receives them.
SendWaits(t) == t \in LongSenders /\ Pending(t, "Results")

\* The adapter sends Tag_TaskResults to the blackboard.
SendResults(t) ==
  /\ SendsResults /\ tpc[t] = "StartTask" /\ ~asking[t]
  /\ Spend(t)
  /\ toBlackboard' = Post(toBlackboard, t, "Results")
  /\ UNCHANGED <<toController, idsToController, toTask, argsReply, confirmation,
                 state, bufferID, tpc, asking, readied>>

-----------------------------------------------------------------------------
TaskAction(t) ==
  \/ Construct(t)
  \/ EnterInitialize(t) \/ ReturnInitialize(t)
  \/ EnterStart(t) \/ RefuseStart(t) \/ ReturnStart(t)
  \/ EnterStop(t) \/ ReturnStop(t)
  \/ EnterPause(t) \/ ReturnPause(t)
  \/ EnterResume(t) \/ ReturnResume(t)
  \/ Destroy(t)
  \/ \E q \in Request : AskController(t, q)
  \/ ReceiveArgs(t)
  \/ \E s \in ReportStates : Report(t, s)
  \/ SendResults(t)

=============================================================================
