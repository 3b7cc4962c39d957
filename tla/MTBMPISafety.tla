---------------------------- MODULE MTBMPISafety ----------------------------
(***************************************************************************)
(* The safety theorems of MTBMPI.  Each follows from what may stand in the *)
(* tracker's slot of a task and, behind it, in the channel from the task   *)
(* to the controller: a step of the task appends to that channel, a step   *)
(* of the controller moves its first message into the slot.                *)
(***************************************************************************)
EXTENDS MTBMPIProofs

-----------------------------------------------------------------------------
\* The invariants.  tr is a slot of the tracker, ch the channel behind it and
\* st the state of the task.

\* The end of a task is the last thing reported of it.
EndIsLast(tr, ch, st) ==
  /\ Ended(tr) => Ended(st)
  /\ \A i \in 1..Len(ch) : Ended(ch[i]) => Ended(st)
  /\ Ended(tr) => \A i \in 1..Len(ch) : ch[i] \in State => Ended(ch[i])
  /\ \A i, j \in 1..Len(ch) : i < j /\ Ended(ch[i]) /\ ch[j] \in State => Ended(ch[j])

\* The last report is of the state the task is in.
LastIsState(tr, ch, st) ==
  /\ (\A i \in 1..Len(ch) : ch[i] \notin State) => tr = st
  /\ \A i \in 1..Len(ch) :
       ch[i] \in State /\ (\A j \in 1..Len(ch) : ch[j] \in State => j <= i) => ch[i] = st

Has(q, m) == \E i \in 1..Len(q) : q[i] = m

EndedLeave == \A t \in Tasks : Ended(state[t]) => tpc[t] \in {"leaving", "gone"}

EndInv == EndedLeave /\ \A t \in Tasks : EndIsLast(tracker[t], toController[t], state[t])

FollowInv == \A t \in Tasks : LastIsState(tracker[t], toController[t], state[t])

\* The numbers a task sends are its own, unless one that is not replaces its ID
\* with a message that pauses or resumes it.  There is none of these before the
\* controller knows that all tasks are initialized.
AllAre(q, x) == \A i \in 1..Len(q) : q[i] = x

OwnID(t) == bufferID[t] = t /\ AllAre(idsToController[t], t)

PauseTag == {"RequestPauseTask", "RequestResumeTask"}

IDsAreOwn == ForeignIDs = {} \/ ~initialized

IDInv ==
  /\ cpc = "hook" \/ started => initialized
  /\ ~initialized => \A t \in Tasks, m \in PauseTag : ~Has(toTask[t], m)
  /\ IDsAreOwn => \A t \in Tasks : OwnID(t)

\* The controller knows that all tasks are initialized only when they are, and
\* Tag_StartTask exists only when it knows.
BarrierInv ==
  /\ ~initialized => \A t \in Tasks :
       tracker[t] = "Initialized" \/ Has(toController[t], "Initialized") => t \in readied
  /\ initialized => readied = Tasks
  /\ \A t \in Tasks :
       tpc[t] = "StartTask" \/ Has(toTask[t], "StartTask") => initialized

\* Once all tasks are known to be created none is unknown.  Before that, if no
\* adapter's constructor sends a request, nothing but State_Created is sent.
CreatedInv ==
  /\ \A t \in Tasks : ~Has(toController[t], "Unknown")
  /\ created => \A t \in Tasks : tracker[t] # "Unknown"
  /\ ~created =>
       /\ ~initialized /\ ~started
       /\ cpc \in {"top", "probe"}
       /\ \A t \in Tasks :
            /\ toTask[t] = << >>
            /\ tpc[t] \in {"constructing", "waiting"}
            /\ tracker[t] \in {"Unknown", "Created"}
            /\ \A i \in 1..Len(toController[t]) : toController[t][i] = "Created"

ClosedInv == cpc \in {"closing", "stopped"} => AreAllStopped(tracker)

-----------------------------------------------------------------------------
\* What an append and a receive do to them.

LEMMA EndIsLastAppend ==
  ASSUME NEW tr, NEW st \in State, NEW ch \in Seq(TaskMessage), EndIsLast(tr, ch, st)
  PROVE  /\ \A s \in State : (Ended(st) => Ended(s)) => EndIsLast(tr, Append(ch, s), s)
         /\ \A q \in Request : EndIsLast(tr, Append(ch, q), st)
<1>1. ASSUME NEW m \in TaskMessage
      PROVE  /\ Len(Append(ch, m)) = Len(ch) + 1 /\ Len(ch) \in Nat
             /\ Append(ch, m)[Len(ch) + 1] = m
             /\ \A i \in 1..Len(ch) : Append(ch, m)[i] = ch[i]
  OBVIOUS
<1>2. ASSUME NEW s \in State, Ended(st) => Ended(s)
      PROVE  EndIsLast(tr, Append(ch, s), s)
  <2>1. s \in TaskMessage  BY DEF TaskMessage
  <2> QED BY <1>1, <1>2, <2>1 DEF EndIsLast
<1>3. ASSUME NEW q \in Request
      PROVE  EndIsLast(tr, Append(ch, q), st)
  <2>1. q \in TaskMessage /\ q \notin State /\ ~Ended(q)
    BY DEF TaskMessage, Request, State, Ended
  <2> QED BY <1>1, <2>1 DEF EndIsLast
<1> QED BY <1>2, <1>3

LEMMA EndIsLastTail ==
  ASSUME NEW tr, NEW st \in State, NEW ch \in Seq(TaskMessage), EndIsLast(tr, ch, st), ch # << >>
  PROVE  /\ EndIsLast(tr, Tail(ch), st)
         /\ Head(ch) \in State => EndIsLast(Head(ch), Tail(ch), st)
<1>1. /\ Len(ch) \in Nat /\ Len(ch) > 0 /\ Len(Tail(ch)) = Len(ch) - 1
      /\ Head(ch) = ch[1]
      /\ \A i \in 1..Len(Tail(ch)) : i + 1 \in 1..Len(ch) /\ Tail(ch)[i] = ch[i + 1]
  OBVIOUS
<1> QED BY <1>1 DEF EndIsLast

LEMMA LastIsStateAppend ==
  ASSUME NEW tr, NEW st \in State, NEW ch \in Seq(TaskMessage), LastIsState(tr, ch, st)
  PROVE  /\ \A s \in State : LastIsState(tr, Append(ch, s), s)
         /\ \A q \in Request : LastIsState(tr, Append(ch, q), st)
<1>1. ASSUME NEW m \in TaskMessage
      PROVE  /\ Len(Append(ch, m)) = Len(ch) + 1 /\ Len(ch) \in Nat
             /\ Append(ch, m)[Len(ch) + 1] = m
             /\ \A i \in 1..Len(ch) : Append(ch, m)[i] = ch[i]
  OBVIOUS
<1>2. ASSUME NEW s \in State
      PROVE  LastIsState(tr, Append(ch, s), s)
  <2>1. s \in TaskMessage  BY DEF TaskMessage
  <2> QED BY <1>1, <2>1 DEF LastIsState
<1>3. ASSUME NEW q \in Request
      PROVE  LastIsState(tr, Append(ch, q), st)
  <2>1. q \in TaskMessage /\ q \notin State
    BY DEF TaskMessage, Request, State
  <2> QED BY <1>1, <2>1 DEF LastIsState
<1> QED BY <1>2, <1>3

LEMMA LastIsStateTail ==
  ASSUME NEW tr, NEW st \in State, NEW ch \in Seq(TaskMessage), LastIsState(tr, ch, st), ch # << >>
  PROVE  IF Head(ch) \in State THEN LastIsState(Head(ch), Tail(ch), st)
                               ELSE LastIsState(tr, Tail(ch), st)
<1>1. /\ Len(ch) \in Nat /\ Len(ch) > 0 /\ Len(Tail(ch)) = Len(ch) - 1
      /\ Head(ch) = ch[1]
      /\ \A i \in 1..Len(Tail(ch)) : i + 1 \in 1..Len(ch) /\ Tail(ch)[i] = ch[i + 1]
      /\ \A i \in 2..Len(ch) : i - 1 \in 1..Len(Tail(ch)) /\ Tail(ch)[i - 1] = ch[i]
  OBVIOUS
<1>2. ASSUME NEW i \in 1..Len(Tail(ch)), Tail(ch)[i] \in State,
             \A j \in 1..Len(Tail(ch)) : Tail(ch)[j] \in State => j <= i
      PROVE  Tail(ch)[i] = st
  <2>1. \A j \in 1..Len(ch) : ch[j] \in State => j <= i + 1
    BY <1>1, <1>2
  <2> QED BY <1>1, <1>2, <2>1 DEF LastIsState
<1>3. ASSUME \A i \in 1..Len(Tail(ch)) : Tail(ch)[i] \notin State
      PROVE  (Head(ch) \in State => Head(ch) = st) /\ (Head(ch) \notin State => tr = st)
  <2>1. \A i \in 2..Len(ch) : ch[i] \notin State
    BY <1>1, <1>3
  <2> QED BY <1>1, <2>1 DEF LastIsState
<1> QED BY <1>2, <1>3 DEF LastIsState

LEMMA HasAppend ==
  ASSUME NEW M, NEW q \in Seq(M), NEW s \in M, NEW m
  PROVE  Has(Append(q, s), m) => s = m \/ Has(q, m)
<1>1. /\ Len(Append(q, s)) = Len(q) + 1 /\ Len(q) \in Nat
      /\ Append(q, s)[Len(q) + 1] = s
      /\ \A i \in 1..Len(q) : Append(q, s)[i] = q[i]
  OBVIOUS
<1> QED BY <1>1 DEF Has

LEMMA HasTail ==
  ASSUME NEW M, NEW q \in Seq(M), q # << >>, NEW m
  PROVE  /\ Has(Tail(q), m) => Has(q, m)
         /\ Has(q, Head(q))
<1>1. /\ Len(q) \in Nat /\ Len(q) > 0 /\ Len(Tail(q)) = Len(q) - 1
      /\ Head(q) = q[1]
      /\ \A i \in 1..Len(Tail(q)) : i + 1 \in 1..Len(q) /\ Tail(q)[i] = q[i + 1]
  OBVIOUS
<1> QED BY <1>1 DEF Has

LEMMA HasSubSeq ==
  ASSUME NEW M, NEW q \in Seq(M), NEW k \in 0..Len(q), NEW m, Has(SubSeq(q, k + 1, Len(q)), m)
  PROVE  Has(q, m)
<1> DEFINE r == SubSeq(q, k + 1, Len(q))
<1>1. /\ Len(q) \in Nat /\ k \in Nat /\ Len(r) = Len(q) - k
      /\ \A i \in 1..Len(r) : i + k \in 1..Len(q) /\ r[i] = q[i + k]
  OBVIOUS
<1> QED BY <1>1 DEF Has

-----------------------------------------------------------------------------
\* What a step of a task does to the channel to the controller: nothing; a
\* request; a report of the state it enters; or the two reports of a task that
\* is forced to stop.

Reporting(t) ==
  \/ toController'[t] = toController[t] /\ state'[t] = state[t]
  \/ \E q \in Request :
       toController'[t] = Append(toController[t], q) /\ state'[t] = state[t]
  \/ \E s \in State \ {"Unknown"} :
       /\ toController'[t] = Append(toController[t], s)
       /\ state'[t] = s
       /\ Ended(state[t]) => Ended(s)
       /\ s = "Initialized" => t \in readied'
  \/ \E s \in State \ {"Unknown", "Initialized"} :
       /\ toController'[t] = Append(Append(toController[t], s), "Terminated")
       /\ state'[t] = "Terminated"
       /\ ~Ended(state[t])

LEMMA SetStateReports ==
  ASSUME TypeOK, NEW t \in Tasks, NEW s \in State \ {"Unknown"}, SetState(t, s),
         Ended(state[t]) => Ended(s), s = "Initialized" => t \in readied'
  PROVE  Reporting(t) /\ state'[t] = s
<1>1. toController'[t] = Append(toController[t], s) /\ state'[t] = s
  BY DEF SetState, SendStateToController, Post, TypeOK, NetworkTypeOK, TaskTypeOK
<1> QED BY <1>1 DEF Reporting

LEMMA TaskReports ==
  ASSUME TypeOK, EndedLeave, NEW t \in Tasks, TaskStep(t)
  PROVE  /\ Reporting(t)
         /\ Ended(state'[t]) => tpc'[t] \in {"leaving", "gone"}
<1> USE DEF TypeOK, NetworkTypeOK, TaskTypeOK
<1>1. tpc[t] \notin {"leaving", "gone"} => ~Ended(state[t])
  BY DEF EndedLeave
<1>2. CASE Construct(t)
  BY <1>1, <1>2, SetStateReports DEF Construct, Goto, State, Ended
<1>3. ASSUME NEW tag, NEW c \in Callback, Enter(t, tag, c)
      PROVE  Reporting(t) /\ ~Ended(state'[t])
  BY <1>1, <1>3 DEF Enter, Reporting
<1>4. CASE EnterInitialize(t) \/ EnterStart(t) \/ EnterStop(t) \/ EnterPause(t) \/ EnterResume(t)
  BY <1>3, <1>4 DEF EnterInitialize, EnterStart, EnterStop, EnterPause, EnterResume, Callback
<1>5. CASE RefuseStart(t)
  BY <1>1, <1>5, SetStateReports DEF RefuseStart, Goto, State, Ended
<1>6. ASSUME NEW c \in Callback, Return(t, c)
      PROVE  Reporting(t) /\ (Ended(state'[t]) => tpc'[t] \in {"leaving", "gone"})
  <2>1. PICK s \in Results[c] :
          /\ SetState(t, s)
          /\ readied' = IF s = "Initialized" THEN readied \cup {t} ELSE readied
    BY <1>6 DEF Return
  <2>2. s \in State \ {"Unknown"}
    BY <2>1, ResultsAssumption
  <2>3. ~Ended(state[t])
    BY <1>1, <1>6 DEF Return, Callback
  <2>4. Reporting(t)
    BY <2>1, <2>2, <2>3, SetStateReports
  <2> QED BY <1>6, <2>4 DEF Return, LeaveOrWait, Goto
<1>7. CASE ReturnInitialize(t) \/ ReturnStart(t) \/ ReturnPause(t) \/ ReturnResume(t)
  BY <1>6, <1>7 DEF ReturnInitialize, ReturnStart, ReturnPause, ReturnResume, Callback
<1>8. CASE ReturnStop(t)
  <2>1. PICK s \in Results["StopTask"] : ForceStop(t, s)
    BY <1>8 DEF ReturnStop
  <2>2. s \in State \ {"Unknown", "Initialized"}
    BY <2>1, ResultsAssumption DEF Callback
  <2>3. ~Ended(state[t])
    BY <1>1, <1>8 DEF ReturnStop
  <2>4. Reporting(t)
    <3>1. CASE s \in {"Completed", "Terminated"}
      BY <2>1, <2>2, <2>3, <3>1, SetStateReports DEF ForceStop
    <3>2. CASE s \notin {"Completed", "Terminated"}
      <4>1. toController'[t] = Append(Append(toController[t], s), "Terminated")
        BY <2>1, <3>2 DEF ForceStop, SendStatesToController, Post
      <4>2. state'[t] = "Terminated"
        BY <2>1, <3>2 DEF ForceStop
      <4> QED BY <2>2, <2>3, <4>1, <4>2 DEF Reporting
    <3> QED BY <3>1, <3>2
  <2> QED BY <1>8, <2>4 DEF ReturnStop, LeaveOrWait, Goto
<1>9. CASE Destroy(t)
  <2>1. Ended("Terminated") /\ "Terminated" \in State \ {"Unknown"}
    BY DEF Ended, State
  <2> QED BY <1>9, <2>1, SetStateReports DEF Destroy, Goto
<1>10. ASSUME NEW q \in Request, AskController(t, q)
       PROVE  Reporting(t) /\ ~Ended(state'[t])
  <2>1. ~Ended(state[t])
    BY <1>1, <1>10 DEF AskController, Callback
  <2>2. toController'[t] = Append(toController[t], q)
    BY <1>10 DEF AskController, Post
  <2> QED BY <1>10, <2>1, <2>2 DEF AskController, Reporting
<1>11. CASE ReceiveArgs(t)
  BY <1>1, <1>11 DEF ReceiveArgs, Reporting
<1>12. ASSUME NEW s \in ReportStates, Report(t, s)
       PROVE  Reporting(t) /\ ~Ended(state'[t])
  <2>1. s \in State \ {"Unknown", "Initialized"} /\ ~Ended(s)
    BY <1>12, ResultsAssumption DEF State, Ended
  <2>2. ~Ended(state[t])
    BY <1>1, <1>12 DEF Report
  <2> QED BY <1>12, <2>1, <2>2, SetStateReports DEF Report
<1>13. CASE SendResults(t)
  BY <1>1, <1>13 DEF SendResults, Reporting
<1> QED
  BY <1>2, <1>4, <1>5, <1>7, <1>8, <1>9, <1>10, <1>11, <1>12, <1>13 DEF TaskStep, TaskAction

\* It touches no other task.
LEMMA TaskIsLocal ==
  ASSUME TypeOK, NEW t \in Tasks, TaskStep(t), NEW u \in Tasks, u # t
  PROVE  /\ toController'[u] = toController[u]
         /\ state'[u] = state[u]
         /\ tpc'[u] = tpc[u]
BY DEF TypeOK, NetworkTypeOK, TaskTypeOK, TaskStep, TaskAction, Construct, Enter,
       EnterInitialize, EnterStart, EnterStop, EnterPause, EnterResume, RefuseStart,
       Return, ReturnInitialize, ReturnStart, ReturnPause, ReturnResume,
       ReturnStop, ForceStop, Destroy, AskController, ReceiveArgs, Report, SendResults,
       SetState, SendStateToController, SendStatesToController, Post, Goto, LeaveOrWait

-----------------------------------------------------------------------------
\* What a step of the controller does to them: nothing, or it receives the
\* first message of a task.  A report may be recorded, in whatever slot.

Receiving(t) ==
  /\ cpc = "probe"
  /\ toController[t] # << >>
  /\ toController' = Take(toController, t)
  /\ idsToController' = Take(idsToController, t)
  /\ \A u \in Tasks : tracker'[u] \in {tracker[u], Head(toController[t])}
  /\ tracker' = IF Head(toController[t]) \in State /\ Head(idsToController[t]) \in Tasks
                  THEN [tracker EXCEPT ![Head(idsToController[t])] = Head(toController[t])]
                  ELSE tracker

LEMMA ControllerReceives ==
  ASSUME TypeOK, ControllerStep
  PROVE  /\ UNCHANGED <<state, bufferID, tpc, readied>>
         /\ \/ UNCHANGED <<tracker, toController, idsToController>>
            \/ \E t \in Tasks : Receiving(t)
<1> USE DEF TypeOK, ControllerTypeOK
<1>0. UNCHANGED <<state, bufferID, tpc, readied>>
  BY DEF ControllerStep, taskVars
<1>1. CASE InitializeAllTasks \/ StartAllTasks \/ NothingToRequest
  BY <1>0, <1>1 DEF InitializeAllTasks, StartAllTasks, NothingToRequest, CheckTracker
<1>2. CASE HookPasses \/ HookStopsTasks \/ \E t \in Tasks, m \in ActiveSends : HookSends(t, m)
  BY <1>0, <1>2 DEF HookPasses, HookStopsTasks, HookSends, HookCall, networkVars
<1>3. ASSUME NEW t \in Tasks, DoActionState(t)
      PROVE  Receiving(t)
  BY <1>3 DEF DoActionState, Receive, Arrived, SetTaskState, TrackState, Receiving
<1>4. ASSUME NEW t \in Tasks,
             DoActionRequestStop(t) \/ DoActionRequestCmdLineArgs(t) \/ DoActionRequestConfig(t)
      PROVE  Receiving(t)
  <2>1. PICK q \in Request : Receive(t, q)
    BY <1>4 DEF DoActionRequestStop, DoActionRequestCmdLineArgs, DoActionRequestConfig, Request
  <2>2. q \notin State
    BY <2>1 DEF Request, State
  <2>3. tracker' = tracker
    BY <1>4 DEF DoActionRequestStop, DoActionRequestCmdLineArgs, DoActionRequestConfig
  <2> QED BY <2>1, <2>2, <2>3 DEF Receive, Arrived, Receiving
<1>5. CASE ConfirmStopRequest \/ ConfirmClosing
  BY <1>0, <1>5 DEF ConfirmStopRequest, ConfirmClosing, ReceiveConfirmation
<1> QED
  BY <1>0, <1>1, <1>2, <1>3, <1>4, <1>5 DEF ControllerStep, ControllerAction

\* The other steps do nothing to them.
Elsewhere == BlackboardStep \/ Finalize \/ UNCHANGED vars

LEMMA ElsewhereQuiet ==
  Elsewhere => UNCHANGED <<tracker, toController, idsToController, toTask, state, bufferID, tpc, readied, cpc, created,
                           initialized, requestedInit, started>>
BY DEF Elsewhere, BlackboardStep, BlackboardAction, ReceiveEntry, ReceiveAndLog, HandleOutputMessage, Stop, Finalize,
       vars, networkVars, taskVars, controllerVars

LEMMA NextCases ==
  ASSUME [Next]_vars
  PROVE  (\E t \in Tasks : TaskStep(t)) \/ ControllerStep \/ Elsewhere
BY DEF Next, Terminated, Elsewhere

-----------------------------------------------------------------------------
\* What the tasks are sent.

\* A task only takes from its channel, and starts on Tag_StartTask alone.
LEMMA TaskConsumes ==
  ASSUME TypeOK, NEW t \in Tasks, TaskStep(t), NEW u \in Tasks
  PROVE  /\ readied \subseteq readied'
         /\ \A m : Has(toTask'[u], m) => Has(toTask[u], m)
         /\ tpc'[u] = "StartTask" => tpc[u] = "StartTask" \/ Has(toTask[u], "StartTask")
<1> USE DEF TypeOK, NetworkTypeOK, TaskTypeOK
<1>0. toTask[u] \in Seq(ControllerMessage) /\ tpc \in [Tasks -> Callback \cup {"constructing", "waiting", "leaving", "gone"}]
  OBVIOUS
<1>1. ASSUME NEW tag, NEW c \in Callback, Enter(t, tag, c), c = "StartTask" => tag = "StartTask"
      PROVE  /\ readied \subseteq readied'
             /\ \A m : Has(toTask'[u], m) => Has(toTask[u], m)
             /\ tpc'[u] = "StartTask" => tpc[u] = "StartTask" \/ Has(toTask[u], "StartTask")
  <2>1. CASE u = t
    <3>1. toTask[t] # << >> /\ Head(toTask[t]) = tag /\ toTask'[t] = Tail(toTask[t]) /\ tpc'[t] = c
      BY <1>1 DEF Enter, Arrived, Take, Goto
    <3> QED BY <1>0, <1>1, <2>1, <3>1, HasTail DEF Enter
  <2>2. CASE u # t
    BY <1>1, <2>2 DEF Enter, Take, Goto
  <2> QED BY <2>1, <2>2
<1>2. CASE EnterInitialize(t) \/ EnterStart(t) \/ EnterStop(t) \/ EnterPause(t) \/ EnterResume(t)
  BY <1>1, <1>2 DEF EnterInitialize, EnterStart, EnterStop, EnterPause, EnterResume, Callback
<1>3. CASE RefuseStart(t)
  <2>1. toTask'[u] = toTask[u] \/ (toTask[u] # << >> /\ toTask'[u] = Tail(toTask[u]))
    BY <1>3 DEF RefuseStart, Arrived, Take
  <2> QED BY <1>0, <1>3, <2>1, HasTail DEF RefuseStart, Goto
<1>4. CASE ReturnStop(t)
  <2>1. PICK k \in 0..DiscardChecks :
          /\ k <= Len(toTask[t])
          /\ toTask' = [toTask EXCEPT ![t] = SubSeq(@, k + 1, Len(@))]
    BY <1>4 DEF ReturnStop
  <2>2. k \in 0..Len(toTask[t])
    BY <2>1 DEF DiscardChecks
  <2>3. toTask'[u] = toTask[u] \/ (u = t /\ toTask'[u] = SubSeq(toTask[u], k + 1, Len(toTask[u])))
    BY <2>1
  <2>4. \A m : Has(toTask'[u], m) => Has(toTask[u], m)
    BY <1>0, <2>2, <2>3, HasSubSeq
  <2> QED BY <1>4, <2>4 DEF ReturnStop, LeaveOrWait, Goto
<1>5. CASE ReturnInitialize(t) \/ ReturnStart(t) \/ ReturnPause(t) \/ ReturnResume(t)
  BY <1>5 DEF ReturnInitialize, ReturnStart, ReturnPause, ReturnResume, Return, LeaveOrWait, Goto
<1>6. CASE \/ Construct(t) \/ Destroy(t) \/ ReceiveArgs(t) \/ SendResults(t)
           \/ \E q \in Request : AskController(t, q)
           \/ \E s \in ReportStates : Report(t, s)
  BY <1>6 DEF Construct, Destroy, ReceiveArgs, SendResults, AskController, Report, Goto
<1> QED BY <1>2, <1>3, <1>4, <1>5, <1>6 DEF TaskStep, TaskAction

\* The controller learns that the tasks are initialized from the tracker, and
\* sends Tag_StartTask, and what pauses or resumes a task, only then.
LateTag == {"StartTask"} \cup PauseTag

LEMMA ControllerStarts ==
  ASSUME TypeOK, IDInv, ControllerStep
  PROVE  /\ initialized => initialized'
         /\ initialized' => initialized \/ AreAllInitialized(tracker)
         /\ \A t \in Tasks, m \in LateTag : Has(toTask'[t], m) => Has(toTask[t], m) \/ initialized'
         /\ cpc' = "hook" \/ started' => initialized'
<1> USE DEF TypeOK, NetworkTypeOK, LateTag, PauseTag
<1> DEFINE SentBefore == \A t \in Tasks, m \in LateTag : Has(toTask'[t], m) => Has(toTask[t], m)
           Known == started' = started /\ initialized' = initialized /\ cpc' # "hook"
<1>0. /\ \A t \in Tasks : toTask[t] \in Seq(ControllerMessage)
      /\ (cpc = "hook" => initialized) /\ (started => initialized)
  BY DEF IDInv
<1>1. ASSUME NEW t \in Tasks, NEW m \in LateTag, NEW n \in {"InitializeTask", "RequestStopTask"}
      PROVE  Has(Append(toTask[t], n), m) => Has(toTask[t], m)
  <2>1. n \in ControllerMessage /\ n # m
    BY DEF ControllerMessage, ControlTag
  <2> QED BY <1>0, <2>1, HasAppend
<1>2. StopAllTasks => SentBefore
  BY <1>1 DEF StopAllTasks
<1>3. CheckTracker => /\ initialized => initialized'
                      /\ initialized' => initialized \/ AreAllInitialized(tracker)
                      /\ initialized' = NowInitialized
                      /\ cpc' = "hook" => initialized'
  BY <1>0 DEF CheckTracker, NowInitialized
<1>4. CASE InitializeAllTasks
  <2>1. SentBefore
    BY <1>1, <1>4 DEF InitializeAllTasks
  <2> QED BY <1>0, <1>3, <1>4, <2>1 DEF InitializeAllTasks
<1>5. CASE StartAllTasks
  BY <1>3, <1>5 DEF StartAllTasks, ControllerTypeOK
<1>6. CASE NothingToRequest
  BY <1>0, <1>3, <1>6 DEF NothingToRequest
<1>7. CASE HookPasses \/ HookStopsTasks \/ \E t \in Tasks, m \in ActiveSends : HookSends(t, m)
  BY <1>0, <1>7 DEF HookPasses, HookStopsTasks, HookSends, HookCall, flags
<1>8. ASSUME NEW bb, AfterMessage(bb) PROVE cpc' # "hook"
  BY <1>8 DEF AfterMessage
<1>9. ASSUME NEW t \in Tasks,
             \/ DoActionState(t) \/ DoActionRequestStop(t)
             \/ DoActionRequestCmdLineArgs(t) \/ DoActionRequestConfig(t)
      PROVE  Known /\ (toTask' = toTask \/ StopAllTasks)
  BY <1>8, <1>9 DEF DoActionState, DoActionRequestStop, DoActionRequestCmdLineArgs,
              DoActionRequestConfig, Receive, flags
<1>10. CASE ConfirmStopRequest \/ ConfirmClosing
  <2>1. Known /\ toTask' = toTask
    BY <1>8, <1>10 DEF ConfirmStopRequest, ConfirmClosing, ReceiveConfirmation, flags
  <2> QED BY <1>0, <2>1
<1>11. ASSUME Known, SentBefore \/ toTask' = toTask
       PROVE  /\ initialized => initialized'
              /\ initialized' => initialized \/ AreAllInitialized(tracker)
              /\ \A t \in Tasks, m \in LateTag : Has(toTask'[t], m) => Has(toTask[t], m) \/ initialized'
              /\ cpc' = "hook" \/ started' => initialized'
  BY <1>0, <1>11
<1> QED
  BY <1>2, <1>4, <1>5, <1>6, <1>7, <1>9, <1>10, <1>11 DEF ControllerStep, ControllerAction

-----------------------------------------------------------------------------
\* A task that has ended has left its loop.

LEMMA EndedLeaveStep == TypeOK /\ EndedLeave /\ [Next]_vars => EndedLeave'
<1> SUFFICES ASSUME TypeOK, EndedLeave, [Next]_vars
             PROVE  EndedLeave'
  OBVIOUS
<1>1. ASSUME NEW t \in Tasks, TaskStep(t)
      PROVE  EndedLeave'
  BY <1>1, TaskReports, TaskIsLocal DEF EndedLeave
<1> QED BY <1>1, NextCases, ControllerReceives, ElsewhereQuiet DEF EndedLeave

LEMMA EndedLeaveCorrect == Spec => []EndedLeave
<1>1. Init => EndedLeave
  BY DEF Init, TaskInit, EndedLeave, Ended
<1> QED BY <1>1, EndedLeaveStep, TypeCorrect, PTL DEF Spec

-----------------------------------------------------------------------------
\* The numbers the tasks send.

LEMMA AllAreAppend ==
  ASSUME NEW M, NEW q \in Seq(M), NEW x \in M, AllAre(q, x)
  PROVE  AllAre(Append(q, x), x)
<1>1. /\ Len(Append(q, x)) = Len(q) + 1 /\ Len(q) \in Nat
      /\ Append(q, x)[Len(q) + 1] = x
      /\ \A i \in 1..Len(q) : Append(q, x)[i] = q[i]
  OBVIOUS
<1> QED BY <1>1 DEF AllAre

LEMMA AllAreTail ==
  ASSUME NEW M, NEW q \in Seq(M), NEW x, AllAre(q, x), q # << >>
  PROVE  AllAre(Tail(q), x) /\ Head(q) = x
<1>1. /\ Len(q) \in Nat /\ Len(q) > 0 /\ Len(Tail(q)) = Len(q) - 1
      /\ Head(q) = q[1]
      /\ \A i \in 1..Len(Tail(q)) : i + 1 \in 1..Len(q) /\ Tail(q)[i] = q[i + 1]
  OBVIOUS
<1> QED BY <1>1 DEF AllAre

\* A step of a task that has received no foreign number sends its own, and
\* leaves those of the others alone.
LEMMA TaskNumbers ==
  ASSUME TypeOK, NEW t \in Tasks, TaskStep(t)
  PROVE  /\ \A u \in Tasks \ {t} : OwnID(u) => OwnID(u)'
         /\ OwnID(t) /\ (ForeignIDs = {} \/ \A m \in PauseTag : ~Has(toTask[t], m)) => OwnID(t)'
<1> USE DEF TypeOK, NetworkTypeOK, TaskTypeOK
<1> DEFINE Sends(id) ==
             \/ idsToController' = idsToController
             \/ idsToController' = Post(idsToController, t, id)
             \/ idsToController' = Post(Post(idsToController, t, id), t, id)
<1>1. \A s : SetState(t, s) => Sends(bufferID[t]) /\ bufferID' = bufferID
  BY DEF SetState, SendStateToController
<1>2. \A s : ForceStop(t, s) => Sends(bufferID[t]) /\ bufferID' = bufferID
  BY <1>1 DEF ForceStop, SendStatesToController
<1>3. ASSUME NEW tag, NEW c, Enter(t, tag, c)
      PROVE  idsToController' = idsToController
  BY <1>3 DEF Enter
<1>4. CASE EnterPause(t) \/ EnterResume(t)
  <2>1. /\ idsToController' = idsToController /\ ReceiveIntoBuffer(t)
        /\ \E m \in PauseTag : Arrived(toTask, t, m)
    BY <1>3, <1>4 DEF EnterPause, EnterResume, Enter, PauseTag
  <2>2. \E m \in PauseTag : Has(toTask[t], m)
    <3>1. toTask[t] \in Seq(ControllerMessage)
      OBVIOUS
    <3> QED BY <2>1, <3>1, HasTail DEF Arrived
  <2>3. PICK id \in {bufferID[t], t} \cup ForeignIDs : bufferID' = [bufferID EXCEPT ![t] = id]
    BY <2>1 DEF ReceiveIntoBuffer
  <2>4. \A u \in Tasks \ {t} : bufferID'[u] = bufferID[u]
    BY <2>3
  <2>5. OwnID(t) /\ ForeignIDs = {} => bufferID'[t] = t
    BY <2>3 DEF OwnID
  <2> QED BY <2>1, <2>2, <2>4, <2>5 DEF OwnID
<1>5. CASE EnterInitialize(t) \/ EnterStart(t) \/ EnterStop(t)
  BY <1>3, <1>5 DEF EnterInitialize, EnterStart, EnterStop, OwnID
<1>6. ASSUME NEW id \in IDNum, Sends(id), bufferID' = bufferID, OwnID(t) => id = t
      PROVE  /\ \A u \in Tasks \ {t} : OwnID(u) => OwnID(u)'
             /\ OwnID(t) => OwnID(t)'
  <2>1. /\ idsToController \in [Tasks -> Seq(IDNum)]
        /\ Post(idsToController, t, id) \in [Tasks -> Seq(IDNum)]
    BY PostType
  <2>2. ASSUME NEW ids \in [Tasks -> Seq(IDNum)]
        PROVE  /\ \A u \in Tasks \ {t} : Post(ids, t, id)[u] = ids[u]
               /\ AllAre(ids[t], id) => AllAre(Post(ids, t, id)[t], id)
    <3>1. ids[t] \in Seq(IDNum) /\ Post(ids, t, id)[t] = Append(ids[t], id)
      BY DEF Post
    <3> QED BY <3>1, AllAreAppend DEF Post
  <2>3. \A u \in Tasks \ {t} : idsToController'[u] = idsToController[u]
    BY <1>6, <2>1, <2>2
  <2>4. AllAre(idsToController[t], id) => AllAre(idsToController'[t], id)
    BY <1>6, <2>1, <2>2
  <2> QED BY <1>6, <2>3, <2>4 DEF OwnID
<1>7. bufferID[t] \in IDNum /\ t \in IDNum /\ (OwnID(t) => bufferID[t] = t)
  BY DEF IDNum, OwnID
<1>8. CASE \/ Construct(t) \/ RefuseStart(t) \/ Destroy(t)
           \/ \E s \in ReportStates : Report(t, s)
  <2>1. Sends(bufferID[t]) /\ bufferID' = bufferID
    BY <1>1, <1>8 DEF Construct, RefuseStart, Destroy, Report
  <2> QED BY <1>6, <1>7, <2>1
<1>9. CASE ReturnInitialize(t) \/ ReturnStart(t) \/ ReturnPause(t) \/ ReturnResume(t) \/ ReturnStop(t)
  <2>1. Sends(bufferID[t]) /\ bufferID' = bufferID
    BY <1>1, <1>2, <1>9
       DEF ReturnInitialize, ReturnStart, ReturnPause, ReturnResume, Return, ReturnStop
  <2> QED BY <1>6, <1>7, <2>1
<1>10. CASE \E q \in Request : AskController(t, q)
  <2>1. Sends(t) /\ bufferID' = bufferID
    BY <1>10 DEF AskController
  <2> QED BY <1>6, <1>7, <2>1
<1>11. CASE ReceiveArgs(t) \/ SendResults(t)
  BY <1>11 DEF ReceiveArgs, SendResults, OwnID
<1> QED
  BY <1>4, <1>5, <1>8, <1>9, <1>10, <1>11 DEF TaskStep, TaskAction

LEMMA IDInvStep == TypeOK /\ IDInv /\ [Next]_vars => IDInv'
<1> SUFFICES ASSUME TypeOK, IDInv, [Next]_vars
             PROVE  IDInv'
  OBVIOUS
<1>1. ASSUME NEW t \in Tasks, TaskStep(t)
      PROVE  IDInv'
  <2>1. UNCHANGED <<cpc, started, initialized>> /\ (IDsAreOwn' <=> IDsAreOwn)
    BY <1>1 DEF TaskStep, controllerVars, IDsAreOwn
  <2>2. \A u \in Tasks : \A m : Has(toTask'[u], m) => Has(toTask[u], m)
    BY <1>1, TaskConsumes
  <2>3. IDsAreOwn => \A u \in Tasks : OwnID(u)'
    BY <1>1, TaskNumbers DEF IDInv, IDsAreOwn
  <2> QED BY <2>1, <2>2, <2>3 DEF IDInv
<1>2. CASE ControllerStep
  <2>1. /\ initialized => initialized'
        /\ \A t \in Tasks, m \in PauseTag : Has(toTask'[t], m) => Has(toTask[t], m) \/ initialized'
        /\ cpc' = "hook" \/ started' => initialized'
    BY <1>2, ControllerStarts DEF LateTag
  <2>2. ASSUME NEW u \in Tasks, OwnID(u)
        PROVE  OwnID(u)'
    <3>1. bufferID' = bufferID
      BY <1>2, ControllerReceives
    <3>2. ASSUME NEW t \in Tasks, Receiving(t)
          PROVE  AllAre(idsToController'[u], u)
      <4>1. /\ idsToController[t] \in Seq(IDNum) /\ idsToController[t] # << >>
            /\ idsToController'[u] = IF u = t THEN Tail(idsToController[t]) ELSE idsToController[u]
        BY <3>2 DEF Receiving, Take, TypeOK, NetworkTypeOK, Paired
      <4> QED BY <2>2, <4>1, AllAreTail DEF OwnID
    <3> QED BY <1>2, <2>2, <3>1, <3>2, ControllerReceives DEF OwnID
  <2>3. IDsAreOwn' => IDsAreOwn
    BY <2>1 DEF IDsAreOwn
  <2> QED BY <2>1, <2>2, <2>3 DEF IDInv
<1>3. CASE Elsewhere
  BY <1>3, ElsewhereQuiet DEF IDInv, OwnID, IDsAreOwn
<1> QED BY <1>1, <1>2, <1>3, NextCases

LEMMA IDInvCorrect == Spec => []IDInv
<1>1. Init => IDInv
  BY DEF Init, NetworkInit, TaskInit, ControllerInit, IDInv, OwnID, AllAre, Has
<1> QED BY <1>1, IDInvStep, TypeCorrect, PTL DEF Spec

\* Where the numbers are the tasks' own, a report is recorded in its sender's slot.
Recording(t) ==
  /\ cpc = "probe"
  /\ toController[t] # << >>
  /\ toController' = Take(toController, t)
  /\ tracker' = IF Head(toController[t]) \in State
                  THEN [tracker EXCEPT ![t] = Head(toController[t])]
                  ELSE tracker

LEMMA ControllerRecords ==
  ASSUME TypeOK, IDInv, IDsAreOwn, ControllerStep
  PROVE  /\ UNCHANGED <<state, tpc, readied>>
         /\ \/ UNCHANGED <<tracker, toController>>
            \/ \E t \in Tasks : Recording(t)
<1>1. ASSUME NEW t \in Tasks, Receiving(t)
      PROVE  Recording(t)
  <2>1. /\ idsToController[t] \in Seq(IDNum) /\ idsToController[t] # << >>
        /\ AllAre(idsToController[t], t)
    BY <1>1 DEF Receiving, TypeOK, NetworkTypeOK, Paired, IDInv, OwnID
  <2>2. Head(idsToController[t]) = t
    BY <2>1, AllAreTail
  <2> QED BY <1>1, <2>2 DEF Receiving, Recording
<1> QED BY <1>1, ControllerReceives

-----------------------------------------------------------------------------
\* The invariants hold.

LEMMA EndInvStep ==
  ASSUME ForeignIDs = {}
  PROVE  TypeOK /\ IDInv /\ EndInv /\ [Next]_vars => EndInv'
<1> SUFFICES ASSUME TypeOK, IDInv, EndInv, [Next]_vars
             PROVE  EndInv'
  OBVIOUS
<1>0. IDsAreOwn
  BY DEF IDsAreOwn
<1> USE DEF TypeOK, NetworkTypeOK, TaskTypeOK
<1>1. ASSUME NEW t \in Tasks, TaskStep(t)
      PROVE  EndInv'
  <2>0. tracker' = tracker
    BY <1>1 DEF TaskStep, controllerVars
  <2>1. /\ Reporting(t)
        /\ Ended(state'[t]) => tpc'[t] \in {"leaving", "gone"}
    BY <1>1, TaskReports DEF EndInv
  <2>2. EndIsLast(tracker[t], toController[t], state[t]) /\ state[t] \in State
        /\ toController[t] \in Seq(TaskMessage)
    BY DEF EndInv
  <2>3. EndIsLast(tracker[t], toController'[t], state'[t])
    <3>1. ASSUME NEW s \in State \ {"Unknown", "Initialized"}, ~Ended(state[t])
          PROVE  EndIsLast(tracker[t], Append(Append(toController[t], s), "Terminated"), "Terminated")
      <4>1. EndIsLast(tracker[t], Append(toController[t], s), s)
        BY <2>2, <3>1, EndIsLastAppend
      <4>2. Append(toController[t], s) \in Seq(TaskMessage)
        BY <2>2 DEF TaskMessage
      <4>3. "Terminated" \in State /\ Ended("Terminated")
        BY DEF State, Ended
      <4> QED BY <4>1, <4>2, <4>3, EndIsLastAppend
    <3>2. \A s \in State \ {"Unknown"} :
            (Ended(state[t]) => Ended(s)) => EndIsLast(tracker[t], Append(toController[t], s), s)
      BY <2>2, EndIsLastAppend
    <3>3. \A q \in Request : EndIsLast(tracker[t], Append(toController[t], q), state[t])
      BY <2>2, EndIsLastAppend
    <3> QED BY <2>1, <2>2, <3>1, <3>2, <3>3 DEF Reporting
  <2> QED BY <1>1, <2>0, <2>1, <2>3, TaskIsLocal DEF EndInv, EndedLeave
<1>2. CASE ControllerStep
  <2>1. UNCHANGED <<state, tpc>>
    BY <1>0, <1>2, ControllerRecords
  <2>2. CASE UNCHANGED <<tracker, toController>>
    BY <2>1, <2>2 DEF EndInv, EndedLeave
  <2>3. ASSUME NEW t \in Tasks, Recording(t)
        PROVE  EndInv'
    <3>1. ASSUME NEW u \in Tasks
          PROVE  EndIsLast(tracker'[u], toController'[u], state[u])
      <4>1. EndIsLast(tracker[u], toController[u], state[u])
        BY DEF EndInv
      <4>2. CASE u = t
        BY <2>3, <4>1, <4>2, EndIsLastTail DEF Recording, Take, ControllerTypeOK
      <4>3. CASE u # t
        BY <2>3, <4>1, <4>3 DEF Recording, Take, ControllerTypeOK
      <4> QED BY <4>2, <4>3
    <3> QED BY <2>1, <3>1 DEF EndInv, EndedLeave
  <2> QED BY <1>2, <1>0, <2>2, <2>3, ControllerRecords
<1>3. CASE Elsewhere
  BY <1>3, ElsewhereQuiet DEF EndInv, EndedLeave
<1> QED BY <1>1, <1>2, <1>3, NextCases

LEMMA EndInvInit == Init => EndInv
BY DEF Init, NetworkInit, TaskInit, ControllerInit, NewTracker, EndInv, EndedLeave, EndIsLast, Ended

LEMMA EndInvCorrect ==
  ASSUME ForeignIDs = {}
  PROVE  Spec => []EndInv
<1>1. TypeOK /\ IDInv /\ EndInv /\ [Next]_vars => EndInv'
  BY EndInvStep
<1> QED BY <1>1, EndInvInit, TypeCorrect, IDInvCorrect, PTL DEF Spec

\* EndIsFinal: a task recorded as ended is never recorded in a state that is no
\* end again.  What a forced or destroyed task still reports are ends too.
THEOREM EndIsFinalCorrect ==
  ASSUME ForeignIDs = {}
  PROVE  Spec => EndIsFinal
<1>1. TypeOK /\ IDInv /\ EndInv /\ [Next]_vars
        => [\A t \in Tasks : Ended(tracker[t]) => Ended(tracker'[t])]_vars
  <2> SUFFICES ASSUME TypeOK, IDInv, EndInv, [Next]_vars, NEW t \in Tasks, Ended(tracker[t])
               PROVE  Ended(tracker'[t])
    OBVIOUS
  <2>0. IDsAreOwn
    BY DEF IDsAreOwn
  <2>1. CASE tracker' = tracker
    BY <2>1
  <2>2. ASSUME NEW u \in Tasks, Recording(u)
        PROVE  Ended(tracker'[t])
    <3>1. CASE u = t /\ Head(toController[t]) \in State
      <4>1. 1 \in 1..Len(toController[t]) /\ Head(toController[t]) = toController[t][1]
        BY <2>2, <3>1 DEF Recording, TypeOK, NetworkTypeOK
      <4>2. Ended(Head(toController[t]))
        BY <3>1, <4>1 DEF EndInv, EndIsLast
      <4> QED BY <2>2, <3>1, <4>2 DEF Recording, TypeOK, ControllerTypeOK
    <3>2. CASE u # t \/ Head(toController[t]) \notin State
      BY <2>2, <3>2 DEF Recording, TypeOK, ControllerTypeOK
    <3> QED BY <3>1, <3>2
  <2> QED
    BY <2>0, <2>1, <2>2, NextCases, ControllerRecords, ElsewhereQuiet DEF TaskStep, controllerVars
<1> QED BY <1>1, TypeCorrect, IDInvCorrect, EndInvCorrect, PTL DEF Spec, EndIsFinal

LEMMA FollowInvStep ==
  ASSUME ForeignIDs = {}
  PROVE  TypeOK /\ EndedLeave /\ IDInv /\ FollowInv /\ [Next]_vars => FollowInv'
<1> SUFFICES ASSUME TypeOK, EndedLeave, IDInv, FollowInv, [Next]_vars
             PROVE  FollowInv'
  OBVIOUS
<1>0. IDsAreOwn
  BY DEF IDsAreOwn
<1> USE DEF TypeOK, NetworkTypeOK, TaskTypeOK
<1>1. ASSUME NEW t \in Tasks, TaskStep(t)
      PROVE  FollowInv'
  <2>0. tracker' = tracker
    BY <1>1 DEF TaskStep, controllerVars
  <2>1. Reporting(t)
    BY <1>1, TaskReports
  <2>2. LastIsState(tracker[t], toController[t], state[t]) /\ state[t] \in State
        /\ toController[t] \in Seq(TaskMessage)
    BY DEF FollowInv
  <2>3. LastIsState(tracker[t], toController'[t], state'[t])
    <3>1. ASSUME NEW s \in State \ {"Unknown", "Initialized"}
          PROVE  LastIsState(tracker[t], Append(Append(toController[t], s), "Terminated"), "Terminated")
      <4>1. LastIsState(tracker[t], Append(toController[t], s), s)
        BY <2>2, <3>1, LastIsStateAppend
      <4>2. Append(toController[t], s) \in Seq(TaskMessage)
        BY <2>2 DEF TaskMessage
      <4> QED BY <4>1, <4>2, LastIsStateAppend DEF State
    <3>2. \A s \in State \ {"Unknown"} : LastIsState(tracker[t], Append(toController[t], s), s)
      BY <2>2, LastIsStateAppend
    <3>3. \A q \in Request : LastIsState(tracker[t], Append(toController[t], q), state[t])
      BY <2>2, LastIsStateAppend
    <3> QED BY <2>1, <2>2, <3>1, <3>2, <3>3 DEF Reporting
  <2> QED BY <1>1, <2>0, <2>3, TaskIsLocal DEF FollowInv
<1>2. CASE ControllerStep
  <2>1. UNCHANGED state
    BY <1>0, <1>2, ControllerRecords
  <2>2. CASE UNCHANGED <<tracker, toController>>
    BY <2>1, <2>2 DEF FollowInv
  <2>3. ASSUME NEW t \in Tasks, Recording(t)
        PROVE  FollowInv'
    <3>1. ASSUME NEW u \in Tasks
          PROVE  LastIsState(tracker'[u], toController'[u], state[u])
      <4>1. LastIsState(tracker[u], toController[u], state[u])
        BY DEF FollowInv
      <4>2. CASE u = t
        BY <2>3, <4>1, <4>2, LastIsStateTail DEF Recording, Take, ControllerTypeOK
      <4>3. CASE u # t
        BY <2>3, <4>1, <4>3 DEF Recording, Take, ControllerTypeOK
      <4> QED BY <4>2, <4>3
    <3> QED BY <2>1, <3>1 DEF FollowInv
  <2> QED BY <1>0, <1>2, <2>2, <2>3, ControllerRecords
<1>3. CASE Elsewhere
  BY <1>3, ElsewhereQuiet DEF FollowInv
<1> QED BY <1>1, <1>2, <1>3, NextCases

LEMMA FollowInvCorrect ==
  ASSUME ForeignIDs = {}
  PROVE  Spec => []FollowInv
<1>1. Init => FollowInv
  BY DEF Init, NetworkInit, TaskInit, ControllerInit, NewTracker, FollowInv, LastIsState
<1>2. TypeOK /\ EndedLeave /\ IDInv /\ FollowInv /\ [Next]_vars => FollowInv'
  BY FollowInvStep
<1> QED BY <1>1, <1>2, TypeCorrect, EndedLeaveCorrect, IDInvCorrect, PTL DEF Spec

\* TrackerFollowsTask: where no message that pauses or resumes a task brings a
\* number that is not its ID, the controller's record of a task is right but for
\* what is in flight.
THEOREM TrackerFollowsTaskCorrect ==
  ASSUME ForeignIDs = {}
  PROVE  Spec => []TrackerFollowsTask
<1>1. FollowInv => TrackerFollowsTask
  BY DEF FollowInv, LastIsState, TrackerFollowsTask, Reports
<1> QED BY <1>1, FollowInvCorrect, PTL

-----------------------------------------------------------------------------
\* Closing the job.

LEMMA ClosedInvStep == TypeOK /\ ClosedInv /\ [Next]_vars => ClosedInv'
<1> SUFFICES ASSUME TypeOK, ClosedInv, [Next]_vars, cpc' \in {"closing", "stopped"}
             PROVE  AreAllStopped(tracker')
  BY DEF ClosedInv
<1>1. CASE UNCHANGED <<cpc, tracker>>
  BY <1>1 DEF ClosedInv
<1>2. ASSUME NEW bb, AfterMessage(bb)
      PROVE  AreAllStopped(tracker')
  BY <1>2 DEF AfterMessage
<1>3. CASE ControllerStep
  <2>1. CASE InitializeAllTasks \/ StartAllTasks \/ NothingToRequest
    BY <2>1 DEF InitializeAllTasks, StartAllTasks, NothingToRequest, CheckTracker
  <2>2. CASE HookPasses \/ HookStopsTasks \/ \E t \in Tasks, m \in ActiveSends : HookSends(t, m)
    BY <2>2 DEF HookPasses, HookStopsTasks, HookSends, HookCall
  <2>3. CASE \E t \in Tasks : \/ DoActionState(t)
                              \/ DoActionRequestStop(t)
                              \/ DoActionRequestCmdLineArgs(t)
                              \/ DoActionRequestConfig(t)
    BY <1>2, <2>3 DEF DoActionState, DoActionRequestStop, DoActionRequestCmdLineArgs,
                      DoActionRequestConfig
  <2>4. CASE ConfirmStopRequest
    BY <1>2, <2>4 DEF ConfirmStopRequest
  <2>5. CASE ConfirmClosing
    BY <2>5 DEF ConfirmClosing, ReceiveConfirmation, ClosedInv
  <2> QED BY <1>3, <2>1, <2>2, <2>3, <2>4, <2>5 DEF ControllerStep, ControllerAction
<1>4. ASSUME NEW t \in Tasks, TaskStep(t)
      PROVE  UNCHANGED <<cpc, tracker>>
  BY <1>4 DEF TaskStep, controllerVars
<1> QED BY <1>1, <1>3, <1>4, NextCases, ElsewhereQuiet

LEMMA ClosedInvCorrect == Spec => []ClosedInv
<1>1. Init => ClosedInv
  BY DEF Init, ControllerInit, ClosedInv
<1> QED BY <1>1, ClosedInvStep, TypeCorrect, PTL DEF Spec

\* KnownTasksEnd: whatever requests the application sends and when, the
\* controller never closes the job ahead of a task it has heard of.
THEOREM KnownTasksEndCorrect ==
  ASSUME ForeignIDs = {}
  PROVE  Spec => []KnownTasksEnd
<1>1. TypeOK /\ EndInv /\ ClosedInv => KnownTasksEnd
  BY DEF TypeOK, ControllerTypeOK, EndInv, EndIsLast, ClosedInv, AreAllStopped, KnownTasksEnd
<1> QED BY <1>1, TypeCorrect, EndInvCorrect, ClosedInvCorrect, PTL

\* The blackboard is known to have stopped before the controller's loop is left.
StoppedInv == cpc = "stopped" => stateBB = "Completed"

LEMMA StoppedInvStep == StoppedInv /\ [Next]_vars => StoppedInv'
<1> SUFFICES ASSUME StoppedInv, [Next]_vars, cpc' = "stopped"
             PROVE  stateBB' = "Completed"
  BY DEF StoppedInv
<1>1. CASE UNCHANGED <<cpc, stateBB>>
  BY <1>1 DEF StoppedInv
<1>2. ASSUME NEW bb, AfterMessage(bb)
      PROVE  bb = "Completed"
  BY <1>2 DEF AfterMessage
<1>3. CASE ControllerStep
  <2>1. CASE InitializeAllTasks \/ StartAllTasks \/ NothingToRequest
    BY <2>1 DEF InitializeAllTasks, StartAllTasks, NothingToRequest, CheckTracker
  <2>2. CASE HookPasses \/ HookStopsTasks \/ \E t \in Tasks, m \in ActiveSends : HookSends(t, m)
    BY <2>2 DEF HookPasses, HookStopsTasks, HookSends, HookCall
  <2>3. CASE \E t \in Tasks : \/ DoActionState(t)
                              \/ DoActionRequestStop(t)
                              \/ DoActionRequestCmdLineArgs(t)
                              \/ DoActionRequestConfig(t)
    BY <1>2, <2>3 DEF DoActionState, DoActionRequestStop, DoActionRequestCmdLineArgs,
                      DoActionRequestConfig, Receive
  <2>4. CASE ConfirmStopRequest \/ ConfirmClosing
    BY <2>4 DEF ConfirmStopRequest, ConfirmClosing, ReceiveConfirmation
  <2> QED BY <1>3, <2>1, <2>2, <2>3, <2>4 DEF ControllerStep, ControllerAction
<1>4. ASSUME NEW t \in Tasks, TaskStep(t)
      PROVE  UNCHANGED <<cpc, stateBB>>
  BY <1>4 DEF TaskStep, controllerVars
<1>5. CASE Elsewhere
  BY <1>1, <1>5 DEF Elsewhere, BlackboardStep, Finalize, vars, controllerVars
<1> QED BY <1>1, <1>3, <1>4, <1>5, NextCases

\* ~Master finds the controller ready to stop: the poll of WaitUntilCanStop,
\* which nothing could end any more, is not entered.
THEOREM WaitIsOverCorrect == Spec => []WaitIsOver
<1>1. Init => StoppedInv
  BY DEF Init, ControllerInit, StoppedInv
<1>2. ClosedInv /\ StoppedInv => WaitIsOver
  BY DEF ClosedInv, StoppedInv, WaitIsOver, CanStop
<1> QED BY <1>1, <1>2, StoppedInvStep, ClosedInvCorrect, PTL DEF Spec

-----------------------------------------------------------------------------
\* The barrier before the start.

LEMMA BarrierInvStep ==
  TypeOK /\ TypeOK' /\ EndedLeave /\ IDInv /\ BarrierInv /\ [Next]_vars => BarrierInv'
<1> SUFFICES ASSUME TypeOK, TypeOK', EndedLeave, IDInv, BarrierInv, [Next]_vars
             PROVE  BarrierInv'
  OBVIOUS
<1> USE DEF TypeOK, NetworkTypeOK, TaskTypeOK
<1>1. ASSUME NEW t \in Tasks, TaskStep(t)
      PROVE  BarrierInv'
  <2>0. tracker' = tracker /\ initialized' = initialized
    BY <1>1 DEF TaskStep, controllerVars
  <2>1. Reporting(t)
    BY <1>1, TaskReports
  <2>2. readied \subseteq readied' /\ readied' \subseteq Tasks
    BY <1>1, TaskConsumes
  <2>3. Has(toController'[t], "Initialized") => Has(toController[t], "Initialized") \/ t \in readied'
    <3>1. ASSUME NEW q \in Seq(TaskMessage), NEW m \in TaskMessage, m # "Initialized"
          PROVE  /\ Append(q, m) \in Seq(TaskMessage)
                 /\ Has(Append(q, m), "Initialized") => Has(q, "Initialized")
      BY <3>1, HasAppend
    <3>2. ASSUME NEW s \in State \ {"Unknown", "Initialized"}
          PROVE  Has(Append(Append(toController[t], s), "Terminated"), "Initialized")
                   => Has(toController[t], "Initialized")
      BY <3>1 DEF TaskMessage, State
    <3>3. ASSUME NEW m \in TaskMessage, toController'[t] = Append(toController[t], m)
          PROVE  Has(toController'[t], "Initialized") => Has(toController[t], "Initialized") \/ m = "Initialized"
      BY <3>1, <3>3
    <3> QED BY <2>1, <3>2, <3>3 DEF Reporting, TaskMessage, Request
  <2>4. \A u \in Tasks : Has(toController'[u], "Initialized") => Has(toController[u], "Initialized") \/ u \in readied'
    BY <1>1, <2>3, TaskIsLocal
  <2> QED BY <1>1, <2>0, <2>2, <2>4, TaskConsumes DEF BarrierInv
<1>2. CASE ControllerStep
  <2>1. UNCHANGED <<tpc, readied>>
    BY <1>2, ControllerReceives
  <2>2. ASSUME ~initialized,
               NEW t \in Tasks, tracker'[t] = "Initialized" \/ Has(toController'[t], "Initialized")
        PROVE  tracker[t] = "Initialized" \/ Has(toController[t], "Initialized")
    <3>0. IDsAreOwn
      BY <2>2 DEF IDsAreOwn
    <3>1. ASSUME NEW u \in Tasks, Recording(u)
          PROVE  tracker[t] = "Initialized" \/ Has(toController[t], "Initialized")
      <4>1. CASE u # t
        BY <2>2, <3>1, <4>1 DEF Recording, Take, ControllerTypeOK
      <4>2. CASE u = t
        <5>1. toController[t] \in Seq(TaskMessage) /\ toController[t] # << >>
          BY <3>1, <4>2 DEF Recording
        <5>2. /\ toController'[t] = Tail(toController[t])
              /\ tracker'[t] = Head(toController[t]) \/ tracker'[t] = tracker[t]
          BY <3>1, <4>2 DEF Recording, Take, ControllerTypeOK
        <5> QED BY <2>2, <5>1, <5>2, HasTail
      <4> QED BY <4>1, <4>2
    <3> QED BY <1>2, <2>2, <3>0, <3>1, ControllerRecords
  <2>3. initialized \/ AreAllInitialized(tracker) => readied = Tasks
    BY DEF AreAllInitialized, BarrierInv, ControllerTypeOK
  <2>4. /\ initialized => initialized'
        /\ initialized' => readied = Tasks
        /\ \A t \in Tasks : Has(toTask'[t], "StartTask") => Has(toTask[t], "StartTask") \/ initialized'
    BY <1>2, <2>3, ControllerStarts DEF LateTag
  <2> QED BY <2>1, <2>2, <2>4 DEF BarrierInv
<1>3. CASE Elsewhere
  BY <1>3, ElsewhereQuiet DEF BarrierInv
<1> QED BY <1>1, <1>2, <1>3, NextCases

LEMMA BarrierInvCorrect == Spec => []BarrierInv
<1>1. Init => BarrierInv
  BY DEF Init, NetworkInit, TaskInit, ControllerInit, NewTracker, BarrierInv, Has
<1> QED BY <1>1, BarrierInvStep, TypeCorrect, EndedLeaveCorrect, IDInvCorrect, PTL DEF Spec

\* No StartTask of an adapter runs, and no Tag_StartTask is under way, before
\* the InitializeTask of every task has succeeded.
THEOREM StartBarrierCorrect == Spec => []StartBarrier
<1>1. BarrierInv => StartBarrier
  BY DEF BarrierInv, StartBarrier, Has
<1> QED BY <1>1, BarrierInvCorrect, PTL

-----------------------------------------------------------------------------
\* The controller outlives the tasks.

LEMMA CreatedInvStep ==
  ASSUME CtorRequests = {}
  PROVE  TypeOK /\ EndedLeave /\ IDInv /\ CreatedInv /\ [Next]_vars => CreatedInv'
<1> SUFFICES ASSUME TypeOK, EndedLeave, IDInv, CreatedInv, [Next]_vars
             PROVE  CreatedInv'
  OBVIOUS
<1> USE DEF TypeOK, NetworkTypeOK, TaskTypeOK, ControllerTypeOK
<1>0. \A t \in Tasks : ~Has(toController[t], "Unknown")
  BY DEF CreatedInv
<1>1. ASSUME NEW t \in Tasks, TaskStep(t)
      PROVE  CreatedInv'
  <2>0. UNCHANGED <<tracker, cpc, created, initialized, started>>
    BY <1>1 DEF TaskStep, controllerVars
  <2>1. \A u \in Tasks : ~Has(toController'[u], "Unknown")
    <3>1. ASSUME NEW q \in Seq(TaskMessage), NEW m \in TaskMessage, m # "Unknown"
          PROVE  /\ Append(q, m) \in Seq(TaskMessage)
                 /\ Has(Append(q, m), "Unknown") => Has(q, "Unknown")
      BY <3>1, HasAppend
    <3>2. ASSUME NEW s \in State \ {"Unknown", "Initialized"}
          PROVE  ~Has(Append(Append(toController[t], s), "Terminated"), "Unknown")
      BY <1>0, <3>1 DEF TaskMessage, State
    <3>3. ASSUME NEW m \in TaskMessage, m # "Unknown"
          PROVE  ~Has(Append(toController[t], m), "Unknown")
      BY <1>0, <3>1, <3>3
    <3>4. Reporting(t)
      BY <1>1, TaskReports
    <3>5. ~Has(toController'[t], "Unknown")
      <4>1. ASSUME NEW q \in Request
            PROVE  ~Has(Append(toController[t], q), "Unknown")
        BY <3>3, <4>1 DEF TaskMessage, Request
      <4>2. ASSUME NEW s \in State \ {"Unknown"}
            PROVE  ~Has(Append(toController[t], s), "Unknown")
        BY <3>3, <4>2 DEF TaskMessage
      <4> QED BY <1>0, <3>2, <3>4, <4>1, <4>2 DEF Reporting
    <3> QED BY <1>0, <1>1, <3>5, TaskIsLocal
  <2>2. CASE created
    BY <2>0, <2>1, <2>2 DEF CreatedInv
  <2>3. CASE ~created
    <3>1. toTask[t] = << >> /\ tpc[t] \in {"constructing", "waiting"}
      BY <2>3 DEF CreatedInv
    <3>2. Construct(t) \/ ReceiveArgs(t)
      BY <1>1, <3>1 DEF TaskStep, TaskAction, Enter, EnterInitialize, EnterStart, EnterStop,
             EnterPause, EnterResume, RefuseStart, Arrived, Return, ReturnInitialize, ReturnStart,
             ReturnPause, ReturnResume, ReturnStop, Destroy, AskController, Report, SendResults, Callback
    <3>3. CASE Construct(t)
      <4>1. /\ toController' = [toController EXCEPT ![t] = Append(@, "Created")]
            /\ tpc' = [tpc EXCEPT ![t] = "waiting"]
            /\ toTask' = toTask
        BY <3>3 DEF Construct, SetState, SendStateToController, Post, Goto
      <4>2. \A i \in 1..Len(toController[t]) : toController[t][i] = "Created"
        BY <2>3 DEF CreatedInv
      <4>3. "Created" \in TaskMessage /\ toController[t] \in Seq(TaskMessage)
        BY DEF TaskMessage, State
      <4>4. \A i \in 1..Len(toController'[t]) : toController'[t][i] = "Created"
        BY <4>1, <4>2, <4>3
      <4> QED BY <2>0, <2>1, <2>3, <4>1, <4>4 DEF CreatedInv
    <3>4. CASE ReceiveArgs(t)
      BY <2>0, <2>1, <2>3, <3>4 DEF ReceiveArgs, CreatedInv
    <3> QED BY <3>2, <3>3, <3>4
  <2> QED BY <2>2, <2>3
<1>2. CASE ControllerStep
  <2>0. UNCHANGED tpc
    BY <1>2, ControllerReceives
  <2>1. ASSUME NEW t \in Tasks, Receiving(t)
        PROVE  /\ toController[t] # << >> /\ toController[t] \in Seq(TaskMessage)
               /\ toController'[t] = Tail(toController[t])
               /\ Head(toController[t]) # "Unknown"
               /\ \A u \in Tasks \ {t} : toController'[u] = toController[u]
               /\ \A u \in Tasks : tracker'[u] \in {tracker[u], Head(toController[t])}
    <3>1. toController[t] # << >> /\ toController[t] \in Seq(TaskMessage)
      BY <2>1 DEF Receiving
    <3>2. Has(toController[t], Head(toController[t]))
      BY <3>1, HasTail
    <3> QED BY <2>1, <3>1, <3>2 DEF Receiving, Take, CreatedInv
  <2>2. \A u \in Tasks : ~Has(toController'[u], "Unknown")
    <3>1. ASSUME NEW t \in Tasks, Receiving(t), NEW u \in Tasks
          PROVE  ~Has(toController'[u], "Unknown")
      <4>1. CASE u = t
        BY <1>0, <2>1, <3>1, <4>1, HasTail
      <4>2. CASE u # t
        BY <1>0, <2>1, <3>1, <4>2
      <4> QED BY <4>1, <4>2
    <3> QED BY <1>0, <1>2, <3>1, ControllerReceives
  <2>3. CASE CheckTracker
    <3>1. UNCHANGED <<tracker, toController>> /\ created' = NowCreated
      BY <2>3 DEF CheckTracker
    <3>2. CASE NowCreated
      <4>1. \A t \in Tasks : tracker[t] # "Unknown"
        BY <3>2 DEF NowCreated, AreAllCreated, CreatedInv
      <4> QED BY <2>2, <3>1, <3>2, <4>1 DEF CreatedInv
    <3>3. CASE ~NowCreated
      <4>1. ~created
        BY <3>3 DEF NowCreated
      <4>2. ~initialized /\ ~started /\ ~NowInitialized
        BY <3>3, <4>1 DEF CreatedInv, NowInitialized
      <4>3. NothingToRequest
        BY <1>2, <2>3, <3>3, <4>2 DEF ControllerStep, ControllerAction, CheckTracker, InitializeAllTasks,
               StartAllTasks, HookPasses, HookStopsTasks, HookSends, HookCall, DoActionState,
               DoActionRequestStop, DoActionRequestCmdLineArgs, DoActionRequestConfig, Receive,
               ConfirmStopRequest, ConfirmClosing
      <4>4. cpc' = "probe" /\ initialized' = FALSE /\ started' = FALSE /\ toTask' = toTask
        BY <2>3, <4>2, <4>3 DEF CheckTracker, NothingToRequest
      <4> QED BY <2>0, <2>2, <3>1, <3>3, <4>1, <4>4 DEF CreatedInv
    <3> QED BY <3>2, <3>3
  <2>4. CASE ~CheckTracker /\ created
    <3>1. created'
      BY <1>2, <2>4 DEF ControllerStep, ControllerAction, InitializeAllTasks, StartAllTasks,
             NothingToRequest, HookPasses, HookStopsTasks, HookSends, HookCall, DoActionState,
             DoActionRequestStop, DoActionRequestCmdLineArgs, DoActionRequestConfig, Receive,
             ConfirmStopRequest, ConfirmClosing, ReceiveConfirmation, flags
    <3>2. \A u \in Tasks : tracker'[u] # "Unknown"
      <4>1. \A u \in Tasks : tracker[u] # "Unknown"
        BY <2>4 DEF CreatedInv
      <4>2. CASE tracker' = tracker
        BY <4>1, <4>2
      <4>3. ASSUME NEW t \in Tasks, Receiving(t)
            PROVE  \A u \in Tasks : tracker'[u] # "Unknown"
        BY <2>1, <4>1, <4>3
      <4> QED BY <1>2, <4>2, <4>3, ControllerReceives
    <3> QED BY <2>2, <3>1, <3>2 DEF CreatedInv
  <2>5. CASE ~CheckTracker /\ ~created
    <3>1. cpc \in {"top", "probe"}
      BY <2>5 DEF CreatedInv
    <3>2. ASSUME NEW t \in Tasks, toController[t] # << >>
          PROVE  /\ Head(toController[t]) = "Created"
                 /\ \A i \in 1..Len(Tail(toController[t])) : Tail(toController[t])[i] = "Created"
      <4>1. /\ toController[t] \in Seq(TaskMessage)
            /\ \A i \in 1..Len(toController[t]) : toController[t][i] = "Created"
        BY <2>5 DEF CreatedInv
      <4>2. \A m : Has(Tail(toController[t]), m) => m = "Created"
        BY <3>2, <4>1, HasTail DEF Has
      <4> QED BY <3>2, <4>1, <4>2 DEF Has
    <3>3. PICK t \in Tasks : DoActionState(t)
      BY <1>2, <2>5, <3>1, <3>2 DEF ControllerStep, ControllerAction, InitializeAllTasks, StartAllTasks,
             NothingToRequest, HookPasses, HookStopsTasks, HookSends, HookCall,
             DoActionRequestStop, DoActionRequestCmdLineArgs, DoActionRequestConfig, Receive, Arrived,
             ConfirmStopRequest, ConfirmClosing
    <3>4. Head(idsToController[t]) = t
      <4>1. idsToController[t] \in Seq(IDNum) /\ idsToController[t] # << >>
        BY <3>3 DEF DoActionState, Receive, Arrived, Paired
      <4>2. AllAre(idsToController[t], t)
        BY <2>5 DEF CreatedInv, IDInv, IDsAreOwn, OwnID
      <4> QED BY <4>1, <4>2, AllAreTail
    <3>5. /\ toController[t] # << >>
          /\ toController' = Take(toController, t)
          /\ tracker' = [tracker EXCEPT ![t] = "Created"]
          /\ UNCHANGED <<toTask, created, initialized, started>>
          /\ AfterMessage(stateBB)
      BY <3>2, <3>3, <3>4 DEF DoActionState, Receive, Arrived, SetTaskState, TrackState, flags
    <3>6. cpc' = "top"
      <4>1. tracker'[t] = "Created"
        BY <3>5
      <4>2. ~AreAllStopped(tracker')
        BY <3>5, <4>1 DEF AreAllStopped, Ended
      <4> QED BY <3>5, <4>2 DEF AfterMessage
    <3>7. \A u \in Tasks : \A i \in 1..Len(toController'[u]) : toController'[u][i] = "Created"
      BY <2>5, <3>2, <3>5 DEF Take, CreatedInv
    <3> QED BY <2>0, <2>2, <2>5, <3>5, <3>6, <3>7 DEF CreatedInv
  <2> QED BY <2>3, <2>4, <2>5
<1>3. CASE Elsewhere
  BY <1>3, ElsewhereQuiet DEF CreatedInv
<1> QED BY <1>1, <1>2, <1>3, NextCases

LEMMA CreatedInvCorrect ==
  ASSUME CtorRequests = {}
  PROVE  Spec => []CreatedInv
<1>1. Init => CreatedInv
  BY DEF Init, NetworkInit, TaskInit, ControllerInit, NewTracker, CreatedInv, Has
<1>2. TypeOK /\ EndedLeave /\ IDInv /\ CreatedInv /\ [Next]_vars => CreatedInv'
  BY CreatedInvStep
<1> QED BY <1>1, <1>2, TypeCorrect, EndedLeaveCorrect, IDInvCorrect, PTL DEF Spec

\* ControllerOutlivesTasks: if no constructor of an adapter sends a request, and
\* no message that pauses or resumes a task brings a number that is not its ID,
\* the controller closes the job only when every task has ended.
THEOREM ControllerOutlivesTasksCorrect ==
  ASSUME ForeignIDs = {}, CtorRequests = {}
  PROVE  Spec => []ControllerOutlivesTasks
<1>1. CreatedInv /\ KnownTasksEnd => ControllerOutlivesTasks
  BY DEF CreatedInv, KnownTasksEnd, ControllerOutlivesTasks
<1> QED BY <1>1, CreatedInvCorrect, KnownTasksEndCorrect, PTL

-----------------------------------------------------------------------------
\* The blackboard: it is there for as long as the tasks are, and takes results
\* whose send waits for it.  The invariants.

\* Without requests to stop, the controller tells the blackboard to stop only
\* when it closes the job.
BoardInv ==
  /\ \A t \in Tasks : ~Has(toController[t], "RequestStop")
  /\ cpc # "confirming"
  /\ cpc \notin {"closing", "stopped"} =>
       bbpc = "listening" /\ ~Has(toBlackboard[ID_Master], "StopBlackboard")

\* A task whose long results have not been taken is still where it sends them.
WaitingInv == \A t \in LongSenders : Has(toBlackboard[t], "Results") => tpc[t] = "StartTask"

-----------------------------------------------------------------------------
\* What a task sends.

LEMMA ControllerHas ==
  ASSUME NEW chan \in [Tasks -> Seq(TaskMessage)], NEW t \in Tasks, NEW m \in TaskMessage
  PROVE  /\ Post(chan, t, m) \in [Tasks -> Seq(TaskMessage)]
         /\ Has(Post(chan, t, m)[t], "RequestStop") => m = "RequestStop" \/ Has(chan[t], "RequestStop")
<1>1. Post(chan, t, m)[t] = Append(chan[t], m) /\ chan[t] \in Seq(TaskMessage)
  BY DEF Post
<1>2. Post(chan, t, m) \in [Tasks -> Seq(TaskMessage)]
  BY DEF Post
<1> QED BY <1>1, <1>2, HasAppend

LEMMA BlackboardHas ==
  ASSUME NEW chan \in [Tasks \cup {ID_Master} -> Seq(BlackboardMessage)],
         NEW t \in Tasks, NEW m \in BlackboardMessage
  PROVE  /\ Post(chan, t, m) \in [Tasks \cup {ID_Master} -> Seq(BlackboardMessage)]
         /\ Has(Post(chan, t, m)[t], "Results") => m = "Results" \/ Has(chan[t], "Results")
<1>1. Post(chan, t, m)[t] = Append(chan[t], m) /\ chan[t] \in Seq(BlackboardMessage)
  BY DEF Post
<1>2. Post(chan, t, m) \in [Tasks \cup {ID_Master} -> Seq(BlackboardMessage)]
  BY DEF Post
<1> QED BY <1>1, <1>2, HasAppend

\* A step of a task that reports s says nothing else to the controller, one
\* that logs s nothing else to the blackboard.
LEMMA SetStateHas ==
  ASSUME TypeOK, NEW t \in Tasks, NEW s \in State, SetState(t, s)
  PROVE  Has(toController'[t], "RequestStop") => Has(toController[t], "RequestStop")
<1>1. s \in TaskMessage /\ s # "RequestStop"
  BY DEF TaskMessage, State
<1> QED BY <1>1, ControllerHas DEF SetState, SendStateToController, TypeOK, NetworkTypeOK

LEMMA LogStateHas ==
  ASSUME TypeOK, NEW t \in Tasks, LogState(t), state'[t] \in State
  PROVE  Has(toBlackboard'[t], "Results") => Has(toBlackboard[t], "Results")
<1>1. state'[t] \in BlackboardMessage /\ state'[t] # "Results" /\ t \in Tasks \cup {ID_Master}
  BY DEF BlackboardMessage, State
<1> QED BY <1>1, BlackboardHas DEF LogState, TypeOK, NetworkTypeOK

LEMMA TaskSends ==
  ASSUME TypeOK, TypeOK', NEW t \in Tasks, TaskStep(t)
  PROVE  /\ Has(toController'[t], "RequestStop") =>
              Has(toController[t], "RequestStop") \/ "RequestStop" \in CtorRequests \cup CallRequests
         /\ Has(toBlackboard'[t], "Results") =>
              Has(toBlackboard[t], "Results") \/ tpc'[t] = "StartTask"
<1>0. state'[t] \in State
  BY DEF TypeOK, TaskTypeOK
<1>1. CASE Construct(t)
  BY <1>1, SetStateHas DEF Construct, State
<1>2. ASSUME NEW tag, NEW c, Enter(t, tag, c)
      PROVE  UNCHANGED <<toController, toBlackboard>>
  BY <1>2 DEF Enter
<1>3. CASE EnterInitialize(t) \/ EnterStart(t) \/ EnterStop(t) \/ EnterPause(t) \/ EnterResume(t)
  BY <1>2, <1>3 DEF EnterInitialize, EnterStart, EnterStop, EnterPause, EnterResume
<1>4. CASE RefuseStart(t)
  <2>1. Has(toController'[t], "RequestStop") => Has(toController[t], "RequestStop")
    BY <1>4, SetStateHas DEF RefuseStart, State
  <2> DEFINE first == Post(toBlackboard, t, "InitializationFailed")
  <2>2. /\ first \in [Tasks \cup {ID_Master} -> Seq(BlackboardMessage)]
        /\ t \in Tasks \cup {ID_Master}
        /\ "InitializationFailed" \in BlackboardMessage /\ "Error" \in BlackboardMessage
    BY DEF TypeOK, NetworkTypeOK, Post, BlackboardMessage, State
  <2>3. toBlackboard \in [Tasks \cup {ID_Master} -> Seq(BlackboardMessage)]
    BY DEF TypeOK, NetworkTypeOK
  <2>4. Has(first[t], "Results") => Has(toBlackboard[t], "Results")
    BY <2>2, <2>3, BlackboardHas
  <2>5. Has(Post(first, t, "Error")[t], "Results") => Has(first[t], "Results")
    <3> HIDE DEF first
    <3>1. "Error" # "Results"
      OBVIOUS
    <3> QED BY <2>2, <3>1, BlackboardHas
  <2> QED BY <1>4, <2>1, <2>4, <2>5 DEF RefuseStart
<1>5. ASSUME NEW c \in Callback, Return(t, c)
      PROVE  /\ Has(toController'[t], "RequestStop") => Has(toController[t], "RequestStop")
             /\ Has(toBlackboard'[t], "Results") => Has(toBlackboard[t], "Results")
  <2>1. PICK s \in Results[c] : SetState(t, s)
    BY <1>5 DEF Return
  <2>2. s \in State
    BY <2>1, ResultsAssumption
  <2> QED BY <1>0, <1>5, <2>1, <2>2, SetStateHas, LogStateHas DEF Return
<1>6. CASE ReturnInitialize(t) \/ ReturnStart(t) \/ ReturnPause(t) \/ ReturnResume(t)
  BY <1>5, <1>6 DEF ReturnInitialize, ReturnStart, ReturnPause, ReturnResume, Callback
<1>7. CASE ReturnStop(t)
  <2>1. PICK s \in Results["StopTask"] : ForceStop(t, s)
    BY <1>7 DEF ReturnStop
  <2>2. s \in State
    BY <2>1, ResultsAssumption DEF Callback
  <2>3. Has(toController'[t], "RequestStop") => Has(toController[t], "RequestStop")
    <3>1. CASE s \in {"Completed", "Terminated"}
      BY <2>1, <2>2, <3>1, SetStateHas DEF ForceStop
    <3>2. CASE s \notin {"Completed", "Terminated"}
      <4> DEFINE first == Post(toController, t, s)
      <4>1. /\ toController \in [Tasks -> Seq(TaskMessage)]
            /\ s \in TaskMessage /\ s # "RequestStop"
            /\ "Terminated" \in TaskMessage
        BY <2>2 DEF TypeOK, NetworkTypeOK, TaskMessage, State
      <4>2. first \in [Tasks -> Seq(TaskMessage)]
        BY <4>1 DEF Post
      <4>3. Has(first[t], "RequestStop") => Has(toController[t], "RequestStop")
        BY <4>1, ControllerHas
      <4>4. Has(Post(first, t, "Terminated")[t], "RequestStop") => Has(first[t], "RequestStop")
        <5> HIDE DEF first
        <5> QED BY <4>1, <4>2, ControllerHas
      <4> QED BY <2>1, <3>2, <4>3, <4>4 DEF ForceStop, SendStatesToController
    <3> QED BY <3>1, <3>2
  <2> QED BY <1>0, <1>7, <2>3, LogStateHas DEF ReturnStop
<1>8. CASE Destroy(t)
  BY <1>8, SetStateHas DEF Destroy, State
<1>9. ASSUME NEW q \in Request, AskController(t, q)
      PROVE  /\ Has(toController'[t], "RequestStop") =>
                  Has(toController[t], "RequestStop") \/ "RequestStop" \in CtorRequests \cup CallRequests
             /\ toBlackboard' = toBlackboard
  <2>1. q \in CtorRequests \cup CallRequests /\ toController' = Post(toController, t, q) /\ toBlackboard' = toBlackboard
    BY <1>9 DEF AskController
  <2>2. q \in TaskMessage
    BY DEF TaskMessage
  <2>3. Has(Post(toController, t, q)[t], "RequestStop") =>
          q = "RequestStop" \/ Has(toController[t], "RequestStop")
    BY <2>2, ControllerHas DEF TypeOK, NetworkTypeOK
  <2> QED BY <2>1, <2>3
<1>10. CASE ReceiveArgs(t)
  BY <1>10 DEF ReceiveArgs
<1>11. ASSUME NEW s \in ReportStates, Report(t, s)
       PROVE  /\ Has(toController'[t], "RequestStop") => Has(toController[t], "RequestStop")
              /\ toBlackboard' = toBlackboard
  <2>1. s \in State
    BY ResultsAssumption DEF State
  <2> QED BY <1>11, <2>1, SetStateHas DEF Report
<1>12. CASE SendResults(t)
  BY <1>12 DEF SendResults
<1> QED
  BY <1>1, <1>3, <1>4, <1>6, <1>7, <1>8, <1>9, <1>10, <1>11, <1>12 DEF TaskStep, TaskAction

LEMMA TaskKeepsTo ==
  ASSUME TypeOK, NEW t \in Tasks, TaskStep(t)
  PROVE  /\ \A p \in (Tasks \cup {ID_Master}) \ {t} : toBlackboard'[p] = toBlackboard[p]
         /\ tpc[t] = "gone" => tpc'[t] = "gone"
<1> USE DEF TypeOK, NetworkTypeOK, TaskTypeOK
<1>1. CASE Construct(t) \/ Destroy(t) \/ ReceiveArgs(t) \/ SendResults(t) \/ RefuseStart(t)
  BY <1>1 DEF Construct, Destroy, ReceiveArgs, SendResults, RefuseStart, Goto, Post
<1>2. CASE EnterInitialize(t) \/ EnterStart(t) \/ EnterStop(t) \/ EnterPause(t) \/ EnterResume(t)
  BY <1>2 DEF EnterInitialize, EnterStart, EnterStop, EnterPause, EnterResume, Enter
<1>3. CASE ReturnInitialize(t) \/ ReturnStart(t) \/ ReturnPause(t) \/ ReturnResume(t) \/ ReturnStop(t)
  BY <1>3 DEF ReturnInitialize, ReturnStart, ReturnPause, ReturnResume, ReturnStop, Return, LogState, Post
<1>4. ASSUME NEW q \in Request, AskController(t, q) PROVE UNCHANGED <<toBlackboard, tpc>>
  BY <1>4 DEF AskController
<1>5. ASSUME NEW s \in ReportStates, Report(t, s) PROVE UNCHANGED <<toBlackboard, tpc>>
  BY <1>5 DEF Report
<1> QED BY <1>1, <1>2, <1>3, <1>4, <1>5 DEF TaskStep, TaskAction

-----------------------------------------------------------------------------
\* What the controller and the blackboard receive.

LEMMA ControllerTakes ==
  ASSUME TypeOK, ControllerStep, NEW t \in Tasks
  PROVE  Has(toController'[t], "RequestStop") => Has(toController[t], "RequestStop")
<1>1. CASE toController' = toController
  BY <1>1
<1>2. ASSUME NEW u \in Tasks, Receiving(u)
      PROVE  Has(toController'[t], "RequestStop") => Has(toController[t], "RequestStop")
  <2>1. toController[t] \in Seq(TaskMessage) /\ toController[u] \in Seq(TaskMessage) /\ toController[u] # << >>
    BY <1>2 DEF TypeOK, NetworkTypeOK, Receiving
  <2>2. toController'[t] = IF t = u THEN Tail(toController[t]) ELSE toController[t]
    BY <1>2 DEF Receiving, Take, TypeOK, NetworkTypeOK
  <2> QED BY <2>1, <2>2, HasTail
<1> QED BY <1>1, <1>2, ControllerReceives

LEMMA AfterMessageKeepsTo ==
  ASSUME TypeOK, NEW bb, AfterMessage(bb)
  PROVE  \A t \in Tasks : toBlackboard'[t] = toBlackboard[t]
BY RanksAssumption DEF AfterMessage, Post, TypeOK, NetworkTypeOK

LEMMA ControllerKeepsTo ==
  ASSUME TypeOK, ControllerStep
  PROVE  \A t \in Tasks : toBlackboard'[t] = toBlackboard[t]
<1>1. CASE InitializeAllTasks \/ StartAllTasks \/ NothingToRequest
  BY <1>1 DEF InitializeAllTasks, StartAllTasks, NothingToRequest, CheckTracker
<1>2. CASE HookPasses \/ HookStopsTasks \/ \E t \in Tasks, m \in ActiveSends : HookSends(t, m)
  BY <1>2 DEF HookPasses, HookStopsTasks, HookSends, HookCall, networkVars
<1>3. ASSUME NEW t \in Tasks,
             DoActionState(t) \/ DoActionRequestCmdLineArgs(t) \/ DoActionRequestConfig(t)
      PROVE  AfterMessage(stateBB)
  BY <1>3 DEF DoActionState, DoActionRequestCmdLineArgs, DoActionRequestConfig
<1>4. ASSUME NEW t \in Tasks, DoActionRequestStop(t)
      PROVE  \A u \in Tasks : toBlackboard'[u] = toBlackboard[u]
  <2>1. CASE stateBB = "Completed"
    BY <1>4, <2>1, AfterMessageKeepsTo DEF DoActionRequestStop
  <2>2. CASE stateBB # "Completed"
    BY <1>4, <2>2, RanksAssumption DEF DoActionRequestStop, Post, TypeOK, NetworkTypeOK
  <2> QED BY <2>1, <2>2
<1>5. CASE ConfirmStopRequest
  BY <1>5, AfterMessageKeepsTo DEF ConfirmStopRequest
<1>6. CASE ConfirmClosing
  BY <1>6 DEF ConfirmClosing
<1> QED
  BY <1>1, <1>2, <1>3, <1>4, <1>5, <1>6, AfterMessageKeepsTo DEF ControllerStep, ControllerAction

\* Without a request to stop it sends Tag_StopBlackboard when it closes the job.
LEMMA ControllerStops ==
  ASSUME TypeOK, BoardInv, ControllerStep
  PROVE  /\ cpc' # "confirming"
         /\ cpc' \notin {"closing", "stopped"} =>
              cpc \notin {"closing", "stopped"} /\ toBlackboard' = toBlackboard
<1>1. CASE InitializeAllTasks \/ StartAllTasks \/ NothingToRequest
  BY <1>1 DEF InitializeAllTasks, StartAllTasks, NothingToRequest, CheckTracker
<1>2. CASE HookPasses \/ HookStopsTasks \/ \E t \in Tasks, m \in ActiveSends : HookSends(t, m)
  BY <1>2 DEF HookPasses, HookStopsTasks, HookSends, HookCall, networkVars
<1>3. ASSUME NEW t \in Tasks,
             DoActionState(t) \/ DoActionRequestCmdLineArgs(t) \/ DoActionRequestConfig(t)
      PROVE  cpc = "probe" /\ AfterMessage(stateBB)
  BY <1>3 DEF DoActionState, DoActionRequestCmdLineArgs, DoActionRequestConfig, Receive
<1>4. ASSUME cpc = "probe", AfterMessage(stateBB)
      PROVE  /\ cpc' \in {"top", "closing", "stopped"}
             /\ cpc' = "top" => toBlackboard' = toBlackboard
  BY <1>4 DEF AfterMessage
<1>5. ASSUME NEW t \in Tasks, DoActionRequestStop(t)
      PROVE  FALSE
  <2>1. toController[t] \in Seq(TaskMessage) /\ toController[t] # << >> /\ Head(toController[t]) = "RequestStop"
    BY <1>5 DEF DoActionRequestStop, Receive, Arrived, TypeOK, NetworkTypeOK
  <2> QED BY <2>1, HasTail DEF BoardInv
<1>6. CASE ConfirmStopRequest \/ ConfirmClosing
  BY <1>6 DEF ConfirmStopRequest, ConfirmClosing, BoardInv
<1> QED BY <1>1, <1>2, <1>3, <1>4, <1>5, <1>6 DEF ControllerStep, ControllerAction

LEMMA BlackboardTakes ==
  ASSUME TypeOK, BlackboardStep
  PROVE  /\ UNCHANGED <<toController, tpc, cpc, exited>>
         /\ \/ toBlackboard'[ID_Master] = toBlackboard[ID_Master] /\ bbpc' = bbpc
            \/ Has(toBlackboard[ID_Master], "StopBlackboard")
         /\ \A t \in Tasks : Has(toBlackboard'[t], "Results") => Has(toBlackboard[t], "Results")
<1> USE RanksAssumption
<1>1. UNCHANGED <<toController, tpc, cpc, exited>>
  BY DEF BlackboardStep, BlackboardAction, ReceiveEntry, Stop, taskVars, controllerVars
<1>2. PICK p \in Tasks \cup {ID_Master} :
        /\ toBlackboard[p] # << >> /\ toBlackboard' = Take(toBlackboard, p)
        /\ (p \in Tasks /\ bbpc' = bbpc) \/ (p = ID_Master /\ Head(toBlackboard[p]) = "StopBlackboard")
  BY DEF BlackboardStep, BlackboardAction, ReceiveEntry, ReceiveAndLog, HandleOutputMessage, Stop, Arrived
<1>3. \A q \in Tasks \cup {ID_Master} : toBlackboard[q] \in Seq(BlackboardMessage)
  BY DEF TypeOK, NetworkTypeOK
<1>4. \A q \in Tasks \cup {ID_Master} :
        toBlackboard'[q] = IF q = p THEN Tail(toBlackboard[q]) ELSE toBlackboard[q]
  BY <1>2 DEF Take, TypeOK, NetworkTypeOK
<1>5. \A t \in Tasks : Has(toBlackboard'[t], "Results") => Has(toBlackboard[t], "Results")
  BY <1>2, <1>3, <1>4, HasTail
<1>6. \/ toBlackboard'[ID_Master] = toBlackboard[ID_Master] /\ bbpc' = bbpc
      \/ Has(toBlackboard[ID_Master], "StopBlackboard")
  BY <1>2, <1>3, <1>4, HasTail
<1> QED BY <1>1, <1>5, <1>6

-----------------------------------------------------------------------------
\* The theorems.

LEMMA BoardInvStep ==
  ASSUME "RequestStop" \notin CtorRequests \cup CallRequests,
         TypeOK, TypeOK', BoardInv, [Next]_vars
  PROVE  BoardInv'
<1>1. ASSUME NEW t \in Tasks, TaskStep(t) PROVE BoardInv'
  <2>1. cpc' = cpc /\ bbpc' = bbpc
    BY <1>1 DEF TaskStep, controllerVars
  <2>2. toBlackboard'[ID_Master] = toBlackboard[ID_Master]
    BY <1>1, TaskKeepsTo, RanksAssumption
  <2>3. ASSUME NEW u \in Tasks PROVE ~Has(toController'[u], "RequestStop")
    <3>1. CASE u = t
      BY <1>1, <3>1, TaskSends DEF BoardInv
    <3>2. CASE u # t
      BY <1>1, <3>2, TaskIsLocal DEF BoardInv
    <3> QED BY <3>1, <3>2
  <2> QED BY <2>1, <2>2, <2>3 DEF BoardInv
<1>2. CASE ControllerStep
  <2>1. bbpc' = bbpc
    BY <1>2 DEF ControllerStep
  <2> QED BY <1>2, <2>1, ControllerTakes, ControllerStops DEF BoardInv
<1>3. CASE BlackboardStep
  BY <1>3, BlackboardTakes DEF BoardInv
<1>4. CASE Finalize \/ UNCHANGED vars
  BY <1>4 DEF Finalize, vars, networkVars, taskVars, controllerVars, BoardInv
<1> QED BY <1>1, <1>2, <1>3, <1>4, NextCases DEF Elsewhere

\* BlackboardOutlivesTasks: where, besides, no task asks to stop, the blackboard
\* stops only when every task has ended.
THEOREM BlackboardOutlivesTasksCorrect ==
  ASSUME ForeignIDs = {}, CtorRequests = {}, "RequestStop" \notin CallRequests
  PROVE  Spec => []BlackboardOutlivesTasks
<1>1. Init => BoardInv
  BY DEF Init, NetworkInit, TaskInit, ControllerInit, BlackboardInit, BoardInv, Has
<1>2. TypeOK /\ TypeOK' /\ BoardInv /\ [Next]_vars => BoardInv'
  BY BoardInvStep
<1>3. BoardInv /\ ControllerOutlivesTasks => BlackboardOutlivesTasks
  BY DEF BoardInv, ControllerOutlivesTasks, BlackboardOutlivesTasks
<1> QED BY <1>1, <1>2, <1>3, TypeCorrect, ControllerOutlivesTasksCorrect, PTL DEF Spec

LEMMA WaitingInvStep == TypeOK /\ TypeOK' /\ WaitingInv /\ [Next]_vars => WaitingInv'
<1> SUFFICES ASSUME TypeOK, TypeOK', WaitingInv, [Next]_vars
             PROVE  WaitingInv'
  OBVIOUS
<1> USE RequestsAssumption
<1>1. ASSUME NEW t \in Tasks, TaskStep(t) PROVE WaitingInv'
  <2>1. \A u \in Tasks \ {t} : toBlackboard'[u] = toBlackboard[u] /\ tpc'[u] = tpc[u]
    BY <1>1, TaskKeepsTo, TaskIsLocal
  <2>2. t \in LongSenders => ~Has(toBlackboard[t], "Results")
    BY <1>1 DEF TaskStep, SendWaits, Pending, Has
  <2>3. Has(toBlackboard'[t], "Results") => Has(toBlackboard[t], "Results") \/ tpc'[t] = "StartTask"
    BY <1>1, TaskSends
  <2> QED BY <2>1, <2>2, <2>3 DEF WaitingInv
<1>2. CASE ControllerStep
  <2>1. tpc' = tpc
    BY <1>2 DEF ControllerStep, taskVars
  <2>2. \A t \in Tasks : toBlackboard'[t] = toBlackboard[t]
    BY <1>2, ControllerKeepsTo
  <2> QED BY <2>1, <2>2 DEF WaitingInv
<1>3. CASE BlackboardStep
  BY <1>3, BlackboardTakes DEF WaitingInv
<1>4. CASE Finalize \/ UNCHANGED vars
  BY <1>4 DEF Finalize, vars, networkVars, taskVars, WaitingInv
<1> QED BY <1>1, <1>2, <1>3, <1>4, NextCases DEF Elsewhere

\* NoSenderIsLeft: under the same assumptions the blackboard does not stop while
\* a task waits for it to receive its results.  The controller, which stops it,
\* hears of the task's end only when that wait is over.
THEOREM NoSenderIsLeftCorrect ==
  ASSUME ForeignIDs = {}, CtorRequests = {}, "RequestStop" \notin CallRequests
  PROVE  Spec => []NoSenderIsLeft
<1>1. Init => WaitingInv
  BY RequestsAssumption DEF Init, NetworkInit, WaitingInv, Has
<1>2. WaitingInv /\ EndedLeave /\ BlackboardOutlivesTasks => NoSenderIsLeft
  BY RequestsAssumption
     DEF WaitingInv, EndedLeave, BlackboardOutlivesTasks, NoSenderIsLeft, SendWaits, Pending, Has
<1> QED
  BY <1>1, <1>2, WaitingInvStep, TypeCorrect, EndedLeaveCorrect, BlackboardOutlivesTasksCorrect, PTL
     DEF Spec

=============================================================================
