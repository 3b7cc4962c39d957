---------------------------- MODULE MTBMPIProofs ----------------------------
(***************************************************************************)
(* Theorems about MTBMPI, for every set of tasks, every application the    *)
(* assumptions on the constants allow, and every bound.                    *)
(***************************************************************************)
EXTENDS MTBMPI, TLAPS

-----------------------------------------------------------------------------
\* Channels.

LEMMA PostType ==
  ASSUME NEW P, NEW M, NEW chan \in [P -> Seq(M)], NEW p \in P, NEW m \in M
  PROVE  Post(chan, p, m) \in [P -> Seq(M)]
BY DEF Post

LEMMA TakeType ==
  ASSUME NEW P, NEW M, NEW chan \in [P -> Seq(M)], NEW p \in P, chan[p] # << >>
  PROVE  Take(chan, p) \in [P -> Seq(M)]
BY DEF Take

LEMMA PostPaired ==
  ASSUME NEW M, NEW N, NEW chan \in [Tasks -> Seq(M)], NEW ids \in [Tasks -> Seq(N)],
         Paired(chan, ids), NEW p \in Tasks, NEW m \in M, NEW n \in N
  PROVE  Paired(Post(chan, p, m), Post(ids, p, n))
<1>1. Len(Append(chan[p], m)) = Len(chan[p]) + 1 /\ Len(Append(ids[p], n)) = Len(ids[p]) + 1
  OBVIOUS
<1> QED BY <1>1 DEF Post, Paired

LEMMA TakePaired ==
  ASSUME NEW M, NEW N, NEW chan \in [Tasks -> Seq(M)], NEW ids \in [Tasks -> Seq(N)],
         Paired(chan, ids), NEW p \in Tasks, chan[p] # << >>
  PROVE  /\ Paired(Take(chan, p), Take(ids, p))
         /\ Take(ids, p) \in [Tasks -> Seq(N)]
<1>1. Len(chan[p]) # 0 /\ Len(ids[p]) = Len(chan[p])
  BY DEF Paired
<1>2. ids[p] # << >>
  BY <1>1
<1>3. Len(Tail(chan[p])) = Len(chan[p]) - 1 /\ Len(Tail(ids[p])) = Len(ids[p]) - 1
  BY <1>2
<1>4. Paired(Take(chan, p), Take(ids, p))
  BY <1>1, <1>3 DEF Take, Paired
<1> QED BY <1>2, <1>4, TakeType

\* What a step can put into a channel after a send and after a receive.
LEMMA PostElements ==
  ASSUME NEW P, NEW M, NEW chan \in [P -> Seq(M)], NEW p \in P, NEW m \in M,
         NEW q \in P, NEW i \in 1..Len(Post(chan, p, m)[q])
  PROVE  \/ i \in 1..Len(chan[q]) /\ Post(chan, p, m)[q][i] = chan[q][i]
         \/ q = p /\ Post(chan, p, m)[q][i] = m
BY DEF Post

LEMMA TakeElements ==
  ASSUME NEW P, NEW M, NEW chan \in [P -> Seq(M)], NEW p \in P, chan[p] # << >>,
         NEW q \in P, NEW i \in 1..Len(Take(chan, p)[q])
  PROVE  \E j \in 1..Len(chan[q]) : Take(chan, p)[q][i] = chan[q][j]
<1>1. CASE q = p
  <2>1. Take(chan, p)[q] = Tail(chan[q])  BY <1>1 DEF Take
  <2>2. chan[q] \in Seq(M) /\ chan[q] # << >>  BY <1>1
  <2>3. i + 1 \in 1..Len(chan[q]) /\ Tail(chan[q])[i] = chan[q][i + 1]  BY <2>1, <2>2
  <2> QED BY <2>1, <2>3
<1>2. CASE q # p
  <2>1. Take(chan, p)[q] = chan[q]  BY <1>2 DEF Take
  <2> QED BY <2>1
<1> QED BY <1>1, <1>2

-----------------------------------------------------------------------------
\* Type correctness, one lemma for each process.

LEMMA TaskStepType ==
  ASSUME TypeOK, NEW t \in Tasks, TaskStep(t)
  PROVE  TypeOK'
<1> USE RanksAssumption, ResultsAssumption, RequestsAssumption DEF TypeOK, NetworkTypeOK, TaskTypeOK
<1>0. ControllerTypeOK' /\ BlackboardTypeOK' /\ (exited \in BOOLEAN)'
  BY DEF TaskStep, controllerVars, ControllerTypeOK, BlackboardTypeOK
<1>id. /\ bufferID[t] \in IDNum /\ t \in IDNum
       /\ \A id \in IDNum : Post(idsToController, t, id) \in [Tasks -> Seq(IDNum)]
  BY PostType DEF IDNum
<1>1. \A s \in State :
        SetState(t, s) => /\ state' \in [Tasks -> State]
                          /\ state'[t] = s
                          /\ toController' \in [Tasks -> Seq(TaskMessage)]
                          /\ idsToController' \in [Tasks -> Seq(IDNum)]
                          /\ Paired(toController, idsToController)'
                          /\ bufferID' = bufferID
  <2> SUFFICES ASSUME NEW s \in State, SetState(t, s)
               PROVE  /\ state' \in [Tasks -> State]
                      /\ state'[t] = s
                      /\ toController' \in [Tasks -> Seq(TaskMessage)]
                      /\ idsToController' \in [Tasks -> Seq(IDNum)]
                      /\ Paired(toController, idsToController)'
                      /\ bufferID' = bufferID
    OBVIOUS
  <2>1. s \in TaskMessage  BY DEF TaskMessage
  <2>2. Post(toController, t, s) \in [Tasks -> Seq(TaskMessage)]  BY <2>1, PostType
  <2>3. Paired(Post(toController, t, s), Post(idsToController, t, bufferID[t]))
    <3>1. /\ toController \in [Tasks -> Seq(TaskMessage)]
          /\ idsToController \in [Tasks -> Seq(IDNum)]
          /\ Paired(toController, idsToController)
      OBVIOUS
    <3> QED BY ONLY <1>id, <2>1, <3>1, t \in Tasks, PostPaired
  <2> QED BY <1>id, <2>2, <2>3 DEF SetState, SendStateToController
<1>2. state'[t] \in State /\ LogState(t) =>
        toBlackboard' \in [Tasks \cup {ID_Master} -> Seq(BlackboardMessage)]
  <2> SUFFICES ASSUME state'[t] \in State
               PROVE  Post(toBlackboard, t, state'[t])
                        \in [Tasks \cup {ID_Master} -> Seq(BlackboardMessage)]
    BY DEF LogState
  <2>1. state'[t] \in BlackboardMessage  BY DEF BlackboardMessage
  <2> QED BY <2>1, PostType
<1>spend. Spend(t) => budget' \in [Tasks -> 0..MaxRequests]
  <2>1. budget[t] \in 0..MaxRequests /\ MaxRequests \in Nat  OBVIOUS
  <2>2. budget[t] > 0 => budget[t] - 1 \in 0..MaxRequests  BY <2>1
  <2> QED BY <2>2 DEF Spend
<1>3. CASE Construct(t)
  BY <1>0, <1>1, <1>3 DEF Construct, Goto, State
<1>buffer. ReceiveIntoBuffer(t) => bufferID' \in [Tasks -> IDNum]
  BY <1>id DEF ReceiveIntoBuffer, IDNum
<1>4. ASSUME NEW tag \in ControlTag, NEW c \in Callback, Enter(t, tag, c),
             UNCHANGED bufferID \/ ReceiveIntoBuffer(t)
      PROVE  TypeOK'
  <2>1. bufferID' \in [Tasks -> IDNum]
    BY <1>4, <1>buffer
  <2> QED BY <1>0, <1>4, <2>1, TakeType DEF Enter, Arrived, Goto
<1>5. CASE EnterInitialize(t) \/ EnterStart(t) \/ EnterStop(t) \/ EnterPause(t) \/ EnterResume(t)
  BY <1>4, <1>5 DEF EnterInitialize, EnterStart, EnterStop, EnterPause, EnterResume,
                    ControlTag, Callback
<1>6. CASE RefuseStart(t)
  <2>1. toTask' \in [Tasks -> Seq(ControllerMessage)]
    BY <1>6, TakeType DEF RefuseStart, Arrived
  <2>2. toBlackboard' \in [Tasks \cup {ID_Master} -> Seq(BlackboardMessage)]
    <3>1. Post(toBlackboard, t, "InitializationFailed")
            \in [Tasks \cup {ID_Master} -> Seq(BlackboardMessage)]
      BY PostType DEF BlackboardMessage
    <3> QED BY <1>6, <3>1, PostType DEF RefuseStart, BlackboardMessage, State
  <2> QED BY <1>0, <1>1, <1>6, <2>1, <2>2 DEF RefuseStart, Goto, State
<1>7. ASSUME NEW c \in Callback, Return(t, c)
      PROVE  TypeOK'
  <2>1. PICK s \in Results[c] :
          /\ SetState(t, s)
          /\ readied' = IF s = "Initialized" THEN readied \cup {t} ELSE readied
    BY <1>7 DEF Return
  <2>2. s \in State  BY <2>1
  <2>3. readied' \subseteq Tasks  BY <2>1
  <2>4. tpc' \in [Tasks -> Callback \cup {"constructing", "waiting", "leaving", "gone"}]
    BY <1>7 DEF Return, LeaveOrWait, Goto
  <2> QED BY <1>0, <1>1, <1>2, <1>7, <2>1, <2>2, <2>3, <2>4 DEF Return
<1>8. CASE ReturnInitialize(t) \/ ReturnStart(t) \/ ReturnPause(t) \/ ReturnResume(t)
  BY <1>7, <1>8 DEF ReturnInitialize, ReturnStart, ReturnPause, ReturnResume, Callback
<1>9. CASE ReturnStop(t)
  <2>1. PICK s \in Results["StopTask"] : ForceStop(t, s)
    BY <1>9 DEF ReturnStop
  <2>2. s \in State  BY <2>1 DEF Callback
  <2>3. /\ state' \in [Tasks -> State]
        /\ state'[t] \in State
        /\ toController' \in [Tasks -> Seq(TaskMessage)]
        /\ idsToController' \in [Tasks -> Seq(IDNum)]
        /\ Paired(toController, idsToController)'
        /\ bufferID' = bufferID
    <3>1. CASE s \in {"Completed", "Terminated"}
      BY <1>1, <2>1, <2>2, <3>1 DEF ForceStop
    <3>2. CASE s \notin {"Completed", "Terminated"}
      <4>1. Post(toController, t, s) \in [Tasks -> Seq(TaskMessage)]
        BY <2>2, PostType DEF TaskMessage
      <4>2. Post(Post(toController, t, s), t, "Terminated") \in [Tasks -> Seq(TaskMessage)]
        BY <4>1, PostType DEF TaskMessage, State
      <4>3. Post(Post(idsToController, t, bufferID[t]), t, bufferID[t]) \in [Tasks -> Seq(IDNum)]
        BY <1>id, PostType
      <4>4. Paired(Post(Post(toController, t, s), t, "Terminated"),
                   Post(Post(idsToController, t, bufferID[t]), t, bufferID[t]))
        <5>1. /\ s \in TaskMessage /\ "Terminated" \in TaskMessage
              /\ Post(idsToController, t, bufferID[t]) \in [Tasks -> Seq(IDNum)]
          BY <1>id, <2>2 DEF TaskMessage, State
        <5>2. Paired(Post(toController, t, s), Post(idsToController, t, bufferID[t]))
          BY <1>id, <5>1, PostPaired
        <5> QED BY <1>id, <4>1, <5>1, <5>2, PostPaired
      <4> QED BY <2>1, <3>2, <4>2, <4>3, <4>4 DEF ForceStop, SendStatesToController, State
    <3> QED BY <3>1, <3>2
  <2>4. toTask' \in [Tasks -> Seq(ControllerMessage)]
    <3>1. PICK k \in 0..DiscardChecks :
            /\ k <= Len(toTask[t])
            /\ toTask' = [toTask EXCEPT ![t] = SubSeq(@, k + 1, Len(@))]
      BY <1>9 DEF ReturnStop
    <3>2. SubSeq(toTask[t], k + 1, Len(toTask[t])) \in Seq(ControllerMessage)
      BY <3>1 DEF DiscardChecks
    <3> QED BY <3>1, <3>2
  <2>5. tpc' \in [Tasks -> Callback \cup {"constructing", "waiting", "leaving", "gone"}]
    BY <1>9 DEF ReturnStop, LeaveOrWait, Goto
  <2> QED BY <1>0, <1>2, <1>9, <2>3, <2>4, <2>5 DEF ReturnStop
<1>10. CASE Destroy(t)
  BY <1>0, <1>1, <1>10 DEF Destroy, Goto, State
<1>11. ASSUME NEW q \in Request, AskController(t, q)
       PROVE  TypeOK'
  <2>1. q \in TaskMessage  BY DEF TaskMessage
  <2>2. Post(toController, t, q) \in [Tasks -> Seq(TaskMessage)]  BY <2>1, PostType
  <2>p. Paired(Post(toController, t, q), Post(idsToController, t, t))
    BY <1>id, <2>1, PostPaired
  <2>3. (q = "RequestCmdLineArgs") \in BOOLEAN  OBVIOUS
  <2>4. asking' \in [Tasks -> BOOLEAN]  BY <1>11, <2>3 DEF AskController
  <2> QED BY <1>0, <1>11, <1>id, <1>spend, <2>2, <2>p, <2>4 DEF AskController
<1>12. CASE ReceiveArgs(t)
  BY <1>0, <1>12 DEF ReceiveArgs
<1>13. ASSUME NEW s \in ReportStates, Report(t, s)
       PROVE  TypeOK'
  <2>1. s \in State  BY DEF State
  <2> QED BY <1>0, <1>1, <1>13, <1>spend, <2>1 DEF Report
<1>14. CASE SendResults(t)
  <2>1. Post(toBlackboard, t, "Results") \in [Tasks \cup {ID_Master} -> Seq(BlackboardMessage)]
    BY PostType DEF BlackboardMessage
  <2> QED BY <1>0, <1>14, <1>spend, <2>1 DEF SendResults
<1> QED
  BY <1>3, <1>5, <1>6, <1>8, <1>9, <1>10, <1>11, <1>12, <1>13, <1>14 DEF TaskStep, TaskAction

LEMMA AfterMessageType ==
  ASSUME NetworkTypeOK, NEW bb, AfterMessage(bb)
  PROVE  /\ cpc' \in {"top", "closing", "stopped"}
         /\ toBlackboard' \in [Tasks \cup {ID_Master} -> Seq(BlackboardMessage)]
<1>1. Post(toBlackboard, ID_Master, "StopBlackboard")
        \in [Tasks \cup {ID_Master} -> Seq(BlackboardMessage)]
  BY PostType DEF NetworkTypeOK, BlackboardMessage
<1> QED BY <1>1 DEF AfterMessage, NetworkTypeOK

LEMMA StopAllTasksType ==
  ASSUME NetworkTypeOK, StopAllTasks
  PROVE  toTask' \in [Tasks -> Seq(ControllerMessage)]
BY DEF StopAllTasks, NetworkTypeOK, ControllerMessage, ControlTag

LEMMA ControllerStepType ==
  ASSUME TypeOK, ControllerStep
  PROVE  TypeOK'
<1> USE RanksAssumption, HooksAssumption DEF TypeOK, NetworkTypeOK, ControllerTypeOK
<1>0. TaskTypeOK' /\ BlackboardTypeOK' /\ (exited \in BOOLEAN)'
  BY DEF ControllerStep, taskVars, TaskTypeOK, BlackboardTypeOK
<1>1. CheckTracker =>
        /\ created' \in BOOLEAN
        /\ initialized' \in BOOLEAN
        /\ cpc' \in {"hook", "probe"}
  BY DEF CheckTracker, NowCreated, NowInitialized, AreAllCreated, AreAllInitialized
<1>2. CASE InitializeAllTasks
  <2>1. toTask' \in [Tasks -> Seq(ControllerMessage)]
    BY <1>2 DEF InitializeAllTasks, ControllerMessage, ControlTag
  <2> QED BY <1>0, <1>1, <1>2, <2>1 DEF InitializeAllTasks, CheckTracker
<1>3. CASE StartAllTasks
  <2>1. PICK first \in {<< >>} \cup {<<m>> : m \in BeforeStartSends} :
          toTask' = [t \in Tasks |-> toTask[t] \o Append(first, "StartTask")]
    BY <1>3 DEF StartAllTasks
  <2>2. Append(first, "StartTask") \in Seq(ControllerMessage)
    <3>1. first \in Seq(ControllerMessage)
      <4>1. CASE first = << >>  BY <4>1
      <4>2. ASSUME NEW m \in BeforeStartSends, first = <<m>>
            PROVE  first \in Seq(ControllerMessage)
        BY <4>2
      <4> QED BY <2>1, <4>1, <4>2
    <3> QED BY <3>1 DEF ControllerMessage, ControlTag
  <2>3. toTask' \in [Tasks -> Seq(ControllerMessage)]
    BY <2>1, <2>2
  <2> QED BY <1>0, <1>1, <1>3, <2>3 DEF StartAllTasks, CheckTracker
<1>4. CASE NothingToRequest
  BY <1>0, <1>1, <1>4 DEF NothingToRequest, CheckTracker
<1>5. CASE HookPasses
  BY <1>0, <1>5 DEF HookPasses, flags, networkVars
<1>6. HookCall => hooks' \in 0..MaxHookCalls
  BY DEF HookCall
<1>7. CASE HookStopsTasks
  BY <1>0, <1>6, <1>7, StopAllTasksType DEF HookStopsTasks, HookCall, flags
<1>8. ASSUME NEW t \in Tasks, NEW m \in ActiveSends, HookSends(t, m)
      PROVE  TypeOK'
  <2>1. Post(toTask, t, m) \in [Tasks -> Seq(ControllerMessage)]
    BY PostType
  <2> QED BY <1>0, <1>6, <1>8, <2>1 DEF HookSends, HookCall, flags
<1>9. ASSUME NEW t \in Tasks, NEW m, Receive(t, m)
      PROVE  /\ toController' \in [Tasks -> Seq(TaskMessage)]
             /\ idsToController' \in [Tasks -> Seq(IDNum)]
             /\ Paired(toController, idsToController)'
             /\ confirmation' \in BOOLEAN
             /\ created' \in BOOLEAN /\ initialized' \in BOOLEAN
             /\ requestedInit' \in BOOLEAN /\ started' \in BOOLEAN
             /\ stateBB' \in {"Running", "Completed"}
             /\ hooks' \in 0..MaxHookCalls
  <2>1. /\ toController \in [Tasks -> Seq(TaskMessage)]
        /\ idsToController \in [Tasks -> Seq(IDNum)]
        /\ Paired(toController, idsToController)
        /\ toController[t] # << >>
        /\ toController' = Take(toController, t) /\ idsToController' = Take(idsToController, t)
    BY <1>9 DEF Receive, Arrived
  <2>2. toController' \in [Tasks -> Seq(TaskMessage)]
    BY <2>1, TakeType
  <2>3. idsToController' \in [Tasks -> Seq(IDNum)] /\ Paired(toController', idsToController')
    BY ONLY <2>1, t \in Tasks, TakePaired
  <2> QED BY <1>9, <2>2, <2>3 DEF Receive, flags
<1>10. ASSUME NEW t \in Tasks, DoActionState(t)
       PROVE  TypeOK'
  <2>1. PICK s \in State : Receive(t, s) /\ SetTaskState(t, s) /\ AfterMessage(stateBB)
    BY <1>10 DEF DoActionState
  <2>2. tracker' \in [Tasks -> State]
    BY <2>1 DEF SetTaskState, TrackState
  <2> QED BY <1>0, <1>9, <1>10, <2>1, <2>2, AfterMessageType DEF DoActionState
<1>11. ASSUME NEW t \in Tasks, DoActionRequestStop(t)
       PROVE  TypeOK'
  <2>1. /\ cpc' \in {"top", "closing", "stopped", "confirming"}
        /\ toBlackboard' \in [Tasks \cup {ID_Master} -> Seq(BlackboardMessage)]
    <3>1. Post(toBlackboard, ID_Master, "StopBlackboard")
            \in [Tasks \cup {ID_Master} -> Seq(BlackboardMessage)]
      BY PostType DEF BlackboardMessage
    <3> QED BY <1>11, <3>1, AfterMessageType DEF DoActionRequestStop
  <2> QED BY <1>0, <1>9, <1>11, <2>1, StopAllTasksType DEF DoActionRequestStop
<1>12. ASSUME NEW t \in Tasks, DoActionRequestCmdLineArgs(t)
       PROVE  TypeOK'
  BY <1>0, <1>9, <1>12, AfterMessageType DEF DoActionRequestCmdLineArgs
<1>13. ASSUME NEW t \in Tasks, DoActionRequestConfig(t)
       PROVE  TypeOK'
  BY <1>0, <1>9, <1>13, AfterMessageType DEF DoActionRequestConfig
<1>14. CASE ConfirmStopRequest
  BY <1>0, <1>14, AfterMessageType DEF ConfirmStopRequest, ReceiveConfirmation, flags
<1>15. CASE ConfirmClosing
  BY <1>0, <1>15 DEF ConfirmClosing, ReceiveConfirmation, flags
<1> QED
  BY <1>2, <1>3, <1>4, <1>5, <1>7, <1>8, <1>10, <1>11, <1>12, <1>13, <1>14, <1>15
     DEF ControllerStep, ControllerAction

LEMMA BlackboardStepType ==
  ASSUME TypeOK, BlackboardStep
  PROVE  TypeOK'
<1> USE RanksAssumption DEF TypeOK, NetworkTypeOK, BlackboardTypeOK
<1>0. TaskTypeOK' /\ ControllerTypeOK' /\ (exited \in BOOLEAN)'
  BY DEF BlackboardStep, taskVars, controllerVars, TaskTypeOK, ControllerTypeOK
<1>1. ASSUME NEW t \in Tasks, ReceiveEntry(t)
      PROVE  TypeOK'
  <2>1. toBlackboard[t] # << >> /\ toBlackboard' = Take(toBlackboard, t)
    BY <1>1 DEF ReceiveEntry, ReceiveAndLog, HandleOutputMessage, Arrived
  <2> QED
    BY <1>0, <1>1, <2>1, TakeType DEF ReceiveEntry
<1>2. CASE Stop
  BY <1>0, <1>2, TakeType DEF Stop, Arrived
<1> QED BY <1>1, <1>2 DEF BlackboardStep, BlackboardAction

LEMMA NextType == TypeOK /\ [Next]_vars => TypeOK'
<1> SUFFICES ASSUME TypeOK, [Next]_vars
             PROVE  TypeOK'
  OBVIOUS
<1>1. CASE UNCHANGED vars
  BY <1>1 DEF TypeOK, NetworkTypeOK, TaskTypeOK, ControllerTypeOK, BlackboardTypeOK,
              vars, networkVars, taskVars, controllerVars
<1>2. CASE Finalize
  BY <1>2 DEF Finalize, TypeOK, NetworkTypeOK, TaskTypeOK, ControllerTypeOK, BlackboardTypeOK,
              networkVars, taskVars, controllerVars
<1> QED
  BY <1>1, <1>2, TaskStepType, ControllerStepType, BlackboardStepType DEF Next, Terminated

LEMMA InitType == Init => TypeOK
<1> SUFFICES ASSUME Init
             PROVE  TypeOK
  OBVIOUS
<1>1. NetworkTypeOK
  <2>1. /\ << >> \in Seq(TaskMessage)
        /\ << >> \in Seq(ControllerMessage)
        /\ << >> \in Seq(BlackboardMessage)
        /\ << >> \in Seq(IDNum)
    OBVIOUS
  <2> QED BY <2>1 DEF Init, NetworkInit, NetworkTypeOK, Paired
<1>2. TaskTypeOK  BY RequestsAssumption DEF Init, TaskInit, TaskTypeOK, State, IDNum
<1>3. ControllerTypeOK
  <2>1. hooks \in 0..MaxHookCalls  BY HooksAssumption DEF Init, ControllerInit
  <2>2. tracker \in [Tasks -> State]  BY DEF Init, ControllerInit, NewTracker, State
  <2> QED BY <2>1, <2>2 DEF Init, ControllerInit, ControllerTypeOK
<1> QED BY <1>1, <1>2, <1>3 DEF Init, BlackboardInit, BlackboardTypeOK, TypeOK

\* Every reachable state is well typed: no channel ever carries a message its
\* receiver is not sent, no slot of the tracker holds anything but a State.
THEOREM TypeCorrect == Spec => []TypeOK
BY InitType, NextType, PTL DEF Spec

=============================================================================
