--------------------------- MODULE LifecycleProofs ---------------------------
(***************************************************************************)
(* A job in its life cycle is a behaviour of the framework, so that the    *)
(* theorems of MTBMPISafety hold of it.  What has to be proved is that     *)
(* MPI::Finalize returns only when what every rank runs has ended.         *)
(***************************************************************************)
EXTENDS Lifecycle, MTBMPISafety

\* No rank runs anything: none is in, or on the way to, its work.
Idle == \A p \in Processes : life[p] \notin {"calling", "working"}

\* Each rank has done its work when its Master is destroyed; with too few
\* processes none has any.
LifecycleInv ==
  /\ life \in [Processes -> LifeStage]
  /\ TooFew => Idle
  /\ ~TooFew => \A p \in Processes : life[p] \in Destroyed => WorkIsOver(p)
  /\ ~TooFew => (life[ID_Master] \in {"finalizing", "finalized"} => CanStop)
  /\ exited => \A p \in Processes : life[p] = "finalized"

LEMMA LifecycleInvInit == LifecycleInit => LifecycleInv
<1> SUFFICES ASSUME LifecycleInit
             PROVE  LifecycleInv
  OBVIOUS
<1>1. life = [p \in Processes |-> "starting"] /\ ~exited
  BY DEF LifecycleInit, Init
<1>2. \A p \in Processes : life[p] = "starting"
  BY <1>1
<1>3. ID_Master \in Processes /\ life \in [Processes -> LifeStage]
  BY <1>1 DEF Processes, LifeStage
<1> QED BY <1>1, <1>2, <1>3 DEF LifecycleInv, Idle, Destroyed

\* A stage of a rank's life moves only that rank.
LEMMA StageStepInv ==
  ASSUME LifecycleInv, NEW p \in Processes, StageStep(p)
  PROVE  LifecycleInv' /\ UNCHANGED vars
<1>1. UNCHANGED vars /\ TooFew' = TooFew
  BY DEF StageStep, InitializeMPI, ConstructMaster, EndWork, DestroyMaster, InitializeCallback,
         LifeStep, TooFew
<1>2. UNCHANGED <<tpc, bbpc, cpc, tracker, stateBB, exited>>
  BY <1>1 DEF vars, taskVars, controllerVars
<1>3. PICK stage \in LifeStage : life' = [life EXCEPT ![p] = stage]
  BY DEF StageStep, InitializeMPI, ConstructMaster, EndWork, DestroyMaster, InitializeCallback,
         Become, LifeStage
<1>4. \A q \in Processes : WorkIsOver(q)' = WorkIsOver(q)
  BY <1>2 DEF WorkIsOver
<1>5. CanStop' = CanStop
  BY <1>2 DEF CanStop
<1>6. life'[p] \in {"calling", "working"} => ~TooFew
  BY <1>3 DEF StageStep, InitializeMPI, ConstructMaster, EndWork, DestroyMaster, InitializeCallback,
         Become, LifecycleInv, Idle
<1>7. ~TooFew /\ life'[p] \in Destroyed => WorkIsOver(p)
  BY DEF StageStep, InitializeMPI, ConstructMaster, EndWork, DestroyMaster, InitializeCallback,
         Become, LifecycleInv, Destroyed
<1>8. life'[p] = "finalizing" \/ life'[p] = "finalized"
       => (p = ID_Master => TooFew \/ CanStop)
  BY DEF StageStep, InitializeMPI, ConstructMaster, EndWork, DestroyMaster, InitializeCallback,
         Become, LifecycleInv
<1>9. life[p] # "finalized"
  BY DEF StageStep, InitializeMPI, ConstructMaster, EndWork, DestroyMaster, InitializeCallback
<1> QED BY <1>1, <1>2, <1>3, <1>4, <1>5, <1>6, <1>7, <1>8, <1>9
        DEF LifecycleInv, Idle, Processes

\* A working rank moves, the others stay: the work that is done stays done.
LEMMA WorkStepInv ==
  ASSUME LifecycleInv, TypeOK,
         (\E t \in Tasks : RunTask(t)) \/ RunController \/ RunBlackboard
  PROVE  LifecycleInv'
<1>1. UNCHANGED <<life, minNumProc, exited>> /\ TooFew' = TooFew /\ Idle' = Idle
  BY DEF RunTask, RunController, RunBlackboard, TaskStep, ControllerStep, BlackboardStep,
         lifecycleVars, TooFew, Idle
<1>2. ASSUME NEW t \in Tasks, RunTask(t)
      PROVE  /\ UNCHANGED <<cpc, bbpc, tracker, stateBB>> /\ life[t] = "working"
             /\ \A u \in Tasks : u # t => tpc'[u] = tpc[u]
  BY <1>2, TaskIsLocal DEF RunTask, TaskStep, controllerVars
<1>3. RunController => UNCHANGED <<tpc, bbpc>> /\ life[ID_Master] = "working"
  BY DEF RunController, ControllerStep, taskVars
<1>4. RunBlackboard => /\ UNCHANGED <<tpc, cpc, tracker, stateBB>>
                       /\ life[ID_Blackboard] = "working"
  BY DEF RunBlackboard, BlackboardStep, taskVars, controllerVars
<1>5. \A p \in Processes : life[p] \in Destroyed /\ WorkIsOver(p) => WorkIsOver(p)'
  BY <1>2, <1>3, <1>4, LifecycleAssumption, RanksAssumption DEF WorkIsOver, Destroyed
<1>6. life[ID_Master] \in {"finalizing", "finalized"} /\ CanStop => CanStop'
  BY <1>2, <1>3, <1>4 DEF CanStop, AreAllStopped
<1> QED BY <1>1, <1>5, <1>6 DEF LifecycleInv

LEMMA FinalizeStepInv ==
  ASSUME LifecycleInv, TypeOK, FinalizeAll
  PROVE  LifecycleInv' /\ (exited' => Finalize) /\ (~exited' => UNCHANGED vars)
<1>1. /\ \A p \in Processes : life[p] = "finalizing"
      /\ life' = [p \in Processes |-> "finalized"]
      /\ UNCHANGED <<networkVars, taskVars, controllerVars, bbpc, minNumProc>>
      /\ exited' = ~TooFew
  BY DEF FinalizeAll
<1>2. ID_Master \in Processes /\ ID_Blackboard \in Processes /\ Tasks \subseteq Processes
  BY DEF Processes
<1>3. \A p \in Processes : life'[p] = "finalized"
  BY <1>1
<1>4. UNCHANGED <<tpc, cpc, bbpc, tracker, stateBB>> /\ TooFew' = TooFew
  BY <1>1 DEF taskVars, controllerVars, TooFew
<1>5. ~exited
  BY <1>1, <1>2 DEF LifecycleInv
<1>6. ~TooFew => CanStop /\ \A p \in Processes : WorkIsOver(p)
  BY <1>1, <1>2 DEF LifecycleInv, Destroyed
<1>7. LifecycleInv'
  <2>1. CanStop' = CanStop /\ \A p \in Processes : WorkIsOver(p)' = WorkIsOver(p)
    BY <1>4 DEF CanStop, WorkIsOver
  <2>2. life' \in [Processes -> LifeStage] /\ Idle'
    BY <1>1, <1>3 DEF LifeStage, Idle
  <2> QED BY <1>3, <1>4, <1>6, <2>1, <2>2 DEF LifecycleInv
<1>8. ~TooFew => (\A t \in Tasks : tpc[t] = "gone") /\ bbpc = "stopped" /\ CanStop
  BY <1>2, <1>6 DEF WorkIsOver
<1>9. exited' => Finalize
  BY <1>1, <1>5, <1>8 DEF Finalize
<1>10. ~exited' => UNCHANGED vars
  <2>1. ~exited' => exited' = exited
    BY <1>1, <1>5, Zenon DEF TypeOK
  <2> QED BY <1>1, <2>1 DEF vars
<1> QED BY <1>7, <1>9, <1>10

LEMMA LifecycleStep ==
  ASSUME LifecycleInv, TypeOK, [LifecycleNext]_allVars
  PROVE  LifecycleInv' /\ TypeOK' /\ [Next]_vars
<1>1. LifecycleInv' /\ [Next]_vars
  <2>1. ASSUME NEW p \in Processes, StageStep(p)
        PROVE  LifecycleInv' /\ [Next]_vars
    BY <2>1, StageStepInv
  <2>2. CASE (\E t \in Tasks : RunTask(t)) \/ RunController \/ RunBlackboard
    <3>1. (\E t \in Tasks : TaskStep(t)) \/ ControllerStep \/ BlackboardStep
      BY <2>2 DEF RunTask, RunController, RunBlackboard
    <3> QED BY <2>2, <3>1, WorkStepInv DEF Next
  <2>3. CASE FinalizeAll
    BY <2>3, FinalizeStepInv DEF Next
  <2>4. CASE UNCHANGED allVars
    <3>1. UNCHANGED vars /\ UNCHANGED lifecycleVars
      BY <2>4 DEF allVars
    <3>2. UNCHANGED <<tpc, cpc, bbpc, tracker, stateBB, exited, life, minNumProc>>
      BY <3>1 DEF vars, taskVars, controllerVars, lifecycleVars
    <3> QED BY <3>1, <3>2 DEF LifecycleInv, Idle, TooFew, WorkIsOver, CanStop
  <2> QED BY <2>1, <2>2, <2>3, <2>4 DEF LifecycleNext, ProcessStep
<1> QED BY <1>1, NextType

LEMMA LifecycleInvCorrect == LifecycleSpec => [](LifecycleInv /\ TypeOK)
<1>1. LifecycleInit => LifecycleInv /\ TypeOK
  BY LifecycleInvInit, InitType DEF LifecycleInit
<1>2. LifecycleInv /\ TypeOK /\ [LifecycleNext]_allVars => LifecycleInv' /\ TypeOK'
  BY LifecycleStep
<1> QED BY <1>1, <1>2, PTL DEF LifecycleSpec

\* With what surrounds it, a job is one of the framework: MPI::Finalize
\* returns only when every rank has done its work.
THEOREM FrameworkImplemented == LifecycleSpec => ImplementsFramework
<1>1. LifecycleInit => Init
  BY DEF LifecycleInit
<1>2. LifecycleInv /\ TypeOK /\ [LifecycleNext]_allVars => [Next]_vars
  BY LifecycleStep
<1> QED BY <1>1, <1>2, LifecycleInvCorrect, PTL DEF LifecycleSpec, Spec, ImplementsFramework

\* The Master of no rank is destroyed before its work is done, unless no rank
\* has any.
THEOREM DestroyedIsDoneCorrect == LifecycleSpec => []DestroyedIsDone
<1>1. LifecycleInv => DestroyedIsDone
  BY DEF LifecycleInv, DestroyedIsDone, Idle
<1> QED BY <1>1, LifecycleInvCorrect, PTL

-----------------------------------------------------------------------------
\* The callbacks.

\* If no constructor of an adapter sends a request, the controller knows nothing
\* of a task that is being constructed, and until it knows that all tasks are
\* created the blackboard runs.
ConstructingInv ==
  /\ \A t \in Tasks :
       tpc[t] = "constructing" => tracker[t] = "Unknown" /\ toController[t] = << >>
  /\ ~created => bbpc = "listening" /\ toBlackboard[ID_Master] = << >>

LEMMA ConstructingTask ==
  ASSUME CtorRequests = {}, TypeOK, ConstructingInv, NEW t \in Tasks, TaskStep(t)
  PROVE  ConstructingInv'
<1>1. UNCHANGED <<tracker, created, bbpc>>
  BY DEF TaskStep, controllerVars
<1>2. tpc'[t] = "constructing" => tpc[t] = "constructing" /\ toController'[t] = toController[t]
  BY DEF TypeOK, TaskTypeOK, TaskStep, TaskAction, Construct, Enter, EnterInitialize, EnterStart,
         EnterStop, EnterPause, EnterResume, RefuseStart, Return, ReturnInitialize, ReturnStart,
         ReturnPause, ReturnResume, ReturnStop, Destroy, AskController, ReceiveArgs, Report,
         SendResults, Goto, LeaveOrWait, Callback
<1>3. toBlackboard'[ID_Master] = toBlackboard[ID_Master]
  BY RanksAssumption DEF TypeOK, NetworkTypeOK, TaskStep, TaskAction, Construct, Enter,
         EnterInitialize, EnterStart, EnterStop, EnterPause, EnterResume, RefuseStart, Return,
         ReturnInitialize, ReturnStart, ReturnPause, ReturnResume, ReturnStop, Destroy,
         AskController, ReceiveArgs, Report, SendResults, LogState, Post
<1>4. \A u \in Tasks : u # t => tpc'[u] = tpc[u] /\ toController'[u] = toController[u]
  BY TaskIsLocal
<1> QED BY <1>1, <1>2, <1>3, <1>4 DEF ConstructingInv

LEMMA ConstructingController ==
  ASSUME TypeOK, IDInv, CreatedInv, CreatedInv', ConstructingInv, ControllerStep
  PROVE  ConstructingInv'
<1>1. UNCHANGED <<tpc, bbpc>>
  BY DEF ControllerStep, taskVars
<1>2. ASSUME NEW u \in Tasks, tpc[u] = "constructing"
      PROVE  tracker'[u] = "Unknown" /\ toController'[u] = << >>
  <2>1. tracker[u] = "Unknown" /\ toController[u] = << >>
    BY <1>2 DEF ConstructingInv
  <2>2. IDsAreOwn
    BY <2>1 DEF CreatedInv, IDsAreOwn
  <2>3. ASSUME NEW t \in Tasks, Recording(t)
        PROVE  tracker'[u] = tracker[u] /\ toController'[u] = toController[u]
    BY <2>1, <2>3 DEF Recording, Take, TypeOK, NetworkTypeOK, ControllerTypeOK
  <2> QED BY <2>1, <2>2, <2>3, ControllerRecords
<1>3. ~created' => ~created /\ toBlackboard' = toBlackboard
  <2> SUFFICES ASSUME ~created' PROVE ~created /\ toBlackboard' = toBlackboard
    OBVIOUS
  <2>1. cpc' \in {"top", "probe"}
    BY DEF CreatedInv
  <2>2. ~created
    BY DEF ControllerStep, ControllerAction, InitializeAllTasks, StartAllTasks, NothingToRequest,
           CheckTracker, NowCreated, HookPasses, HookStopsTasks, HookSends, HookCall, DoActionState,
           DoActionRequestStop, DoActionRequestCmdLineArgs, DoActionRequestConfig, Receive,
           ConfirmStopRequest, ConfirmClosing, ReceiveConfirmation, flags
  <2>3. cpc \in {"top", "probe"}
    BY <2>2 DEF CreatedInv
  <2>4. CASE InitializeAllTasks \/ StartAllTasks \/ NothingToRequest
    BY <2>2, <2>4 DEF InitializeAllTasks, StartAllTasks, NothingToRequest, CheckTracker
  <2>5. \A bb : AfterMessage(bb) => toBlackboard' = toBlackboard
    BY <2>1 DEF AfterMessage
  <2>6. ASSUME NEW t \in Tasks,
               \/ DoActionState(t) \/ DoActionRequestStop(t)
               \/ DoActionRequestCmdLineArgs(t) \/ DoActionRequestConfig(t)
        PROVE  toBlackboard' = toBlackboard
    BY <2>1, <2>5, <2>6
    DEF DoActionState, DoActionRequestStop, DoActionRequestCmdLineArgs, DoActionRequestConfig
  <2>7. ~(\/ HookPasses \/ HookStopsTasks \/ \E t \in Tasks, m \in ActiveSends : HookSends(t, m)
          \/ ConfirmStopRequest \/ ConfirmClosing)
    BY <2>3 DEF HookPasses, HookStopsTasks, HookSends, HookCall, ConfirmStopRequest, ConfirmClosing
  <2> QED BY <2>2, <2>4, <2>6, <2>7 DEF ControllerStep, ControllerAction
<1> QED BY <1>1, <1>2, <1>3 DEF ConstructingInv

LEMMA ConstructingInvCorrect ==
  ASSUME CtorRequests = {}
  PROVE  Spec => []ConstructingInv
<1>1. Init => ConstructingInv
  BY DEF Init, NetworkInit, TaskInit, ControllerInit, BlackboardInit, NewTracker, ConstructingInv
<1>2. TypeOK /\ IDInv /\ CreatedInv /\ CreatedInv' /\ ConstructingInv /\ [Next]_vars => ConstructingInv'
  <2> SUFFICES ASSUME TypeOK, IDInv, CreatedInv, CreatedInv', ConstructingInv, [Next]_vars
               PROVE  ConstructingInv'
    OBVIOUS
  <2>1. CASE BlackboardStep
    <3>1. UNCHANGED <<tpc, tracker, toController, created>>
      BY <2>1 DEF BlackboardStep, BlackboardAction, ReceiveEntry, Stop, taskVars, controllerVars
    <3>2. toBlackboard[ID_Master] = << >> =>
            bbpc' = bbpc /\ toBlackboard'[ID_Master] = toBlackboard[ID_Master]
      BY <2>1, RanksAssumption
      DEF BlackboardStep, BlackboardAction, ReceiveEntry, ReceiveAndLog, HandleOutputMessage, Stop,
          Arrived, Take, TypeOK, NetworkTypeOK
    <3> QED BY <3>1, <3>2 DEF ConstructingInv
  <2>2. CASE Finalize \/ UNCHANGED vars
    BY <2>2 DEF Finalize, vars, networkVars, taskVars, controllerVars, ConstructingInv
  <2> QED BY <2>1, <2>2, ConstructingTask, ConstructingController, NextCases DEF Elsewhere
<1> QED BY <1>1, <1>2, TypeCorrect, IDInvCorrect, CreatedInvCorrect, PTL DEF Spec

\* A task that does not work yet has not been constructed.
AwaitsWork == {"starting", "duplicating", "calling"}

AwaitingInv == \A t \in Tasks : life[t] \in AwaitsWork => tpc[t] = "constructing"

LEMMA AwaitingInvCorrect == LifecycleSpec => []AwaitingInv
<1>1. LifecycleInit => AwaitingInv
  BY DEF LifecycleInit, Init, TaskInit, AwaitingInv
<1>2. LifecycleInv /\ TypeOK /\ AwaitingInv /\ [LifecycleNext]_allVars => AwaitingInv'
  <2> SUFFICES ASSUME LifecycleInv, TypeOK, AwaitingInv, [LifecycleNext]_allVars
               PROVE  AwaitingInv'
    OBVIOUS
  <2>0. life \in [Processes -> LifeStage] /\ Tasks \subseteq Processes
    BY DEF LifecycleInv, Processes
  <2>1. ASSUME NEW p \in Processes, StageStep(p)
        PROVE  AwaitingInv'
    <3>1. UNCHANGED tpc
      BY <2>1, StageStepInv DEF vars, taskVars
    <3>2. \A t \in Tasks : life'[t] \in AwaitsWork => life[t] \in AwaitsWork
      BY <2>0, <2>1 DEF StageStep, InitializeMPI, ConstructMaster, EndWork, DestroyMaster,
         InitializeCallback, Become, AwaitsWork
    <3> QED BY <3>1, <3>2 DEF AwaitingInv
  <2>2. ASSUME NEW t \in Tasks, RunTask(t)
        PROVE  AwaitingInv'
    <3>1. UNCHANGED life /\ life[t] = "working" /\ TaskStep(t)
      BY <2>2 DEF RunTask, lifecycleVars
    <3> QED BY <3>1, TaskIsLocal DEF AwaitingInv, AwaitsWork
  <2>3. CASE RunController \/ RunBlackboard
    BY <2>3 DEF RunController, RunBlackboard, ControllerStep, BlackboardStep, lifecycleVars, taskVars,
       AwaitingInv
  <2>4. CASE FinalizeAll
    <3>1. \A t \in Tasks : life'[t] = "finalized"
      BY <2>0, <2>4 DEF FinalizeAll
    <3> QED BY <3>1 DEF AwaitingInv, AwaitsWork
  <2>5. CASE UNCHANGED allVars
    BY <2>5 DEF allVars, vars, taskVars, lifecycleVars, AwaitingInv
  <2> QED BY <2>1, <2>2, <2>3, <2>4, <2>5 DEF LifecycleNext, ProcessStep
<1> QED BY <1>1, <1>2, LifecycleInvCorrect, PTL DEF LifecycleSpec

\* CallbacksOrdered: if no constructor of an adapter sends a request, the
\* callback Finalize is called in no rank while a task is still in, or before,
\* the callback Initialize: work that is done anywhere has begun everywhere.
THEOREM CallbacksOrderedCorrect ==
  ASSUME CtorRequests = {}
  PROVE  LifecycleSpec => []CallbacksOrdered
<1>1. LifecycleInv /\ AwaitingInv /\ CreatedInv /\ ConstructingInv => CallbacksOrdered
  <2> SUFFICES ASSUME LifecycleInv, AwaitingInv, CreatedInv, ConstructingInv,
                      NEW p \in Processes, NEW t \in Tasks, life[p] \in Destroyed
               PROVE  life[t] # "calling" /\ (life[t] = "duplicating" => TooFew)
    BY DEF CallbacksOrdered
  <2>1. CASE TooFew
    BY <2>1 DEF LifecycleInv, Idle, Processes
  <2>2. CASE ~TooFew
    <3>1. WorkIsOver(p)
      BY <2>2 DEF LifecycleInv
    <3>2. created
      BY <3>1 DEF WorkIsOver, Processes, CreatedInv, ConstructingInv
    <3>3. tpc[t] # "constructing"
      BY <3>2 DEF CreatedInv, ConstructingInv
    <3> QED BY <3>3 DEF AwaitingInv, AwaitsWork
  <2> QED BY <2>1, <2>2
<1> QED BY <1>1, LifecycleInvCorrect, AwaitingInvCorrect, CreatedInvCorrect, ConstructingInvCorrect,
           FrameworkImplemented, PTL DEF ImplementsFramework

\* In its life cycle too a job starts behind its barrier, and ~Master does not
\* wait for a controller that nothing would stop.
THEOREM LifecycleSafety == LifecycleSpec => [](StartBarrier /\ WaitIsOver)
BY FrameworkImplemented, StartBarrierCorrect, WaitIsOverCorrect, PTL DEF ImplementsFramework

=============================================================================
