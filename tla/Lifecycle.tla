------------------------------ MODULE Lifecycle ------------------------------
(***************************************************************************)
(* The life of every rank around the framework: MPI::Init, the collective  *)
(* creation of the communicator, the check of the number of processes, the *)
(* application's collective callbacks, the work of the rank, and the       *)
(* destructor of Master with the collective MPI::Finalize (Master.cpp).    *)
(* Here a job may also be given too few processes.                         *)
(***************************************************************************)
EXTENDS MTBMPI, FiniteSets

CONSTANTS
  ID_Blackboard,   \* rank 1
  MinNumProcs,     \* what the application may demand (useMinNumProc)
  CallbackGroups   \* sets of tasks that its callbacks may synchronise

Processes == Tasks \cup {ID_Master, ID_Blackboard}

ASSUME LifecycleAssumption ==
  /\ ID_Blackboard \notin Tasks \cup {ID_Master}
  /\ MinNumProcs \subseteq Nat
  /\ CallbackGroups \subseteq SUBSET Tasks

VARIABLES
  life,          \* [p]: where rank p is in the constructor or destructor of Master
  minNumProc,    \* Master::minNumProc
  group          \* the tasks whose callbacks wait for each other

lifecycleVars == <<life, minNumProc, group>>
allVars == <<vars, lifecycleVars>>

\* "starting": before MPI::Init; "duplicating": in COMM_WORLD.Dup; "calling":
\* in the callback Initialize; "working": in CreateProcesses or, in rank 0, in
\* the constructor of the derived class; "ending": in ~Master, in the tasks in
\* the callback Finalize; "finalizing": in MPI::Finalize; "finalized".
LifeStage == {"starting", "duplicating", "calling", "working",
              "ending", "finalizing", "finalized"}

LifecycleTypeOK ==
  /\ life \in [Processes -> LifeStage]
  /\ minNumProc \in Nat
  /\ group \subseteq Tasks

\* ID_FirstTask + 1 processes are the least.
AtLeast(n) == IF n < 3 THEN 3 ELSE n

TooFew == Cardinality(Processes) < minNumProc

\* Master::Master begins in every rank, with the arguments of the application.
LifecycleInit ==
  /\ Init
  /\ life = [p \in Processes |-> "starting"]
  /\ minNumProc \in {AtLeast(n) : n \in MinNumProcs}
  /\ group \in CallbackGroups

Become(p, stage) == life' = [life EXCEPT ![p] = stage]

LifeStep == UNCHANGED <<vars, minNumProc, group>>

-----------------------------------------------------------------------------
\* MPI::Init, and the call of COMM_WORLD.Dup.
InitializeMPI(p) == life[p] = "starting" /\ Become(p, "duplicating") /\ LifeStep

\* A mistake in the constructor: the number of processes is not looked at by
\* the tasks.
ConstructRegardless(p) ==
  /\ life[p] = "duplicating"
  /\ \A q \in Processes : life[q] # "starting"
  /\ Become(p, IF p \in Tasks THEN "calling" ELSE IF TooFew THEN "ending" ELSE "working")
  /\ LifeStep

\* Dup returns when all have called it; then each rank looks at the number of
\* processes, and goes on or returns without an object to run.
ConstructMaster(p) ==
  /\ life[p] = "duplicating"
  /\ \A q \in Processes : life[q] # "starting"
  /\ Become(p, IF TooFew THEN "ending" ELSE IF p \in Tasks THEN "calling" ELSE "working")
  /\ LifeStep

\* The callback Initialize of a task returns.  If its collective operation is
\* one of the group, every member must have called it.
InitializeCallback(t) ==
  /\ life[t] = "calling"
  /\ t \in group => \A u \in group : life[u] \notin {"starting", "duplicating"}
  /\ Become(t, "working")
  /\ LifeStep

\* MakeTask.
RunTask(t) == life[t] = "working" /\ TaskStep(t) /\ UNCHANGED lifecycleVars

\* The derived class activates the controller, after the base is initialized.
RunController == life[ID_Master] = "working" /\ ControllerStep /\ UNCHANGED lifecycleVars

\* Blackboard::Activate.
RunBlackboard == life[ID_Blackboard] = "working" /\ BlackboardStep /\ UNCHANGED lifecycleVars

\* What a rank runs has returned, and its Master is destroyed.
WorkIsOver(p) ==
  /\ p \in Tasks => tpc[p] = "gone"
  /\ p = ID_Blackboard => bbpc = "stopped"
  /\ p = ID_Master => cpc = "stopped"

EndWork(p) == life[p] = "working" /\ WorkIsOver(p) /\ Become(p, "ending") /\ LifeStep

\* Master::~Master up to the call of MPI::Finalize: rank 0, if it has a
\* controller, waits until it can stop; a task calls the callback Finalize,
\* also when too few processes have kept it from calling Initialize.
DestroyMaster(p) ==
  /\ life[p] = "ending"
  /\ p = ID_Master => TooFew \/ CanStop
  /\ p \in group => \A u \in group : life[u] \in {"ending", "finalizing"}
  /\ Become(p, "finalizing")
  /\ LifeStep

\* A mistake in the end of the program: rank 0 does not wait for the others.
FinalizeAlone ==
  /\ life[ID_Master] = "finalizing"
  /\ life' = [p \in Processes |-> "finalized"]
  /\ exited' = ~TooFew
  /\ UNCHANGED <<networkVars, taskVars, controllerVars, bbpc, minNumProc, group>>

\* MPI::Finalize returns in every rank when all have called it.
FinalizeAll ==
  /\ \A p \in Processes : life[p] = "finalizing"
  /\ life' = [p \in Processes |-> "finalized"]
  /\ exited' = ~TooFew
  /\ UNCHANGED <<networkVars, taskVars, controllerVars, bbpc, minNumProc, group>>

AllFinalized == \A p \in Processes : life[p] = "finalized"

-----------------------------------------------------------------------------
StageStep(p) ==
  \/ InitializeMPI(p) \/ ConstructMaster(p) \/ EndWork(p) \/ DestroyMaster(p)
  \/ p \in Tasks /\ InitializeCallback(p)

ProcessStep(p) ==
  \/ StageStep(p)
  \/ p \in Tasks /\ RunTask(p)
  \/ p = ID_Master /\ RunController
  \/ p = ID_Blackboard /\ RunBlackboard

LifecycleNext ==
  \/ \E p \in Processes : ProcessStep(p)
  \/ FinalizeAll
  \/ AllFinalized /\ UNCHANGED allVars

LifecycleSpec == LifecycleInit /\ [][LifecycleNext]_allVars

-----------------------------------------------------------------------------
Destroyed == {"ending", "finalizing", "finalized"}

\* Every rank is in one place of the life of its Master.
LifecycleType == TypeOK /\ LifecycleTypeOK

\* A job runs in all ranks or in none: the Master of no rank is destroyed, with
\* what it runs, before its work is done, unless no rank will run anything
\* (each rank counts the processes for itself, in Master::Master).
DestroyedIsDone ==
  \A p \in Processes :
    life[p] \in Destroyed =>
      WorkIsOver(p) \/ \A q \in Processes : life[q] \notin {"calling", "working"}

\* The callback Finalize, which may be collective, is called in no rank while a
\* task is still in, or before, the callback Initialize of the same job.
CallbacksOrdered ==
  \A p \in Processes, t \in Tasks :
    life[p] \in Destroyed => life[t] # "calling" /\ (life[t] = "duplicating" => TooFew)

\* With what surrounds it, a job is one of the framework: whatever a rank does
\* before its work begins and after it ends, no process works alone, and
\* MPI::Finalize returns only when the controller has ended the job.
ImplementsFramework == Spec

=============================================================================
