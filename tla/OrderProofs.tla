----------------------------- MODULE OrderProofs -----------------------------
(***************************************************************************)
(* The order of a task's messages, where no hook of the master sends one   *)
(* before the start: LifecycleOrder; and with it, that the framework keeps *)
(* the promises of Job: JobSafety.                                         *)
(***************************************************************************)
EXTENDS MTBMPISafety

-----------------------------------------------------------------------------
\* The invariant.  Of a task that has not ended: ri and st are the flags
\* requestedInitAll and tasksAreStarted, rd whether the task is among readied,
\* q its messages, s its state and pc where it is.

Idle == {"waiting", "StopTask"}

InOrder(ri, st, rd, q, s, pc) ==
  \* Before Tag_InitializeTask is sent, the task has only been created.
  /\ ~ri => /\ ~rd /\ s \in {"Unknown", "Created"} /\ pc \in {"constructing", "waiting", "StopTask"}
            /\ \A i \in 1..Len(q) : q[i] = "RequestStopTask"
  /\ s = "Unknown" <=> pc = "constructing"
  \* Before the start a task is sent nothing else but requests to stop.
  /\ ~st => \A i \in 1..Len(q) : q[i] \in {"InitializeTask", "RequestStopTask"}
  \* Tag_InitializeTask is sent once, to a task that has only been created.
  /\ \A i \in 1..Len(q) : q[i] = "InitializeTask" =>
       /\ ~st /\ ~rd /\ s \in {"Unknown", "Created"} /\ pc \in Idle
       /\ \A j \in 1..Len(q) : q[j] = "InitializeTask" => j = i
  \* A task that is initialized waits for the start.
  /\ rd /\ ~st => s = "Initialized" /\ pc \in Idle
  \* Tag_StartTask is sent once, behind nothing but requests to stop.
  /\ \A i \in 1..Len(q) : q[i] = "StartTask" =>
       /\ st /\ s = "Initialized" /\ pc \in Idle
       /\ \A j \in 1..(i - 1) : q[j] = "RequestStopTask"
  \* Where it is tells how far it has come.
  /\ pc \notin {"leaving", "gone"}
  /\ pc = "InitializeTask" => s = "Created" /\ ~rd
  /\ pc \in {"StartTask", "PauseTask", "ResumeTask"} => st
  /\ rd => s \notin {"Unknown", "Created"}
  /\ s = "Created" => pc \in Idle \cup {"InitializeTask"}
  /\ s = "Initialized" =>
       pc = "StartTask" \/ (pc \in Idle /\ (st => \E i \in 1..Len(q) : q[i] = "StartTask"))

TaskInOrder(t) ==
  ~Ended(state[t]) =>
    InOrder(requestedInit, started, t \in readied, toTask[t], state[t], tpc[t])

Unheard(tr, ch) == tr = "Unknown" /\ \A i \in 1..Len(ch) : ch[i] \in Request

OrderInv ==
  /\ \A t \in Tasks : ~Has(toController[t], "Unknown")
  /\ ~initialized =>
       \A t \in Tasks : state[t] = "Unknown" => Unheard(tracker[t], toController[t])
  /\ created => \A t \in Tasks : tracker[t] # "Unknown"
  /\ cpc = "hook" => started
  /\ started => readied = Tasks
  /\ \A t \in Tasks : TaskInOrder(t)

-----------------------------------------------------------------------------
\* What becomes of the order when a message is sent, taken or handled.

LEMMA HeadAndTail ==
  ASSUME NEW M, NEW q \in Seq(M), q # << >>
  PROVE  /\ Head(q) = q[1] /\ 1 \in 1..Len(q)
         /\ \A i \in 1..Len(Tail(q)) : i + 1 \in 1..Len(q) /\ Tail(q)[i] = q[i + 1]
OBVIOUS

LEMMA AppendInOrder ==
  ASSUME NEW ri \in BOOLEAN, NEW st \in BOOLEAN, NEW rd \in BOOLEAN,
         NEW q \in Seq(ControllerMessage), NEW s, NEW pc, InOrder(ri, st, rd, q, s, pc),
         NEW m \in ControllerMessage,
         m = "RequestStopTask" \/ (st /\ rd /\ m \notin {"InitializeTask", "StartTask"})
  PROVE  InOrder(ri, st, rd, Append(q, m), s, pc)
<1>1. /\ Len(q) \in Nat /\ Len(Append(q, m)) = Len(q) + 1
      /\ Append(q, m)[Len(q) + 1] = m
      /\ \A i \in 1..Len(q) : Append(q, m)[i] = q[i]
  OBVIOUS
<1> QED BY <1>1 DEF InOrder

LEMMA InitializeInOrder ==
  ASSUME NEW st \in BOOLEAN, NEW rd \in BOOLEAN, NEW q \in Seq(ControllerMessage), NEW s, NEW pc,
         InOrder(FALSE, st, rd, q, s, pc), st => rd, s # "Unknown"
  PROVE  InOrder(TRUE, st, rd, Append(q, "InitializeTask"), s, pc)
<1> DEFINE m == "InitializeTask"
<1>1. m \in ControllerMessage
  BY DEF ControllerMessage, ControlTag
<1>2. /\ Len(q) \in Nat /\ Len(Append(q, m)) = Len(q) + 1
      /\ Append(q, m)[Len(q) + 1] = m
      /\ \A i \in 1..Len(q) : Append(q, m)[i] = q[i]
  BY <1>1
<1>3. /\ ~rd /\ ~st /\ s = "Created" /\ pc \in Idle
      /\ \A i \in 1..Len(q) : q[i] = "RequestStopTask"
  BY DEF InOrder, Idle
<1> QED BY <1>2, <1>3 DEF InOrder, Idle

LEMMA StartInOrder ==
  ASSUME NEW ri \in BOOLEAN, NEW q \in Seq(ControllerMessage), NEW s, NEW pc,
         InOrder(ri, FALSE, TRUE, q, s, pc)
  PROVE  InOrder(ri, TRUE, TRUE, Append(q, "StartTask"), s, pc)
<1> DEFINE m == "StartTask"
<1>1. m \in ControllerMessage
  BY DEF ControllerMessage, ControlTag
<1>2. /\ Len(q) \in Nat /\ Len(Append(q, m)) = Len(q) + 1
      /\ Append(q, m)[Len(q) + 1] = m
      /\ \A i \in 1..Len(q) : Append(q, m)[i] = q[i]
  BY <1>1
<1>3. /\ ri /\ s = "Initialized" /\ pc \in Idle
      /\ \A i \in 1..Len(q) : q[i] = "RequestStopTask"
  BY DEF InOrder
<1> QED BY <1>2, <1>3 DEF InOrder, Idle

\* A waiting task takes the tag for which it calls the method c.
Calls(tag, c) ==
  /\ c = "StopTask" <=> tag = "RequestStopTask"
  /\ c = "InitializeTask" <=> tag = "InitializeTask"
  /\ c = "StartTask" <=> tag = "StartTask"

Takes(q, c) == q # << >> /\ Calls(Head(q), c)

LEMMA TailInOrder ==
  ASSUME NEW ri \in BOOLEAN, NEW st \in BOOLEAN, NEW rd \in BOOLEAN,
         NEW q \in Seq(ControllerMessage), NEW s, InOrder(ri, st, rd, q, s, "waiting"),
         st => rd, NEW c \in Callback, Takes(q, c)
  PROVE  InOrder(ri, st, rd, Tail(q), s, c)
<1>1. /\ Len(q) \in Nat /\ Len(q) > 0 /\ Len(Tail(q)) = Len(q) - 1
      /\ Head(q) = q[1] /\ 1 \in 1..Len(q)
      /\ \A i \in 1..Len(Tail(q)) : i + 1 \in 1..Len(q) /\ Tail(q)[i] = q[i + 1]
  BY DEF Takes
<1>2. c \notin {"constructing", "leaving", "gone"} /\ s # "Unknown"
  BY DEF Callback, InOrder
<1>3. CASE q[1] = "RequestStopTask"
  <2>1. c = "StopTask"
    BY <1>1, <1>3 DEF Takes, Calls
  <2>2. ASSUME NEW i \in 1..Len(Tail(q)), Tail(q)[i] = "StartTask"
        PROVE  /\ st /\ s = "Initialized"
               /\ \A j \in 1..(i - 1) : Tail(q)[j] = "RequestStopTask"
    <3>1. i + 1 \in 1..Len(q) /\ q[i + 1] = "StartTask"
      BY <1>1, <2>2
    <3>2. st /\ s = "Initialized" /\ \A j \in 1..i : q[j] = "RequestStopTask"
      BY <1>1, <3>1 DEF InOrder
    <3>3. \A j \in 1..(i - 1) : j \in 1..Len(Tail(q)) /\ j + 1 \in 1..i
      BY <1>1
    <3> QED BY <1>1, <3>2, <3>3
  <2>3. ASSUME NEW i \in 1..Len(Tail(q)), Tail(q)[i] = "InitializeTask"
        PROVE  /\ ~st /\ ~rd /\ s \in {"Unknown", "Created"}
               /\ \A j \in 1..Len(Tail(q)) : Tail(q)[j] = "InitializeTask" => j = i
    <3>1. i + 1 \in 1..Len(q) /\ q[i + 1] = "InitializeTask"
      BY <1>1, <2>3
    <3>2. \A j \in 1..Len(q) : q[j] = "InitializeTask" => j = i + 1
      BY <3>1 DEF InOrder
    <3> QED BY <1>1, <3>1, <3>2 DEF InOrder
  <2>4. /\ ~ri => /\ ~rd /\ s \in {"Unknown", "Created"}
                  /\ \A i \in 1..Len(Tail(q)) : Tail(q)[i] = "RequestStopTask"
        /\ ~st => \A i \in 1..Len(Tail(q)) : Tail(q)[i] \in {"InitializeTask", "RequestStopTask"}
        /\ rd /\ ~st => s = "Initialized"
    BY <1>1 DEF InOrder
  <2>5. s = "Initialized" /\ st => \E i \in 1..Len(Tail(q)) : Tail(q)[i] = "StartTask"
    <3>1. ASSUME NEW i \in 1..Len(q), q[i] = "StartTask"
          PROVE  i - 1 \in 1..Len(Tail(q)) /\ Tail(q)[i - 1] = "StartTask"
      <4>1. i # 1
        BY <1>3, <3>1
      <4> QED BY <1>1, <3>1, <4>1
    <3> QED BY <3>1 DEF InOrder
  <2>6. (rd => s \notin {"Unknown", "Created"}) /\ c \in Idle
    BY <2>1 DEF InOrder, Idle
  <2> QED BY <1>2, <2>1, <2>2, <2>3, <2>4, <2>5, <2>6 DEF InOrder, Idle
<1>4. CASE q[1] # "RequestStopTask"
  <2>1. ri
    BY <1>1, <1>4 DEF InOrder
  <2>2. \A i \in 1..Len(Tail(q)) : Tail(q)[i] # "StartTask"
    <3>1. ASSUME NEW i \in 1..Len(q), i > 1, q[i] = "StartTask" PROVE FALSE
      <4>1. 1 \in 1..(i - 1)
        BY <1>1, <3>1
      <4> QED BY <1>4, <3>1, <4>1 DEF InOrder
    <3> QED BY <1>1, <3>1
  <2>3. \A i \in 1..Len(Tail(q)) : Tail(q)[i] # "InitializeTask"
    <3>1. ASSUME NEW i \in 1..Len(q), i > 1, q[i] = "InitializeTask" PROVE FALSE
      <4>1. ~st /\ (q[1] = "InitializeTask" => 1 = i)
        BY <1>1, <3>1 DEF InOrder
      <4>2. q[1] = "InitializeTask"
        BY <1>1, <1>4, <4>1 DEF InOrder
      <4> QED BY <3>1, <4>1, <4>2
    <3> QED BY <1>1, <3>1
  <2>4. ~st => ~rd
    <3>1. ~st => q[1] = "InitializeTask"
      BY <1>1, <1>4 DEF InOrder
    <3> QED BY <1>1, <3>1 DEF InOrder
  <2>5. ~st => \A i \in 1..Len(Tail(q)) : Tail(q)[i] \in {"InitializeTask", "RequestStopTask"}
    BY <1>1 DEF InOrder
  <2>6. CASE q[1] = "InitializeTask"
    <3>1. /\ c = "InitializeTask" /\ s = "Created" /\ ~rd
      BY <1>1, <1>2, <2>6 DEF Takes, Calls, InOrder
    <3> QED BY <1>2, <2>1, <2>2, <2>3, <2>4, <2>5, <3>1 DEF InOrder, Idle
  <2>7. CASE q[1] # "InitializeTask"
    <3>1. st /\ c \notin {"StopTask", "InitializeTask"}
      BY <1>1, <1>4, <2>7 DEF Takes, Calls, InOrder
    <3>2. s \notin {"Unknown", "Created"}
      BY <3>1 DEF InOrder
    <3>3. s = "Initialized" => c = "StartTask"
      <4>1. ASSUME NEW i \in 1..Len(q), q[i] = "StartTask" PROVE q[1] = "StartTask"
        BY <1>1, <2>2, <4>1
      <4>2. s = "Initialized" => \E i \in 1..Len(q) : q[i] = "StartTask"
        BY <3>1 DEF InOrder
      <4> QED BY <1>1, <4>1, <4>2 DEF Takes, Calls
    <3> QED BY <1>2, <2>1, <2>2, <2>3, <2>4, <2>5, <3>1, <3>2, <3>3 DEF InOrder
  <2> QED BY <2>6, <2>7
<1> QED BY <1>3, <1>4

\* A method other than StopTask reports a state, or returns one, r.
Goes(c, r, pc) ==
  /\ pc = "waiting" \/ (pc = c /\ c # "InitializeTask")
  /\ r = "Initialized" => pc = "waiting" /\ c = "InitializeTask"

LEMMA WorkInOrder ==
  ASSUME NEW ri \in BOOLEAN, NEW st \in BOOLEAN, NEW rd \in BOOLEAN, NEW q, NEW s,
         NEW c \in Callback \ {"StopTask"}, InOrder(ri, st, rd, q, s, c),
         st => rd, NEW r, r \notin {"Unknown", "Created"}, NEW pc, Goes(c, r, pc),
         NEW rd2 \in BOOLEAN, rd2 => rd \/ r = "Initialized"
  PROVE  InOrder(ri, st, rd2, q, r, pc)
<1>1. /\ ri /\ c \notin Idle
      /\ \A i \in 1..Len(q) : q[i] \notin {"InitializeTask", "StartTask"}
      /\ ~st => ~rd
      /\ pc \notin {"constructing", "InitializeTask", "leaving", "gone"}
  BY DEF InOrder, Idle, Callback, Goes
<1>2. ~st => \A i \in 1..Len(q) : q[i] \in {"InitializeTask", "RequestStopTask"}
  BY DEF InOrder
<1>3. pc \in {"StartTask", "PauseTask", "ResumeTask"} => st
  BY <1>1 DEF InOrder, Goes
<1>4. r = "Initialized" => pc = "waiting" /\ ~st
  BY DEF InOrder, Goes
<1> QED BY <1>1, <1>2, <1>3, <1>4 DEF InOrder, Idle

-----------------------------------------------------------------------------
\* The steps.

LEMMA TaskKeepsOrder ==
  ASSUME TypeOK, TypeOK', EndedLeave, started => readied = Tasks,
         NEW t \in Tasks, TaskInOrder(t), TaskStep(t)
  PROVE  TaskInOrder(t)'
<1> USE DEF TypeOK, NetworkTypeOK, TaskTypeOK, ControllerTypeOK
<1>0. /\ UNCHANGED <<requestedInit, started>>
      /\ requestedInit \in BOOLEAN /\ started \in BOOLEAN /\ (t \in readied) \in BOOLEAN
      /\ (t \in readied') \in BOOLEAN
      /\ toTask[t] \in Seq(ControllerMessage)
      /\ started => t \in readied
  BY DEF TaskStep, controllerVars
<1>1. SUFFICES ASSUME ~Ended(state'[t])
               PROVE  InOrder(requestedInit, started, t \in readied', toTask'[t], state'[t], tpc'[t])
  BY <1>0 DEF TaskInOrder
<1>2. CASE UNCHANGED <<state, tpc, readied>> /\ toTask'[t] = toTask[t]
  BY <1>1, <1>2 DEF TaskInOrder
<1>3. CASE Construct(t)
  <2>1. /\ toTask' = toTask /\ readied' = readied
        /\ state'[t] = "Created" /\ tpc'[t] = "waiting" /\ tpc[t] = "constructing"
    BY <1>3 DEF Construct, SetState, Goto
  <2>2. ~Ended(state[t])
    BY <2>1 DEF EndedLeave
  <2>3. InOrder(requestedInit, started, t \in readied, toTask[t], state[t], "constructing")
    BY <2>1, <2>2 DEF TaskInOrder
  <2>4. InOrder(requestedInit, started, t \in readied, toTask[t], "Created", "waiting")
    BY <1>0, <2>3 DEF InOrder, Idle
  <2> QED BY <2>1, <2>4
<1>4. ASSUME NEW tag, NEW c \in Callback, Enter(t, tag, c), Calls(tag, c)
      PROVE  InOrder(requestedInit, started, t \in readied', toTask'[t], state'[t], tpc'[t])
  <2>1. /\ tpc[t] = "waiting" /\ tpc'[t] = c /\ state' = state /\ readied' = readied
        /\ toTask[t] # << >> /\ Head(toTask[t]) = tag /\ toTask'[t] = Tail(toTask[t])
    BY <1>4 DEF Enter, Arrived, Take, Goto
  <2>2. InOrder(requestedInit, started, t \in readied, toTask[t], state[t], "waiting")
    BY <1>1, <2>1 DEF TaskInOrder
  <2>3. InOrder(requestedInit, started, t \in readied, Tail(toTask[t]), state[t], c)
    <3> DEFINE rd == t \in readied
    <3>1. rd \in BOOLEAN /\ InOrder(requestedInit, started, rd, toTask[t], state[t], "waiting")
      BY <2>2
    <3>0. c \in Callback /\ toTask[t] \in Seq(ControllerMessage)
      OBVIOUS
    <3>2. Takes(toTask[t], c) /\ (started => rd)
      BY <1>0, <1>4, <2>1 DEF Takes
    <3>3. InOrder(requestedInit, started, rd, Tail(toTask[t]), state[t], c)
      <4> HIDE DEF rd
      <4> QED BY <1>0, <3>0, <3>1, <3>2, TailInOrder
    <3> QED BY <3>3
  <2> QED BY <2>1, <2>3
<1>5. CASE EnterInitialize(t) \/ EnterStart(t) \/ EnterStop(t) \/ EnterPause(t) \/ EnterResume(t)
  BY <1>4, <1>5 DEF EnterInitialize, EnterStart, EnterStop, EnterPause, EnterResume, Callback, Calls
<1>6. CASE RefuseStart(t) \/ Destroy(t)
  BY <1>1, <1>6 DEF RefuseStart, Destroy, SetState, Ended
<1>7. CASE ReturnStop(t)
  <2>1. PICK s \in Results["StopTask"] : ForceStop(t, s)
    BY <1>7 DEF ReturnStop
  <2> QED BY <1>1, <2>1 DEF ForceStop, SetState, Ended
<1>8. ASSUME NEW c \in Callback \ {"StopTask"}, Return(t, c)
      PROVE  InOrder(requestedInit, started, t \in readied', toTask'[t], state'[t], tpc'[t])
  <2>1. PICK s \in Results[c] :
          /\ SetState(t, s)
          /\ readied' = IF s = "Initialized" THEN readied \cup {t} ELSE readied
    BY <1>8 DEF Return
  <2>2. s \notin {"Unknown", "Created"}
    BY <2>1, ResultsAssumption
  <2>3. /\ tpc[t] = c /\ tpc'[t] = "waiting" /\ state'[t] = s /\ toTask' = toTask
    BY <1>1, <1>8, <2>1 DEF Return, SetState, LeaveOrWait, Goto
  <2>4. ~Ended(state[t])
    BY <2>3 DEF EndedLeave, Callback
  <2>5. InOrder(requestedInit, started, t \in readied, toTask[t], state[t], c)
    BY <2>3, <2>4 DEF TaskInOrder
  <2>6. /\ (t \in readied') => (t \in readied) \/ s = "Initialized"
        /\ Goes(c, s, "waiting")
    BY <1>8, <2>1, ResultsAssumption DEF Goes
  <2>7. InOrder(requestedInit, started, t \in readied', toTask[t], s, "waiting")
    <3> DEFINE rd == t \in readied
               rd2 == t \in readied'
    <3>1. /\ rd \in BOOLEAN /\ InOrder(requestedInit, started, rd, toTask[t], state[t], c)
          /\ rd2 \in BOOLEAN /\ (rd2 => rd \/ s = "Initialized")
          /\ (started => rd)
      BY <1>0, <2>5, <2>6
    <3>2. InOrder(requestedInit, started, rd2, toTask[t], s, "waiting")
      <4> HIDE DEF rd, rd2
      <4> QED BY <1>0, <1>8, <2>2, <2>6, <3>1, WorkInOrder
    <3> QED BY <3>2
  <2> QED BY <2>3, <2>7
<1>9. CASE ReturnInitialize(t) \/ ReturnStart(t) \/ ReturnPause(t) \/ ReturnResume(t)
  BY <1>8, <1>9 DEF ReturnInitialize, ReturnStart, ReturnPause, ReturnResume, Callback
<1>10. CASE ReceiveArgs(t) \/ SendResults(t) \/ \E q \in Request : AskController(t, q)
  BY <1>2, <1>10 DEF ReceiveArgs, SendResults, AskController
<1>11. ASSUME NEW s \in ReportStates, Report(t, s)
       PROVE  InOrder(requestedInit, started, t \in readied', toTask'[t], state'[t], tpc'[t])
  <2>1. /\ state'[t] = s /\ s \notin {"Unknown", "Created"}
        /\ tpc' = tpc /\ readied' = readied /\ toTask' = toTask
        /\ tpc[t] \in Callback \ {"StopTask"} /\ Goes(tpc[t], s, tpc[t])
    BY <1>11, ResultsAssumption DEF Report, SetState, Callback, Goes
  <2>2. ~Ended(state[t])
    BY <2>1 DEF EndedLeave, Callback
  <2>3. InOrder(requestedInit, started, t \in readied, toTask[t], state[t], tpc[t])
    BY <2>2 DEF TaskInOrder
  <2>4. InOrder(requestedInit, started, t \in readied, toTask[t], s, tpc[t])
    <3> DEFINE rd == t \in readied
    <3>1. /\ rd \in BOOLEAN /\ InOrder(requestedInit, started, rd, toTask[t], state[t], tpc[t])
          /\ started => rd
      BY <1>0, <2>3
    <3>2. InOrder(requestedInit, started, rd, toTask[t], s, tpc[t])
      <4> HIDE DEF rd
      <4> QED BY <1>0, <2>1, <3>1, WorkInOrder
    <3> QED BY <3>2
  <2> QED BY <2>1, <2>4
<1> QED
  BY <1>3, <1>5, <1>6, <1>7, <1>9, <1>10, <1>11 DEF TaskStep, TaskAction

LEMMA TaskKeepsOthers ==
  ASSUME TypeOK, NEW t \in Tasks, TaskStep(t), NEW u \in Tasks, u # t
  PROVE  toTask'[u] = toTask[u] /\ (u \in readied' <=> u \in readied)
BY DEF TypeOK, NetworkTypeOK, TaskTypeOK, TaskStep, TaskAction, Construct, Enter,
       EnterInitialize, EnterStart, EnterStop, EnterPause, EnterResume, RefuseStart,
       Return, ReturnInitialize, ReturnStart, ReturnPause, ReturnResume,
       ReturnStop, ForceStop, Destroy, AskController, ReceiveArgs, Report, SendResults, Take

\* The controller keeps the order of each task's messages, if no hook sends one
\* before the start.
LEMMA ControllerKeepsOrder ==
  ASSUME BeforeStartSends = {}, TypeOK, TypeOK', BarrierInv, BarrierInv', OrderInv,
         ControllerStep, NEW t \in Tasks
  PROVE  TaskInOrder(t)'
<1> USE DEF TypeOK, NetworkTypeOK, TaskTypeOK, ControllerTypeOK
<1>0. UNCHANGED <<state, tpc, readied>>
  BY ControllerReceives
<1>1. SUFFICES ASSUME ~Ended(state[t])
               PROVE  InOrder(requestedInit', started', t \in readied, toTask'[t], state[t], tpc[t])
  BY <1>0 DEF TaskInOrder
<1> DEFINE rd == t \in readied
<1>2. /\ InOrder(requestedInit, started, rd, toTask[t], state[t], tpc[t])
      /\ requestedInit \in BOOLEAN /\ started \in BOOLEAN /\ rd \in BOOLEAN
      /\ toTask[t] \in Seq(ControllerMessage)
      /\ started => rd
      /\ cpc = "hook" => started
  BY <1>1 DEF OrderInv, TaskInOrder
<1>3. SUFFICES InOrder(requestedInit', started', rd, toTask'[t], state[t], tpc[t])
  OBVIOUS
<1>4. CASE InitializeAllTasks
  <2>1. /\ ~requestedInit /\ requestedInit' = TRUE /\ started' = started
        /\ toTask'[t] = Append(toTask[t], "InitializeTask")
        /\ NowCreated /\ ~initialized
    BY <1>4 DEF InitializeAllTasks, NowInitialized
  <2>2. tracker[t] # "Unknown"
    BY <2>1 DEF NowCreated, AreAllCreated, OrderInv
  <2>3. state[t] # "Unknown"
    BY <2>1, <2>2 DEF OrderInv, Unheard
  <2>4. requestedInit = FALSE
    BY <1>2, <2>1
  <2>5. InOrder(FALSE, started, rd, toTask[t], state[t], tpc[t])
    BY <1>2, <2>4
  <2>6. InOrder(TRUE, started, rd, Append(toTask[t], "InitializeTask"), state[t], tpc[t])
    <3> HIDE DEF rd
    <3> QED BY <1>2, <2>3, <2>5, InitializeInOrder
  <2> QED BY <2>1, <2>6
<1>5. CASE StartAllTasks
  <2>1. /\ started = FALSE /\ started' = TRUE /\ requestedInit' = requestedInit
        /\ NowInitialized /\ initialized' = NowInitialized
    BY <1>5 DEF StartAllTasks, CheckTracker
  <2>2. rd = TRUE
    BY <1>0, <2>1 DEF BarrierInv
  <2>3. toTask'[t] = Append(toTask[t], "StartTask")
    <3>1. toTask' = [u \in Tasks |-> toTask[u] \o Append(<< >>, "StartTask")]
      BY <1>5 DEF StartAllTasks
    <3>2. "StartTask" \in ControllerMessage
      BY DEF ControllerMessage, ControlTag
    <3>3. \A q \in Seq(ControllerMessage) : q \o Append(<< >>, "StartTask") = Append(q, "StartTask")
      BY <3>2
    <3> QED BY <1>2, <3>1, <3>3
  <2>4. InOrder(requestedInit, FALSE, TRUE, toTask[t], state[t], tpc[t])
    BY <1>2, <2>1, <2>2
  <2>5. InOrder(requestedInit, TRUE, TRUE, Append(toTask[t], "StartTask"), state[t], tpc[t])
    <3> HIDE DEF rd
    <3> QED BY <1>2, <2>4, StartInOrder
  <2> QED BY <2>1, <2>2, <2>3, <2>5
<1>6. CASE toTask'[t] = toTask[t] /\ UNCHANGED <<requestedInit, started>>
  BY <1>2, <1>6
<1>7. ASSUME UNCHANGED <<requestedInit, started>>, NEW m \in ControllerMessage,
             m = "RequestStopTask" \/ (cpc = "hook" /\ m \notin {"InitializeTask", "StartTask"}),
             toTask'[t] = Append(toTask[t], m)
      PROVE  InOrder(requestedInit', started', rd, toTask'[t], state[t], tpc[t])
  <2>1. m = "RequestStopTask" \/ (started /\ rd /\ m \notin {"InitializeTask", "StartTask"})
    BY <1>2, <1>7
  <2>2. InOrder(requestedInit, started, rd, Append(toTask[t], m), state[t], tpc[t])
    <3> HIDE DEF rd
    <3> QED BY <1>2, <1>7, <2>1, AppendInOrder
  <2> QED BY <1>7, <2>2
<1>8. ASSUME StopAllTasks
      PROVE  \/ toTask'[t] = toTask[t]
             \/ toTask'[t] = Append(toTask[t], "RequestStopTask")
  BY <1>8 DEF StopAllTasks
<1>9. "RequestStopTask" \in ControllerMessage
  BY DEF ControllerMessage, ControlTag
<1>10. CASE NothingToRequest \/ HookPasses \/ ConfirmStopRequest \/ ConfirmClosing
  BY <1>6, <1>10 DEF NothingToRequest, HookPasses, ConfirmStopRequest, ConfirmClosing,
                     ReceiveConfirmation, flags, networkVars
<1>11. CASE HookStopsTasks
  BY <1>6, <1>7, <1>8, <1>9, <1>11 DEF HookStopsTasks, HookCall, flags
<1>12. ASSUME NEW u \in Tasks, NEW m \in ActiveSends, HookSends(u, m)
       PROVE  InOrder(requestedInit', started', rd, toTask'[t], state[t], tpc[t])
  <2>1. m \in ControllerMessage \ {"InitializeTask", "StartTask"}
    BY HooksAssumption
  <2>2. /\ cpc = "hook" /\ UNCHANGED <<requestedInit, started>>
        /\ toTask'[t] = IF t = u THEN Append(toTask[t], m) ELSE toTask[t]
    BY <1>12 DEF HookSends, HookCall, flags, Post
  <2> QED BY <1>6, <1>7, <2>1, <2>2
<1>13. ASSUME NEW u \in Tasks,
              \/ DoActionState(u) \/ DoActionRequestStop(u)
              \/ DoActionRequestCmdLineArgs(u) \/ DoActionRequestConfig(u)
       PROVE  InOrder(requestedInit', started', rd, toTask'[t], state[t], tpc[t])
  <2>1. UNCHANGED <<requestedInit, started>> /\ (toTask' = toTask \/ StopAllTasks)
    BY <1>13 DEF DoActionState, DoActionRequestStop, DoActionRequestCmdLineArgs,
                 DoActionRequestConfig, Receive, flags
  <2> QED BY <1>6, <1>7, <1>8, <1>9, <2>1
<1> QED
  BY <1>4, <1>5, <1>10, <1>11, <1>12, <1>13 DEF ControllerStep, ControllerAction

\* What it knows and where it is, beside the order.
LEMMA ControllerKeepsRest ==
  ASSUME TypeOK, TypeOK', IDInv, BarrierInv', OrderInv, ControllerStep
  PROVE  /\ \A t \in Tasks : ~Has(toController'[t], "Unknown")
         /\ ~initialized' =>
              \A t \in Tasks : state'[t] = "Unknown" => Unheard(tracker'[t], toController'[t])
         /\ created' => \A t \in Tasks : tracker'[t] # "Unknown"
         /\ cpc' = "hook" => started'
         /\ started' => readied' = Tasks
<1> USE DEF TypeOK, NetworkTypeOK, TaskTypeOK, ControllerTypeOK
<1>0. readied' = readied /\ state' = state
  BY ControllerReceives
<1>1. ASSUME NEW t \in Tasks, Receiving(t)
      PROVE  \A u \in Tasks : ~Has(toController'[u], "Unknown")
                              /\ (tracker[u] # "Unknown" => tracker'[u] # "Unknown")
  <2>1. /\ toController[t] # << >> /\ toController[t] \in Seq(TaskMessage)
        /\ toController'[t] = Tail(toController[t])
        /\ \A u \in Tasks \ {t} : toController'[u] = toController[u]
        /\ \A u \in Tasks : tracker'[u] \in {tracker[u], Head(toController[t])}
    BY <1>1 DEF Receiving, Take
  <2>2. ~Has(toController[t], "Unknown")
    BY DEF OrderInv
  <2>3. ~Has(Tail(toController[t]), "Unknown") /\ Head(toController[t]) # "Unknown"
    BY <2>1, <2>2, HasTail
  <2> QED BY <2>1, <2>3 DEF OrderInv
<1>2. \A u \in Tasks : ~Has(toController'[u], "Unknown")
                       /\ (tracker[u] # "Unknown" => tracker'[u] # "Unknown")
  BY <1>1, ControllerReceives DEF OrderInv
<1>5. ASSUME ~initialized'
      PROVE  /\ ~initialized
             /\ \A u \in Tasks : Unheard(tracker[u], toController[u])
                                  => Unheard(tracker'[u], toController'[u])
  <2>0. ~initialized /\ IDsAreOwn
    BY <1>5, ControllerStarts DEF IDsAreOwn
  <2>1. ASSUME NEW t \in Tasks, Recording(t), NEW u \in Tasks, Unheard(tracker[u], toController[u])
        PROVE  Unheard(tracker'[u], toController'[u])
    <3>1. CASE u = t
      <4>1. toController[t] # << >> /\ toController[t] \in Seq(TaskMessage)
        BY <2>1 DEF Recording
      <4>2. /\ Head(toController[t]) = toController[t][1] /\ 1 \in 1..Len(toController[t])
            /\ \A i \in 1..Len(Tail(toController[t])) :
                 i + 1 \in 1..Len(toController[t]) /\ Tail(toController[t])[i] = toController[t][i + 1]
        BY <4>1, HeadAndTail
      <4>3. Head(toController[t]) \notin State
        BY <2>1, <3>1, <4>2 DEF Unheard, Request, State
      <4>4. tracker'[t] = tracker[t] /\ toController'[t] = Tail(toController[t])
        BY <2>1, <4>3 DEF Recording, Take
      <4> QED BY <2>1, <3>1, <4>2, <4>4 DEF Unheard
    <3>2. CASE u # t
      BY <2>1, <3>2 DEF Recording, Take
    <3> QED BY <3>1, <3>2
  <2> QED BY <2>0, <2>1, ControllerRecords
<1>3. CASE CheckTracker
  <2>1. created' => \A t \in Tasks : tracker[t] # "Unknown"
    BY <1>3 DEF CheckTracker, NowCreated, AreAllCreated, OrderInv
  <2>2. cpc' = "hook" => started \/ NowInitialized
    BY <1>3 DEF CheckTracker
  <2>3. (started' = started /\ (NowInitialized => started)) \/ (started' = TRUE /\ initialized')
    <3>1. InitializeAllTasks \/ StartAllTasks \/ NothingToRequest
      BY <1>3 DEF ControllerStep, ControllerAction, CheckTracker, HookPasses, HookStopsTasks, HookSends,
             HookCall, DoActionState, DoActionRequestStop, DoActionRequestCmdLineArgs,
             DoActionRequestConfig, Receive, ConfirmStopRequest, ConfirmClosing
    <3> QED BY <3>1 DEF InitializeAllTasks, StartAllTasks, NothingToRequest, CheckTracker
  <2>4. initialized' => readied' = Tasks
    BY DEF BarrierInv
  <2> QED BY <1>0, <1>2, <1>5, <2>1, <2>2, <2>3, <2>4 DEF OrderInv
<1>4. CASE ~CheckTracker
  <2>1. UNCHANGED <<created, started>> /\ cpc' # "hook"
    BY <1>4 DEF ControllerStep, ControllerAction, InitializeAllTasks, StartAllTasks,
         NothingToRequest, HookPasses, HookStopsTasks, HookSends, HookCall, DoActionState,
         DoActionRequestStop, DoActionRequestCmdLineArgs, DoActionRequestConfig, Receive,
         ConfirmStopRequest, ConfirmClosing, ReceiveConfirmation, AfterMessage, flags
  <2> QED BY <1>0, <1>2, <1>5, <2>1 DEF OrderInv
<1> QED BY <1>3, <1>4

\* What a task reports is not State_Unknown, and then it is not in it.
LEMMA TaskKeepsRest ==
  ASSUME TypeOK, EndedLeave, OrderInv, NEW t \in Tasks, TaskStep(t)
  PROVE  \A u \in Tasks : /\ ~Has(toController'[u], "Unknown")
                          /\ ~initialized /\ state'[u] = "Unknown" =>
                               Unheard(tracker[u], toController'[u])
<1>1. toController[t] \in Seq(TaskMessage) /\ ~Has(toController[t], "Unknown")
  BY DEF TypeOK, NetworkTypeOK, OrderInv
<1>2. ASSUME NEW q \in Seq(TaskMessage), NEW m \in TaskMessage, m # "Unknown", ~Has(q, "Unknown")
      PROVE  Append(q, m) \in Seq(TaskMessage) /\ ~Has(Append(q, m), "Unknown")
  BY <1>2, HasAppend
<1>3. ASSUME NEW s \in State \ {"Unknown"}
      PROVE  /\ ~Has(Append(toController[t], s), "Unknown")
             /\ ~Has(Append(Append(toController[t], s), "Terminated"), "Unknown")
  BY <1>1, <1>2 DEF TaskMessage, State
<1>4. ASSUME NEW q \in Request
      PROVE  ~Has(Append(toController[t], q), "Unknown")
  BY <1>1, <1>2 DEF TaskMessage, Request
<1>5. ~Has(toController'[t], "Unknown")
  BY <1>1, <1>3, <1>4, TaskReports DEF Reporting
<1>6. ASSUME ~initialized, state'[t] = "Unknown" PROVE Unheard(tracker[t], toController'[t])
  <2>1. /\ state[t] = "Unknown"
        /\ \/ toController'[t] = toController[t]
           \/ \E q \in Request : toController'[t] = Append(toController[t], q)
    BY <1>6, TaskReports DEF Reporting
  <2>2. Unheard(tracker[t], toController[t])
    BY <1>6, <2>1 DEF OrderInv
  <2>3. \A q \in Request : /\ Len(Append(toController[t], q)) = Len(toController[t]) + 1
                           /\ Append(toController[t], q)[Len(toController[t]) + 1] = q
                           /\ \A i \in 1..Len(toController[t]) :
                                Append(toController[t], q)[i] = toController[t][i]
    BY <1>1 DEF TaskMessage
  <2>4. Len(toController[t]) \in Nat
    BY <1>1
  <2> QED BY <2>1, <2>2, <2>3, <2>4 DEF Unheard
<1> QED BY <1>5, <1>6, TaskIsLocal DEF OrderInv

-----------------------------------------------------------------------------
\* The theorem of the order.

LEMMA OrderInvStep ==
  ASSUME BeforeStartSends = {}, TypeOK, TypeOK', EndedLeave, IDInv, BarrierInv, BarrierInv',
         OrderInv, [Next]_vars
  PROVE  OrderInv'
<1>1. ASSUME NEW t \in Tasks, TaskStep(t) PROVE OrderInv'
  <2>1. UNCHANGED controllerVars /\ readied \subseteq readied' /\ readied' \subseteq Tasks
    BY <1>1, TaskConsumes DEF TaskStep, TypeOK, TaskTypeOK
  <2>2. ASSUME NEW u \in Tasks PROVE TaskInOrder(u)'
    <3>1. CASE u = t
      BY <1>1, <3>1, TaskKeepsOrder DEF OrderInv
    <3>2. CASE u # t
      <4>1. /\ toTask'[u] = toTask[u] /\ state'[u] = state[u] /\ tpc'[u] = tpc[u]
            /\ (u \in readied') = (u \in readied)
            /\ UNCHANGED <<requestedInit, started>>
        BY <1>1, <2>1, <3>2, TaskIsLocal, TaskKeepsOthers DEF controllerVars
      <4> QED BY <4>1 DEF OrderInv, TaskInOrder
    <3> QED BY <3>1, <3>2
  <2>3. \A u \in Tasks : /\ ~Has(toController'[u], "Unknown")
                         /\ ~initialized /\ state'[u] = "Unknown" =>
                              Unheard(tracker[u], toController'[u])
    BY <1>1, TaskKeepsRest
  <2> QED BY <2>1, <2>2, <2>3 DEF OrderInv, controllerVars
<1>2. CASE ControllerStep
  BY <1>2, ControllerKeepsOrder, ControllerKeepsRest DEF OrderInv
<1>3. CASE Elsewhere
  BY <1>3, ElsewhereQuiet DEF OrderInv, TaskInOrder
<1> QED BY <1>1, <1>2, <1>3, NextCases

LEMMA OrderInvCorrect ==
  ASSUME BeforeStartSends = {}
  PROVE  Spec => []OrderInv
<1>1. Init => OrderInv
  BY DEF Init, NetworkInit, TaskInit, ControllerInit, NewTracker, OrderInv, TaskInOrder, InOrder, Has, Unheard
<1>2. TypeOK /\ TypeOK' /\ EndedLeave /\ IDInv /\ BarrierInv /\ BarrierInv' /\ OrderInv /\ [Next]_vars
        => OrderInv'
  BY OrderInvStep
<1> QED BY <1>1, <1>2, TypeCorrect, EndedLeaveCorrect, IDInvCorrect, BarrierInvCorrect, PTL DEF Spec

\* LifecycleOrder: where no hook of the master sends a task anything before it
\* is started, whatever an application requests and when, a task takes
\* Tag_InitializeTask right after its creation, and Tag_StartTask when it is
\* initialized.
THEOREM LifecycleOrderCorrect ==
  ASSUME BeforeStartSends = {}
  PROVE  Spec => []LifecycleOrder
<1>1. TypeOK /\ EndedLeave /\ OrderInv => LifecycleOrder
  <2> SUFFICES ASSUME TypeOK, EndedLeave, OrderInv, NEW t \in Tasks, tpc[t] = "waiting"
               PROVE  /\ Arrived(toTask, t, "InitializeTask") => state[t] = "Created"
                      /\ Arrived(toTask, t, "StartTask") => state[t] = "Initialized"
    BY DEF LifecycleOrder
  <2>1. ~Ended(state[t])
    BY DEF EndedLeave
  <2>2. InOrder(requestedInit, started, t \in readied, toTask[t], state[t], tpc[t])
    BY <2>1 DEF OrderInv, TaskInOrder
  <2>3. toTask[t] # << >> => 1 \in 1..Len(toTask[t]) /\ Head(toTask[t]) = toTask[t][1]
    BY DEF TypeOK, NetworkTypeOK
  <2> QED BY <2>2, <2>3 DEF InOrder, Arrived
<1> QED BY <1>1, TypeCorrect, EndedLeaveCorrect, OrderInvCorrect, PTL

-----------------------------------------------------------------------------
\* The framework implements Job.

\* Tag_InitializeTask is sent when every task is known, hence created.
KnownInv == requestedInit => \A t \in Tasks : state[t] # "Unknown"

\* What the phase of a task is for each of its states.
PhaseInv ==
  \A t \in Tasks :
    /\ Ended(state[t]) => Phase(t) = "ended"
    /\ state[t] = "Unknown" => Phase(t) = "new"
    /\ state[t] = "Created" => Phase(t) = "created"
    /\ state[t] = "Initialized" /\ tpc[t] = "StartTask" => Phase(t) = "begun"
    /\ state[t] = "Initialized" /\ tpc[t] # "StartTask" => Phase(t) = "ready"
    /\ state[t] \in {"Running", "Paused"} => Phase(t) = "begun"

LEMMA PhaseIs == TypeOK /\ OrderInv => PhaseInv
<1> SUFFICES ASSUME TypeOK, OrderInv, NEW t \in Tasks
             PROVE  /\ Ended(state[t]) => Phase(t) = "ended"
                    /\ state[t] = "Unknown" => Phase(t) = "new"
                    /\ state[t] = "Created" => Phase(t) = "created"
                    /\ state[t] = "Initialized" /\ tpc[t] = "StartTask" => Phase(t) = "begun"
                    /\ state[t] = "Initialized" /\ tpc[t] # "StartTask" => Phase(t) = "ready"
                    /\ state[t] \in {"Running", "Paused"} => Phase(t) = "begun"
  BY DEF PhaseInv
<1>1. ~Ended(state[t]) /\ tpc[t] = "StartTask" => state[t] \notin {"Unknown", "Created"}
  BY DEF OrderInv, TaskInOrder, InOrder, Idle
<1> QED BY <1>1 DEF Phase, Ended

\* How a step of a task advances it.
Advances(t) ==
  \/ Phase(t)' = Phase(t) /\ readied' = readied
  \/ Phase(t) = "new" /\ Phase(t)' = "created" /\ readied' = readied
  \/ /\ Phase(t) = "created" /\ Phase(t)' = "ready" /\ readied' = readied \cup {t}
     /\ \A u \in Tasks : state[u] # "Unknown"
  \/ Phase(t) = "ready" /\ Phase(t)' = "begun" /\ readied' = readied /\ readied = Tasks
  \/ Phase(t) \in {"created", "ready", "begun"} /\ Phase(t)' = "ended" /\ readied' = readied

LEMMA TaskAdvances ==
  ASSUME Results["InitializeTask"] \cap {"Running", "Paused"} = {},
         TypeOK, TypeOK', EndedLeave, OrderInv, OrderInv', KnownInv, PhaseInv, PhaseInv',
         NEW t \in Tasks, TaskStep(t)
  PROVE  Advances(t)
<1> USE DEF TypeOK, NetworkTypeOK, TaskTypeOK
<1>1. /\ state[t] \in State /\ state'[t] \in State
      /\ Ended(state[t]) => Phase(t) = "ended"
      /\ state[t] = "Unknown" => Phase(t) = "new"
      /\ state[t] = "Created" => Phase(t) = "created"
      /\ state[t] = "Initialized" /\ tpc[t] = "StartTask" => Phase(t) = "begun"
      /\ state[t] = "Initialized" /\ tpc[t] # "StartTask" => Phase(t) = "ready"
      /\ state[t] \in {"Running", "Paused"} => Phase(t) = "begun"
  BY DEF PhaseInv
<1>2. /\ Ended(state'[t]) => Phase(t)' = "ended"
      /\ state'[t] = "Created" => Phase(t)' = "created"
      /\ state'[t] = "Initialized" /\ tpc'[t] = "StartTask" => Phase(t)' = "begun"
      /\ state'[t] = "Initialized" /\ tpc'[t] # "StartTask" => Phase(t)' = "ready"
      /\ state'[t] \in {"Running", "Paused"} => Phase(t)' = "begun"
  BY DEF PhaseInv
<1>3. tpc[t] \notin {"leaving", "gone"} => ~Ended(state[t])
  BY DEF EndedLeave
<1>4. ASSUME ~Ended(state[t])
      PROVE  InOrder(requestedInit, started, t \in readied, toTask[t], state[t], tpc[t])
  BY <1>4 DEF OrderInv, TaskInOrder
<1>5. CASE UNCHANGED <<state, readied>> /\ tpc'[t] = tpc[t]
  BY <1>5 DEF Phase, Advances
<1>6. CASE Construct(t)
  <2>1. /\ state'[t] = "Created" /\ readied' = readied /\ tpc[t] = "constructing"
    BY <1>6 DEF Construct, SetState
  <2>2. state[t] = "Unknown"
    BY <1>3, <1>4, <2>1 DEF InOrder
  <2> QED BY <1>1, <1>2, <2>1, <2>2 DEF Advances
<1>7. ASSUME NEW tag, NEW c \in Callback, Enter(t, tag, c), Calls(tag, c)
      PROVE  Advances(t)
  <2>1. /\ tpc[t] = "waiting" /\ tpc'[t] = c /\ state' = state /\ readied' = readied
    BY <1>7 DEF Enter, Goto
  <2>2. CASE c = "StartTask" /\ state[t] = "Initialized"
    <3>1. readied = Tasks
      <4>1. InOrder(requestedInit', started', t \in readied', toTask'[t], state'[t], tpc'[t])
        BY <2>1, <2>2 DEF OrderInv, TaskInOrder, Ended
      <4>2. started'
        BY <2>1, <2>2, <4>1 DEF InOrder
      <4> QED BY <2>1, <4>2 DEF OrderInv
    <3> QED BY <1>1, <1>2, <2>1, <2>2, <3>1 DEF Advances
  <2>3. CASE ~(c = "StartTask" /\ state[t] = "Initialized")
    <3>1. state[t] # "Unknown"
      BY <1>3, <1>4, <2>1 DEF InOrder
    <3> QED BY <1>1, <1>2, <2>1, <2>3, <3>1 DEF Advances, State, Ended
  <2> QED BY <2>2, <2>3
<1>8. CASE EnterInitialize(t) \/ EnterStart(t) \/ EnterStop(t) \/ EnterPause(t) \/ EnterResume(t)
  BY <1>7, <1>8 DEF EnterInitialize, EnterStart, EnterStop, EnterPause, EnterResume, Callback, Calls
\* A task ends.
<1>9. ASSUME tpc[t] \in Callback \cup {"waiting"}, Ended(state'[t]), readied' = readied
      PROVE  Advances(t)
  <2>1. ~Ended(state[t]) /\ state[t] # "Unknown"
    BY <1>3, <1>4, <1>9 DEF InOrder, Callback
  <2> QED BY <1>1, <1>2, <1>9, <2>1 DEF Advances, State, Ended
<1>10. CASE RefuseStart(t)
  BY <1>9, <1>10 DEF RefuseStart, SetState, Ended
<1>11. CASE ReturnStop(t)
  <2>1. PICK s \in Results["StopTask"] : ForceStop(t, s)
    BY <1>11 DEF ReturnStop
  <2>2. Ended(state'[t])
    BY <2>1 DEF ForceStop, SetState, Ended
  <2> QED BY <1>9, <1>11, <2>2 DEF ReturnStop, Callback
<1>12. CASE Destroy(t)
  <2>1. tpc[t] = "leaving" /\ state'[t] = "Terminated" /\ readied' = readied
    BY <1>12 DEF Destroy, SetState
  <2>2. Ended(state[t]) /\ Ended(state'[t])
    BY <1>4, <2>1 DEF InOrder, Ended
  <2> QED BY <1>1, <1>2, <2>1, <2>2 DEF Advances
\* A method that runs after the start works on.
<1>13. ASSUME tpc[t] \in {"StartTask", "PauseTask", "ResumeTask"}, readied' = readied,
              state'[t] \in {"Running", "Paused"}
       PROVE  Advances(t)
  <2>1. ~Ended(state[t])
    BY <1>3, <1>13
  <2>2. started
    BY <1>4, <1>13, <2>1 DEF InOrder
  <2>3. t \in readied
    BY <2>2 DEF OrderInv
  <2>4. state[t] \in {"Initialized", "Running", "Paused"} /\ (state[t] = "Initialized" => tpc[t] = "StartTask")
    BY <1>1, <1>4, <1>13, <2>1, <2>3 DEF InOrder, Idle, State, Ended
  <2> QED BY <1>1, <1>2, <1>13, <2>4 DEF Advances
<1>14. ASSUME NEW c \in Callback \ {"StopTask"}, Return(t, c)
       PROVE  Advances(t)
  <2>1. PICK s \in Results[c] :
          /\ state'[t] = s
          /\ readied' = IF s = "Initialized" THEN readied \cup {t} ELSE readied
    BY <1>14 DEF Return, SetState
  <2>2. s \in State \ {"Unknown", "Created"}
    BY <2>1, ResultsAssumption
  <2>3. tpc[t] = c
    BY <1>14 DEF Return
  <2>4. CASE Ended(s)
    BY <1>9, <2>1, <2>3, <2>4 DEF Ended
  <2>5. CASE s \in {"Running", "Paused"}
    <3>1. c \in {"StartTask", "PauseTask", "ResumeTask"}
      BY <2>1, <2>5 DEF Callback
    <3> QED BY <1>13, <2>1, <2>3, <2>5, <3>1
  <2>6. CASE s = "Initialized"
    <3>1. c = "InitializeTask"
      BY <2>1, <2>6, ResultsAssumption
    <3>2. InOrder(requestedInit, started, t \in readied, toTask[t], state[t], "InitializeTask")
      BY <1>3, <1>4, <2>3, <3>1
    <3>3. state[t] = "Created" /\ requestedInit
      BY <3>2 DEF InOrder
    <3>4. tpc'[t] = "waiting"
      BY <1>14, <2>1, <2>6 DEF Return, LeaveOrWait, Goto, Ended
    <3> QED BY <1>1, <1>2, <2>1, <2>6, <3>3, <3>4 DEF Advances, KnownInv
  <2> QED BY <2>2, <2>4, <2>5, <2>6 DEF State, Ended
<1>15. CASE ReturnInitialize(t) \/ ReturnStart(t) \/ ReturnPause(t) \/ ReturnResume(t)
  BY <1>14, <1>15 DEF ReturnInitialize, ReturnStart, ReturnPause, ReturnResume, Callback
<1>16. CASE ReceiveArgs(t) \/ SendResults(t) \/ \E q \in Request : AskController(t, q)
  BY <1>5, <1>16 DEF ReceiveArgs, SendResults, AskController
<1>17. ASSUME NEW s \in ReportStates, Report(t, s)
       PROVE  Advances(t)
  BY <1>13, <1>17, ResultsAssumption DEF Report, SetState
<1> QED
  BY <1>6, <1>8, <1>10, <1>11, <1>12, <1>15, <1>16, <1>17 DEF TaskStep, TaskAction

\* Once the controller has closed the job it does not open it again.
LEMMA ControllerCloses ==
  ASSUME ControllerStep, cpc \in {"closing", "stopped"}
  PROVE  cpc' \in {"closing", "stopped"}
BY DEF ControllerStep, ControllerAction, InitializeAllTasks, StartAllTasks, NothingToRequest,
       CheckTracker, HookPasses, HookStopsTasks, HookSends, HookCall, DoActionState,
       DoActionRequestStop, DoActionRequestCmdLineArgs, DoActionRequestConfig, Receive,
       ConfirmStopRequest, ConfirmClosing

LEMMA KnownInvStep ==
  ASSUME TypeOK, OrderInv, KnownInv, EndedLeave, [Next]_vars
  PROVE  KnownInv'
<1>1. ASSUME NEW t \in Tasks, TaskStep(t) PROVE KnownInv'
  <2>1. requestedInit' = requestedInit
    BY <1>1 DEF TaskStep, controllerVars
  <2>2. state[t] # "Unknown" => state'[t] # "Unknown"
    BY <1>1, TaskReports DEF Reporting
  <2> QED BY <1>1, <2>1, <2>2, TaskIsLocal DEF KnownInv
<1>2. CASE ControllerStep
  <2>1. state' = state
    BY <1>2, ControllerReceives
  <2>2. CASE InitializeAllTasks
    <3>1. ~initialized /\ \A t \in Tasks : tracker[t] # "Unknown"
      BY <2>2 DEF InitializeAllTasks, NowInitialized, NowCreated, AreAllCreated, OrderInv, TypeOK, ControllerTypeOK
    <3> QED BY <2>1, <3>1 DEF KnownInv, OrderInv, Unheard
  <2>3. CASE ~InitializeAllTasks
    <3>1. requestedInit' = requestedInit
      BY <1>2, <2>3 DEF ControllerStep, ControllerAction, StartAllTasks, NothingToRequest, HookPasses,
             HookStopsTasks, HookSends, HookCall, DoActionState, DoActionRequestStop,
             DoActionRequestCmdLineArgs, DoActionRequestConfig, Receive, ConfirmStopRequest,
             ConfirmClosing, ReceiveConfirmation, flags
    <3> QED BY <2>1, <3>1 DEF KnownInv
  <2> QED BY <2>2, <2>3
<1>3. CASE Elsewhere
  BY <1>3, ElsewhereQuiet DEF KnownInv
<1> QED BY <1>1, <1>2, <1>3, NextCases

LEMMA JobStep ==
  ASSUME Results["InitializeTask"] \cap {"Running", "Paused"} = {},
         TypeOK, TypeOK', EndedLeave, OrderInv, OrderInv', KnownInv, PhaseInv, PhaseInv',
         ControllerOutlivesTasks', [Next]_vars
  PROVE  [J!Next]_(J!jobVars)
<1> DEFINE phase == [u \in Tasks |-> Phase(u)]
           closed == cpc \in {"closing", "stopped"}
<1>1. ASSUME NEW t \in Tasks, TaskStep(t) PROVE J!Next \/ UNCHANGED J!jobVars
  <2>1. Advances(t)
    BY <1>1, TaskAdvances
  <2>2. closed' = closed
    BY <1>1 DEF TaskStep, controllerVars
  <2>3. \A u \in Tasks \ {t} : Phase(u)' = Phase(u)
    BY <1>1, TaskIsLocal DEF Phase
  <2>4. phase' = [phase EXCEPT ![t] = Phase(t)']
    BY <2>3
  <2>5. CASE Phase(t)' = Phase(t) /\ readied' = readied
    <3>1. phase' = phase
      BY <2>3, <2>5
    <3> QED BY <2>2, <2>5, <3>1 DEF J!jobVars
  <2>6. CASE Phase(t) = "new" /\ Phase(t)' = "created" /\ readied' = readied
    BY <2>2, <2>4, <2>6 DEF J!Next, J!Create, J!Advance
  <2>7. CASE /\ Phase(t) = "created" /\ Phase(t)' = "ready" /\ readied' = readied \cup {t}
             /\ \A u \in Tasks : state[u] # "Unknown"
    <3>1. \A u \in Tasks : Phase(u) # "new"
      BY <2>7 DEF PhaseInv, TypeOK, TaskTypeOK, State, Ended
    <3> QED BY <2>2, <2>4, <2>7, <3>1 DEF J!Next, J!Ready, J!Advance
  <2>8. CASE Phase(t) = "ready" /\ Phase(t)' = "begun" /\ readied' = readied /\ readied = Tasks
    BY <2>2, <2>4, <2>8 DEF J!Next, J!Begin, J!Advance
  <2>9. CASE Phase(t) \in {"created", "ready", "begun"} /\ Phase(t)' = "ended" /\ readied' = readied
    BY <2>2, <2>4, <2>9 DEF J!Next, J!End, J!Advance
  <2> QED BY <2>1, <2>5, <2>6, <2>7, <2>8, <2>9 DEF Advances
<1>2. ASSUME UNCHANGED <<state, tpc, readied>>, closed => closed'
      PROVE  J!Next \/ UNCHANGED J!jobVars
  <2>1. phase' = phase
    BY <1>2 DEF Phase
  <2>2. CASE closed' = closed
    BY <1>2, <2>1, <2>2 DEF J!jobVars
  <2>3. CASE closed' # closed
    <3>1. ~closed /\ closed'
      BY <1>2, <2>3
    <3>2. \A u \in Tasks : Ended(state[u])
      BY <1>2, <3>1 DEF ControllerOutlivesTasks
    <3>3. \A u \in Tasks : Phase(u) = "ended"
      BY <3>2 DEF PhaseInv
    <3>4. closed' = TRUE
      BY <3>1
    <3> QED BY <1>2, <2>1, <3>1, <3>3, <3>4 DEF J!Next, J!Close
  <2> QED BY <2>2, <2>3
<1>3. CASE ControllerStep
  BY <1>2, <1>3, ControllerReceives, ControllerCloses
<1>4. CASE Elsewhere
  BY <1>2, <1>4, ElsewhereQuiet
<1> QED BY <1>1, <1>3, <1>4, NextCases

\* JobSafety: where no constructor of an adapter sends a request, no hook sends
\* a task anything before the start, InitializeTask returns an initialized or an
\* ended task, and no message that pauses or resumes a task brings a number that
\* is not its ID, the framework, whatever stops it, is a job that keeps to its
\* barriers and is closed when all tasks have ended.
THEOREM JobImplemented ==
  ASSUME ForeignIDs = {}, CtorRequests = {}, BeforeStartSends = {},
         Results["InitializeTask"] \cap {"Running", "Paused"} = {}
  PROVE  Spec => JobSafety
<1>1. Init => J!Init
  <2> SUFFICES ASSUME Init PROVE J!Init
    OBVIOUS
  <2>1. \A t \in Tasks : state[t] = "Unknown" /\ tpc[t] = "constructing"
    BY DEF Init, TaskInit
  <2>2. \A t \in Tasks : Phase(t) = "new"
    BY <2>1 DEF Phase, Ended
  <2>3. readied = {} /\ (cpc \in {"closing", "stopped"}) = FALSE
    BY DEF Init, TaskInit, ControllerInit
  <2> QED BY <2>2, <2>3 DEF J!Init
<1>2. Spec => []KnownInv
  <2>1. Init => KnownInv
    BY DEF Init, ControllerInit, KnownInv
  <2>2. TypeOK /\ OrderInv /\ EndedLeave /\ KnownInv /\ [Next]_vars => KnownInv'
    BY KnownInvStep
  <2> QED BY <2>1, <2>2, TypeCorrect, OrderInvCorrect, EndedLeaveCorrect, PTL DEF Spec
<1>3. Spec => []PhaseInv
  BY PhaseIs, TypeCorrect, OrderInvCorrect, PTL
<1>4. TypeOK /\ TypeOK' /\ EndedLeave /\ OrderInv /\ OrderInv' /\ KnownInv /\ PhaseInv /\ PhaseInv'
        /\ ControllerOutlivesTasks' /\ [Next]_vars => [J!Next]_(J!jobVars)
  BY JobStep
<1> QED
  BY <1>1, <1>2, <1>3, <1>4, TypeCorrect, EndedLeaveCorrect, OrderInvCorrect,
     ControllerOutlivesTasksCorrect, PTL DEF Spec, JobSafety, J!Spec

=============================================================================
