# A TLA+ model of MTBMPI

MTBMPI is a C++ framework for programs of many MPI processes: a *controller*
(rank 0) drives a set of *work tasks* (ranks 2 and up), a *blackboard*
(rank 1) collects their log entries and results, and an application supplies
the work as adapters (`TaskAdapterBase`) and hooks (`Master`).  This directory
models the protocol that these processes run, from `MPI::Init` to
`MPI::Finalize`, and the classes around it, checks them with TLC and proves
their safety properties with TLAPS.  Line numbers are those of `src/` in
the repository.

## 1. The system

### Components

| component | state it keeps | operations | what makes it correct |
|---|---|---|---|
| **Controller** (`Controller.cpp`) | the tracker; flags created / initialized / requestedInitAll / started / stopped, local to `Activate`; `stateBB` | the event loop; `DoActionState`, `DoActionRequestStop`, `DoActionRequestCmdLineArgs`, `DoActionRequestConfig`; `InitializeAllTasks`, `StartAllTasks`, `StopAllTasks`, `StopBlackboard`, `WaitUntilCanStop` | initializes and starts behind barriers, each once; answers every request; closes the job after all tasks have ended and not before; always closes it |
| **Tracker** (`Tracker.cpp`) | the last reported `State` of each task | `SetState`, `AreAllCreated`, `AreAllInitialized`, `AreAllStopped` | lags behind the tasks but never diverges from them |
| **Task** (`Task.cpp`) | `state`, the adapter, the action to perform | the message loop; `DoActionInitialize/Start/Stop/Pause/Resume`, `SetState`, destructor | every change of state is reported once and in order; an ended task stays ended; a message it is sent is obeyed |
| **TaskAdapterBase** | the application's | five virtual methods, called by the task; may call `Task::SetState`, send requests to the controller and results to the blackboard | (external) |
| **Blackboard** (`Blackboard.cpp`) | the log stream, an output manager | receive a log entry, an error, results; confirm `Tag_StopBlackboard` and stop | confirms every stop; outlives its senders; loses nothing it was sent |
| **Master** (`Master.cpp`) | the object its rank runs | `MPI::Init` and the collective `Dup`; counts the processes; creates the object and runs it; `StopAllTasks`; at the end `WaitUntilStopped`, then the collective `MPI::Finalize` | all ranks work or none; all reach `MPI::Finalize` |
| **RunLogMgr** (`RunLogMgr.cpp`) | the log file | `Write`, `Close` | writes what it is given, in order |
| **OutputMgr**, adapters, factories | the application's | `HandleOutputMessage` receives a results message | takes each message it is given |
| **Logger** (`LoggerMPI.cpp`, `LogMessage.cpp`) | the rank of the blackboard | add a prefix, send `Tag_LogMessage` / `Tag_ErrorMessage` | an entry for every event, with its prefix |
| **CommStrings** | send buffers, pending requests, `sendCount` | `Isend`, `WaitAll`, `Receive` of string vectors | the vector received is the vector sent; no buffer is reused while in flight |
| **Communicator** | a group and a communicator | collective creation, `Close`, destructor | all ranks take part; freed once |
| **MpiCollectiveCB** | two callbacks | called at the start and at the end of a task's rank | no rank ends while another begins |
| **Configuration and utilities** | the arguments | `ToStrVec`, `JoinStrings`, `ParseTokens` | the arguments reach the tasks |
| **Time** (`timeutil`, `timetypes.h`, `TimerMPI.h`) | a time, a date, a stopwatch | arithmetic, comparison, reading and writing of strings; start, stop, read, reset | right up to the width of its integers; no interval lost |
| **ErrorHandling**, **version data** | none | error texts | pure functions |

### Interactions

All processes share one communicator, `mtbmpi::comm`; nothing else is shared.

```
            InitializeTask, StartTask, RequestStopTask,
            RequestPauseTask, RequestResumeTask, CmdLineArgs
 Controller ------------------------------------------------> Task t
   rank 0   <------------------------------------------------ rank 2..
    |  ^     State, RequestStop, RequestCmdLineArgs,            |
    |  |     RequestConfig                                      |
    |  | Confirmation                                           |
    |  +--------------  Blackboard  <---------------------------+
    +---------------->    rank 1       LogMessage, ErrorMessage,
      StopBlackboard                   TaskResults
```

Each process blocks in `Probe` and handles one message at a time, to its end.
`Task` handlers call the adapter, and the controller's loop calls the master's
hooks (`ActionsBeforeTasksStart`, `ActionsWhileActive`), so application code
runs, and sends messages, between two receives.

### What is hard

* **Interleaving.** The barriers are aggregates over reports of single tasks
  received in any order, while tasks that have reported go on.
* **Staleness.** The controller decides on a tracker that lags behind.
* **Ordering.** Requests, reports and log entries to different receivers
  overtake each other; the blackboard takes any sender's message first.
* **Double reports.** A forced stop and every destructor report a second end.
* **Nested waits.** The controller waits for the blackboard inside a handler, an
  adapter waits for the controller inside a handler, and all wait for all in
  `MPI::Finalize`.
* **Partial failure.** One task fails to initialize, or refuses to stop; too
  few processes are given.
* **Collective calls.** `Dup`, `Create`, `Free`, `Finalize` and the
  application's callbacks wait for all of a group: a rank that takes another
  way through the constructors leaves the rest waiting.
* **Boundaries.** Lengths in a `short`, hours in an `unsigned short`, a buffer
  of 2048 characters, midnight between two readings of the clock.

`PROJECT.json` lists each hazard at its line with the properties aimed at it.

## 2. The modules

| module | what it models |
|---|---|
| `States` | `enum State`, the ended states, the message tags |
| `Tracker` | `Tracker.cpp` as operators on the record of reported states |
| `Network` | the communicator (external): a FIFO channel from each task to the controller, with the ID in each message, from the controller to each task, and from each process to the blackboard |
| `Task` | a work process and what its adapter may do |
| `Controller` | rank 0 and what the application's hooks may do |
| `Blackboard` | rank 1, with or without an output manager |
| `MTBMPI` | their composition with `MPI::Finalize`, its properties, the refinement mapping |
| `Job` | the abstract specification: what the framework promises of a job |
| `Lifecycle` | `Master` in every rank, around the composition |
| `Examples` | the two example programs, as values of the constants |
| `MCMTBMPI`, `MCLifecycle` | applications for TLC |
| `CommStrings` | the transfer of string vectors, a component of its own: an application's adapters may use it on a communicator of theirs |
| `MCCommStrings` | vectors for TLC |
| `RunLog` | an entry of the log, from the call of `LoggerMPI` in any rank to the line in the file |
| `Timer` | the stopwatch `TimerMPI` |
| `TimeUtil` | `TimeValues`, strings of dates and times, the stamp of an entry |
| `Utilities` | the way of the command line to a task |
| `Communicator` | a communicator of some ranks, in all of them |
| `Library`, `MCLibrary` | `CommStrings` and the last five, one at a time, for TLC |
| `MTBMPIProofs` | the type invariant of `MTBMPI` |
| `MTBMPISafety` | its barrier, the tracker, the end of tasks and of the controller, how long the blackboard lives, and that it leaves no sender waiting |
| `OrderProofs` | the order of a task's messages, and the refinement of `Job` |
| `LifecycleProofs` | the refinement of `MTBMPI` by `Lifecycle`, the ends of the ranks and their callbacks |
| `SequenceLemmas` | induction over numbers and sequences, and what the proofs need of sequences |
| `CommStringsProofs` | `CommStrings` |
| `RunLogProofs` | `RunLog` |
| `LibraryProofs` | `Timer`, `TimeUtil`, `Utilities` and `Communicator` |

`Lifecycle` extends `MTBMPI`, which extends `Task`, `Controller` and
`Blackboard`.  The parts of `Library` share no state, so a behaviour of it is
one of a single part: the variable `part`, chosen in the first state, says which.

### State and code

* `state[t]` is `Task::state`; `tpc[t]` is the place of the process: inside the
  constructor, in `Probe` (`"waiting"`), inside one of the adapter's five
  methods (the method's name), after the loop (`"leaving"`), destroyed
  (`"gone"`).
* `bufferID[t]` is `Task::bufferState[0]`, which the constructor sets to the
  task's own number.  A report carries it (`idsToController`, in step with
  `toController`), and `SetTaskState` takes the slot of the tracker from it, not
  from the sender.  `Tag_RequestPauseTask` and `Tag_RequestResumeTask` are
  received into that buffer (`ReceiveIntoBuffer`): what the message carries in its
  first place stays there.
* `asking[t]`: the adapter is blocked in a `Recv` of `Tag_CmdLineArgs`.
* `budget[t]` bounds what an adapter may send; `hooks` what the hooks may send.
* `tracker` is `Tracker::taskStateArray`.  `created`, `initialized`,
  `requestedInit` and `started` are the locals of `Controller::Activate`;
  `tasksAreStopped` is recomputed at every use and is `AreAllStopped(tracker)`.
* `cpc` is the place in `Activate`: `"top"`, `"hook"` (in `ActionsWhileActive`),
  `"probe"`, `"confirming"` and `"closing"` (in `StopBlackboard`, called by
  `DoActionRequestStop` and at the end), `"stopped"`.
* `readied` is a history variable, the tasks whose `InitializeTask` succeeded.
* A `Tag_State` message is the state it carries; a log entry of
  `Task::LogState` is the state it reports.
* In `Lifecycle`, `life[p]` is the place of rank p in the constructor and the
  destructor of `Master`: before `MPI::Init`, in `Dup`, in the callback
  `Initialize`, in `CreateProcesses` (and in rank 0 in the constructor of the
  derived class, which runs the controller), in the destructor, in
  `MPI::Finalize`, after it.  What the rank runs is the same action as in
  `MTBMPI`.
* In `RunLog` the text of an entry is the sequence of its prefixes, and its
  words are the rank that logs it and a number; `logFile` and `logIsOpen` are
  the file of `RunLogMgr`; `stopAfter` is history.
* In `Timer` the five members of `TimerMPI` have their names; `ran` and
  `updates` are history.  In `TimeUtil`, `time` is a `TimeValues`, `seconds`
  the time it should stand for; a call of `MakeDateTimeStamp` is three steps, the
  two readings of the clock in either order and the rest.
* In `Utilities` the strings are sequences of characters, since what becomes of
  a blank and of a line's end is the question.
* In `Communicator`, `place[r]` says whether the rank has an object and whether
  it is inside `Create` or `Free`; the counts of calls are history.
* In `CommStrings`, `strVec` is the caller's vector, which `Isend` changes;
  `buffers`, `sendCount` and `requests` are the members; `pending` and
  `mailbox` stand for MPI; `meant`, `sent` and `received` are history.

### Actions and code

A handler that calls the adapter is two actions, one that receives the message
and enters the method (`EnterStart`, ...), and one that takes the method's
result and does everything after it (`ReturnStart`, ...), because other
processes run meanwhile; whatever the adapter sends happens in between
(`AskController`, `Report`, `SendResults`, `ReceiveArgs`).  A handler with no
such wait is one action.  In the controller, the top of the loop is one
action (`InitializeAllTasks`, `StartAllTasks` or `NothingToRequest`, all with
`CheckTracker`), the hook is one, and the receive with its handler and the test
that follows it is one (`DoAction...` with `AfterMessage`), unless the handler
waits for the blackboard.  Merging the sends of a handler with its receive is
sound: none of them waits for its receiver, and no process sees that a message
was sent before it arrives.  A send of long results does wait, and there the
model waits too: `TaskStep` is disabled by `SendWaits`, while a result of a task
in `LongSenders` is in its channel.

Operators whose comment begins "A mistake in" are variants of the operator
below them, each with a plausible bug; no specification uses them.  They are
there to show that the properties can fail.

### Abstractions

* Sends complete at once, but for results of `LongSenders`.  The program's other
  standard-mode sends (states, requests, entries) are small, and MPI buffers
  them.
* Without an output manager `Tag_TaskResults` is not received.  MPI may let
  `Probe` return it for ever, or turn to other senders: the blackboard may take
  any other message, but fairness does not say that it will.
* Messages of one sender to one receiver are received in order.  MPI
  guarantees this as long as the receiver takes the message `Probe` returned,
  which every handler does.
* The discarding loop of `DoActionStop` looks ten times; the model discards any
  number up to ten of the messages that are there.
* In `MTBMPI` the controller's own log messages, elapsed times, debug output
  and the text of entries are left out; `RunLog` has the entries.  Entries to a
  stopped blackboard stay in their channel.
* `Tag_RequestStop` sent to a task has the effect of `Tag_RequestStopTask`
  (`Task.cpp:340` and `:346`) and nothing in the repository sends it; it is not
  a separate tag.
* `Tag_Data` and tags without a case are `UnhandledTag`: the code receives
  neither.
* The adapter's methods return: what `InitializeTask` may return includes
  `State_Initialized`, the others not; none returns `State_Unknown` or
  `State_Created` (`ResultsAssumption`).  A running method may report
  `State_Running` or `State_Paused` by `Task::SetState`, from `StartTask` or
  `ResumeTask`.
* What a pause or resume message carries is chosen when it is received: nothing,
  which leaves the buffer alone, the receiver's own ID, or one of `ForeignIDs`.
  A negative number of no task is ignored by `SetTaskState`; another number of no
  task makes `Tracker::SetState` throw in the controller, which ends the program
  and is left out.
* The hooks may send control tags other than the two the controller itself
  sends (`HooksAssumption`), and may call `Master::StopAllTasks`.  A hook that
  calls `Master::StopBlackboard` (`Master.h:140`) is not modelled.
* The blackboard also stops at `Tag_RequestStop` and `Tag_RequestStopTask` of any
  source (`Blackboard.cpp:115`), and the controller leaves a message without a
  case unreceived, which `Probe` then returns again (`Controller.cpp:164`).  No
  process of the framework sends such a message, and both are left out.
* `Communicator` is modelled in a program that has initialized MPI; else its
  constructor does nothing (`Communicator.cpp:55`).
* In `CommStrings` a character is one byte when packed (`Pack_size` is exact),
  and MPI reads the buffer of a send once, at any time before the send is
  complete.  The line buffer of 2048 is `MaxLine = 3`.  What `Receive` may
  return is defined independently of its loop by `AreUsable`, by positions in
  the bytes: strings that hold delimiters are split, empty ones vanish, and a
  string that does not fit with its delimiter takes all that follow with it
  (`Kept`).
* A failure of MPI, of the log file or of a group, each of which throws, ends a
  real program; they are left out.
* `Timer` counts in whole units of the clock; the code's `double` rounds.
* `TimeUtil` keeps hours modulo 65536, as `unsigned short` does; minutes and
  seconds are small enough for their sums (`TimeAssumption`).  Strings are the
  numbers in them and the character between.
* In `Utilities` the largest `short` is `ShortMax`, 9 in the run, where a task asks
  for one, two or all tokens (`MaxNumbers`; none but a positive number limits
  them).  The loop of `ParseTokens` over its stream is a function of the
  characters read so far (`Scanned`), and its limit cuts off what it would push
  beyond.
* `Create` and `Free` wait for all ranks that take part, as MPI allows.

### The abstract specification

`Job` has no processes and no messages.  A worker is new, created, ready,
begun, ended; none becomes ready before all are created, none begins before
all became ready; any may end; the job is closed once, when all have ended.
`MTBMPI` implements it under the mapping of `Phase`: the phase of a task is
read from its state and place, `ready` is `readied`, and the job is closed
when the controller has left the loop.  `ImplementsJob` includes the liveness
of `Job` (the job does not stop half way), `JobSafety` does not.

## 3. The checks

`ID_Master` is a model value, tasks are `t1`, `t2`, `t3`.

| run | instance | what it shows |
|---|---|---|
| `normal` | two tasks that complete or fail, report `State_Running`, ask for arguments or configuration, send results; the sends of one of them wait | types; the tracker follows; the controller and the blackboard outlive the tasks, and the blackboard leaves no sender waiting; ends are final; requests are answered; all ranks reach `MPI::Finalize`; no deadlock; `Job` is implemented with its liveness |
| `three_tasks` | the life of five ranks with three tasks; the application demands no, enough or too many processes; its callbacks are collective or not | the ranks work all or none, none ends early, the callbacks do not mix; the start barrier, the order of a task's messages, the controller outlives the tasks and the wait of `~Master` is over; no deadlock; `Lifecycle` implements `MTBMPI` |
| `stop` | each of two tasks may request the stop from a method; initialization may fail, tasks may refuse to stop | the tracker follows, the controller outlives the tasks, the order of a task's messages, ends are final, a request to stop ends the program, and the stopped job keeps the safety of `Job` |
| `pause` | the hooks may pause tasks before the start, and pause, resume and stop them after it; constructors may request a stop; no output manager, though the tasks send results | the tracker follows, a pause is obeyed, the controller is never ahead of a task it has heard of and takes no paused task for an ended one, a blackboard stuck on results holds up no task |
| `library` | see below | the log keeps every entry, in order, up to the stop; stopwatch and times are right; arguments arrive; a communicator is freed once and nobody waits for a rank that does not come; a vector of strings arrives with what is usable of it, also when sent again, and its buffer is kept until it is read |

`library` has entries of the controller and of a task, two of each, while the log
is closed;
a stopwatch with a tick of three units in any use for five; two computations with
seven times, of which some overflow and some are not normal, and stamps made at
any moment around the end of a year; the
program's name followed by up to three of seven arguments, some empty, white, of
several lines or too long for a `short`, and a null pointer; four ranks that
each make and close two communicators of three ranks; and three sends of any of
eight vectors to two receivers, some with empty, long or split strings.

`stop` and `pause` and the violation runs do not check deadlock: a task whose
companion failed to initialize, or that is paused for good, waits for ever in
the code too.  Nor do `library` and `warning`, whose parts stop at their bounds.
In `normal` and `three_tasks` the program must end, so deadlock is checked; in
`stop` it must end once a stop is requested (`StopLeadsToExit`), and may stop for
ever where none is requested and one initialization fails.  No run with requests
to stop has results whose send waits: the blackboard may be stopped first, and
such a send then never returns.

**Bounds.** Two tasks are the least for which one can be ahead of another, and
every property of one task relates it to the rest; three (with symmetry) check
that "all" is not confused with "all but one" or "the first two".  Liveness is
not run with three, whose symmetry TLC does not allow for it.
`MaxRequests = 1` per task allows, with two tasks, two requests in every pair of
phases, and `MaxHookCalls = 2` a pause followed by a resume or a stop.
Channels are not bounded: what is sent is.
`MaxSends = 3` lets one vector go to both receivers and one of them twice, and
uses every buffer.  Two computations reach a carry of a carry and an overflow of
a sum; two objects of `Communicator` let one rank be a whole object ahead, if
the code would let it; `MaxEntries = 2` orders two entries of each rank around
the stop.

**Fairness.** Each process takes a step if it can (`WF` on the steps of each
task, of the controller, of the blackboard unless it probes results that it does
not receive): the operating system runs every
process, and an adapter's method returns.  Weak fairness of a process does not
say which message it takes first.  Finalize happens when all have called it.
There is no fairness between the senders a receiver chooses from.

### Where code and documents disagree

Each of these runs checks one sentence of the repository, and TLC finds a
behaviour of the code against it.

| run | sentence | behaviour |
|---|---|---|
| `early_request` | "controller cannot stop until the work tasks are stopped" (`Controller.cpp:237`) | `State_Unknown` counts as stopped (`Tracker.cpp:80`), so a request that reaches the controller before the first report makes it close the job |
| `lost_results` | "Blackboard will forward the message to its OutputMgr" (`ReadMe.md:325`) | the stop may overtake results, and the same holds of log entries |
| `failed_init` | "handle failed initialization" (`Task.cpp:203`) | when one task fails the others are never started, and wait |
| `unknown_message` | "mark as received but discard" (`Task.cpp:372`) | the `Recv` is commented out; the message blocks the queue |
| `pause_ids` | "constant" (`Task.cpp:61`), "bufferState[0] = GetID(); // always" (`Task.cpp:303`), "The state of each task is tracked by `mtbmpi::Tracker`" (`ReadMe.md:183`) | a pause or resume message is received over the ID (`Task.cpp:354`, `:360`); if it carries another number the later reports of its receiver go to another slot of the tracker, and the check that would notice is a todo (`Controller.cpp:322`) |
| `warning` | "Create a warning log message. The input value for **msg** is replaced" (`LogMessage.h:35`) | without the ID of a task the text is built and dropped (`LogMessage.cpp:89`): the line has no stamp and is not marked |
| `send_again` | "store buffer until WaitAll is done" (`CommStrings.cpp:184`) | `WaitAll` does not reset `sendCount`: the buffers are used up by as many sends as there are ranks, and the next one indexes behind them |

Others are no run of their own:

* The destructor of a task that failed reports `State_Terminated`, which
  replaces `State_Error` in the tracker, although `State.h:28` calls it the end
  "without an error".
* `DoActionRequestStop` stops the blackboard at once (`Controller.cpp:252`),
  though `Controller.h:85` says of `StopBlackboard` "call this only after all
  tasks are stopped".  `BlackboardOutlivesTasks` is checked and proved where no
  task asks to stop, and fails where one does; entries and results of the tasks
  that are told to stop are then lost, and long ones hang their sender.
* Nothing the controller logs after that, such as "Controller stopped."
  (`Controller.cpp:191`), is ever written (`StopEndsLog`).
* An error is marked twice, by its sender and by the blackboard, which looks for
  another spelling at another place (`Blackboard.cpp:182`).
* `operator<` of `TimeValues` (`timetypes.h:125`) and of `DateValues` (`:245`)
  compare part by part and not in order: of 02:00:00 and 01:30:00 each is less.
  `EarlierIsLess` is the half that holds.
* A stamp made over midnight may be almost a day off (`timeutil.h:93`), which
  `StampIsOfCall` excepts.  `PrependZeroIf` throws on a number with more digits
  than expected (`timeutil.cpp:76`), which a stamp never has.
* "if zero, parse all" (`UtilitiesMPI.h:70`) fails on a command line of more than
  32767 characters, whose length as a `short` is negative or too small
  (`UtilitiesMPI.cpp:76`): it comes out empty or cut.  `ToShort` computes this;
  `ArgumentsArrive` and `CharactersArrive` are about lines that a `short` counts.

## 4. The proofs

### The framework

For every set of tasks, every bound and every application that
`ResultsAssumption`, `RequestsAssumption`, `HooksAssumption`,
`OutputMgrAssumption` and `RanksAssumption` describe.  All theorems that rest on
the tracker being in the right slots assume `ForeignIDs = {}`: no pause or resume
message brings a task another number than its own.  The run `pause_ids` shows that
they need it.  `TypeCorrect`, `StartBarrierCorrect`, `WaitIsOverCorrect` and
`LifecycleOrderCorrect` do without.

* `TypeCorrect`: `Spec => []TypeOK`.  `TypeOK` is inductive.  One lemma per
  kind of step (`TaskStepType`, `ControllerStepType`, `BlackboardStepType`);
  the lemmas on `Post` and `Take` say that they keep channels typed.
* The other theorems look at one task at a time: its slot in the tracker, the
  channel behind it, and its state.  A step of the task appends to the channel
  (`TaskReports`: nothing, a request, one report of the new state, or the two
  reports of a forced stop); a step of the controller moves the first message
  into the slot (`ControllerReceives`).  The invariants say what may stand in
  slot and channel:
  * `EndInv`: in tracker and channel only ends follow an end, an end in
    either means that the task has ended, and an ended task has left its
    loop.  It gives `EndIsFinalCorrect`.  It rests on `IDInv`:
    no pause or resume message is under way before all tasks have been
    initialized, and, if such messages bring no foreign number, every buffer and
    every report holds the ID of its own task.  The first half is why the
    barrier holds even where they do.
  * `FollowInv`: the last report in the channel, or the slot if there is none,
    is the state of the task.  It needs `EndInv` and gives
    `TrackerFollowsTaskCorrect`.
  * `ClosedInv`: when the loop has been left, the tracker passes
    `AreAllStopped`, which the reports that nobody receives any more cannot
    change.  It gives `WaitIsOverCorrect`, and with `EndInv`
    `KnownTasksEndCorrect`, which hold even where the controller closes too early.
  * `BarrierInv`: a record or report of `State_Initialized` is of a task in
    `readied`; the flag `initialized` implies that all are; and
    `Tag_StartTask` exists only with the flag.  It gives `StartBarrierCorrect`.
    `StartBarrier` itself is not inductive: it says nothing of the flag.
  * `CreatedInv`: once all tasks are known to be created none is unknown; until
    then nothing but `State_Created` is sent and the controller stays in
    its first phase.  It holds when no adapter's constructor sends a request,
    the premise of `ControllerOutlivesTasksCorrect` (`CtorRequests = {}`);
    the run `early_request` shows that the premise is needed.
* `BlackboardOutlivesTasksCorrect`, where besides no task asks to stop.
  `BoardInv` says that no request to stop exists and that `Tag_StopBlackboard`
  is sent in the phase that closes the job only; the rest follows from
  `ControllerOutlivesTasksCorrect`.
* `NoSenderIsLeftCorrect`, on the same premises: a task whose long results are not
  yet taken is inside `StartTask` (`WaitingInv`), while a task that has ended has
  left its loop (`EndedLeave`), and the blackboard outlives the tasks.  Where tasks
  ask to stop it is false, as is `BlackboardOutlivesTasks`.
* `LifecycleOrderCorrect`, where the hooks send nothing before the start (a pause
  sent then reaches an initialized task ahead of `Tag_StartTask`).  `OrderInv`
  describes a task that has not ended by six things at once, the controller's
  flags `requestedInit` and `started`, whether it is readied, its queue, its
  state and its place: `Tag_InitializeTask` and `Tag_StartTask` are each sent
  once, behind nothing but requests to stop.  `LifecycleOrder` alone does not
  survive a step: it looks at the head of the queue only.
* `JobImplemented`: `Spec => JobSafety`, the refinement of `Job` without its
  liveness, where besides, as for `ControllerOutlivesTasksCorrect`, no constructor sends a request and `InitializeTask`
  returns an initialized or an ended task.  Initial states map to initial
  states, and every step of a task to a step of one worker or a stutter
  (`PhaseInv` says what phase belongs to which place, `KnownInv` what a created
  job knows); the step by which the controller leaves its loop closes the job,
  by `ControllerOutlivesTasks`.

### The life of the ranks

* `FrameworkImplemented`: `LifecycleSpec => Spec`.  A step of the life of a rank
  is a stutter or a step of the framework; `FinalizeAll` is its `Finalize`, for
  which an invariant shows that a rank that is past its work has done it.  So all
  the theorems above hold of the whole program.
* `DestroyedIsDoneCorrect`, for any number of processes demanded and any
  collective callbacks.
* `CallbacksOrderedCorrect`, where no constructor sends a request.  A rank that
  is past its work shows that the controller knows all tasks as created
  (`CreatedInv`, `ConstructingInv`), and a task in front of its work that it has
  not been constructed (`AwaitingInv`): the two exclude each other.

### The classes around it

* `TotalIsTimeRunningCorrect`, `TicsLagBehindCorrect`: for every clock and
  every use.  A quotient is bounded by its division, once, in a lemma.
* `TimeIsSecondsCorrect`, `EarlierIsLessCorrect`: normal times stand for their
  seconds (`ValueInv`); `operator+` is right by two carries, each a lemma.
  `StampIsOfCallCorrect`: what has been read of date and time is of a moment of
  the call (`StampInv`), and a moment before or behind midnight determines the
  date, so that both readings agree on one.
* `FreedOnceCorrect`, `WaitsAreMetCorrect`: for every number of ranks and objects.
  The calls a rank has made are determined by its place and the objects it has
  constructed, and a rank that has returned from `Create` is ahead of none
  (`CommunicatorInv`).
* `BuffersKeptCorrect`: the buffer of a send under way is in front of
  `sendCount`, which never goes back (`BuffersInv`), and the next send takes the
  one at `sendCount`.

### The strings, the command line and the log

* `ReceivedAsSentCorrect`, for any vectors of strings over any characters and any
  length of the line buffer.  The invariant (`StringsInv`) has three parts.
  - `VectorInv`: a receiver makes of the sender's vector, whatever it was sent
    for before, what it would make of the one meant.  The lemma behind it,
    `SameWithMore`, is by induction over the strings: one more delimiter behind
    each leaves what `Receive` unpacks alone (`DelimiterTwice`).
  - `TransferInv`: received, waiting and unread buffers together are what was
    sent to that receiver, in order.  The last part is about buffers that later
    sends could overwrite, and needs `BuffersInv`.
  - what the loop of `Receive` makes of the bytes: `LinesAreKept`, by induction
    over their number.  After each byte the lines are those that `Kept` gives
    up to it, and the line buffer holds the piece since the last delimiter
    or is full (`CutInv`).
* `ArgumentsArriveCorrect`, `CharactersArriveCorrect`, for any arguments, any
  characters and any `ShortMax`.  The invariant (`UtilInv`) says what each stage has
  left of the arguments; the rest is about `JoinStrings` and `ParseTokens`.
  - `VisibleJoin`, `VisibleScanned`: by induction over the strings and over the
    characters of the line, joining adds white space only, and what a scan holds
    in its tokens and in the one begun is all it has read but white space.
  - `ScannedFits`: every token but the last takes two characters, so that the
    length of the line, its limit without a maximum, cuts nothing off
    (`ParseAll`); `ToShortIs` says when that length is a positive `short`.
  - `TokensOfPlain`: by induction over the strings, arguments that can travel come
    out as they went in, since each begins behind a delimiter or at the start of
    the line, ends before one, and has none inside (`PartScanned`).
* `LogInOrderCorrect`, `StopEndsLogCorrect`, for any number of ranks and of
  entries, from one invariant (`RunLogInv`).  The number of an entry is how many
  of its sender's are in the file, or in front of it in the channel (`InOrder`, by the cardinality of sets of positions, which a step
  shifts or extends by one).  `StopInv` says where the controller's last message
  stands among its entries.  The invariant was first checked by TLC.

What a recursive function computes for every input is proved by induction.
The library's theorems for that take an operator as a parameter, which the
provers cannot instantiate; `NumberInduction` and `SequenceInduction` of
`SequenceLemmas` state them with a set instead, and are proved from the theorem
that the order of the natural numbers is well founded.  `Iteration` and
`SameIteration` say that a function defined step by step exists and is the
only one.

### Only model-checked

Liveness (`Termination`, `StopLeadsToExit`, `ArgsAnswered`, `PauseObeyed`, the
fair part of `ImplementsJob`) and `ENABLED` are out of the prover's reach.  Every
invariant and every other action property of the passing runs is proved.

## 5. Not modelled

* Failures of MPI and of files, `ErrorHandling`, which turns them into text and
  exceptions, and the version data: nothing in them has a state.
* A program whose master is destroyed without running the controller, which
  hangs in `WaitUntilCanStop` (`Controller.cpp:503`); an `OutputMgr` of the
  application that receives wrongly.
* A collective callback over all ranks, which `MpiCollectiveCB.h:36` invites and
  which hangs, since `Master.cpp:134` calls it above the blackboard only.
* `CommStrings` for a send beyond its buffers, its early return for an invalid
  tag, and errors of MPI in it.
* The conversions to and from strings, `Sequence` and `Sleep` of the utilities;
  the comparison of dates, `DateTimeStr` and the pairs of `TDateTime`; what the
  examples compute and print.

## 6. Plan

Done, in the order of importance: the protocol of controller, tasks and
blackboard; stop, pause and early requests; `Job` and its refinement, checked
and proved; sends that wait, and a blackboard without an output manager; the
life of the ranks and its refinement of the framework; the transfer of string
vectors; the log, stopwatch, times, command line and communicators; and the
theorems of section 4.

What is left, and would need another kind of model:

1. **A failing MPI**: the exceptions that `COMM_WORLD`'s error handler throws,
   which unwind a rank through its destructors while the others go on.
2. **The callbacks over all ranks** and a master that is destroyed early, which
   hang by reading the code (`PROJECT.json` has them as hazards).
