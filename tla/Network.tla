------------------------------ MODULE Network ------------------------------
(***************************************************************************)
(* The communicator mtbmpi::comm, as the program uses it (MPI itself is    *)
(* external).  Messages between one sender and one receiver are received   *)
(* in the order sent, because every receiver takes the message Probe       *)
(* reported; messages of different senders may be received in any order.   *)
(* Sends are standard-mode; but for results (see Task) they are small, and *)
(* complete without waiting for the receiver.                              *)
(***************************************************************************)
EXTENDS Naturals, Sequences, States

CONSTANTS Tasks,      \* the work processes, MPI ranks 2 and up
          ID_Master,  \* rank 0, the sender of the controller's messages
          ForeignIDs  \* numbers but a task's own that the application puts into
                      \* its pause and resume messages; those of no task are
                      \* negative (others make Tracker::SetState throw)

ASSUME RanksAssumption == Tasks # {} /\ ID_Master \notin Tasks

VARIABLES toController,   \* [t]: messages t has sent to the controller
          idsToController, \* [t]: the number in each of them, which is there
                          \* said to be the sender's ID
          toTask,         \* [t]: messages the controller has sent to t
          toBlackboard,   \* [p]: messages p has sent to the blackboard
          argsReply,      \* [t]: a Tag_CmdLineArgs message awaits t
          confirmation    \* a Tag_Confirmation message awaits the controller

networkVars ==
  <<toController, idsToController, toTask, toBlackboard, argsReply, confirmation>>

\* The log entries of a task are written as the states they report.
TaskMessage       == State \cup Request
ControllerMessage == ControlTag \cup UnhandledTag
IDNum             == Tasks \cup ForeignIDs
BlackboardMessage == State \cup {"InitializationFailed", "Results", "StopBlackboard"}

\* A message to the controller and its number are sent, and received, together.
Paired(chan, ids) == \A t \in Tasks : Len(ids[t]) = Len(chan[t])

NetworkTypeOK ==
  /\ toController \in [Tasks -> Seq(TaskMessage)]
  /\ idsToController \in [Tasks -> Seq(IDNum)]
  /\ Paired(toController, idsToController)
  /\ toTask \in [Tasks -> Seq(ControllerMessage)]
  /\ toBlackboard \in [Tasks \cup {ID_Master} -> Seq(BlackboardMessage)]
  /\ argsReply \in [Tasks -> BOOLEAN]
  /\ confirmation \in BOOLEAN

NetworkInit ==
  /\ toController = [t \in Tasks |-> << >>]
  /\ idsToController = [t \in Tasks |-> << >>]
  /\ toTask = [t \in Tasks |-> << >>]
  /\ toBlackboard = [p \in Tasks \cup {ID_Master} |-> << >>]
  /\ argsReply = [t \in Tasks |-> FALSE]
  /\ confirmation = FALSE

\* Send: the channels after m is sent on the one of p.
Post(chan, p, m) == [chan EXCEPT ![p] = Append(@, m)]

\* Probe: the next message of p is m.
Arrived(chan, p, m) == chan[p] # << >> /\ Head(chan[p]) = m

\* Recv: the channels after the next message of p is received.
Take(chan, p) == [chan EXCEPT ![p] = Tail(@)]

=============================================================================
