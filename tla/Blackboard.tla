----------------------------- MODULE Blackboard -----------------------------
(***************************************************************************)
(* Rank 1: mtbmpi::Blackboard, with an output manager that receives the    *)
(* messages it is given, or with none.  What is written to the log file is *)
(* not kept here (see RunLog): an entry is written when it is received,    *)
(* and lost when the program ends with the entry still in a channel.       *)
(***************************************************************************)
EXTENDS Network

CONSTANT HasOutputMgr   \* whether the application has an output manager

ASSUME OutputMgrAssumption == HasOutputMgr \in BOOLEAN

VARIABLE bbpc   \* "listening" in Activate, or "stopped"

BlackboardTypeOK == bbpc \in {"listening", "stopped"}

BlackboardInit == bbpc = "listening"

\* Without an output manager the results of a task are not received: Probe
\* may return them again and again, and the task's entries stay behind them.
ProbesResults == ~HasOutputMgr /\ \E t \in Tasks : Arrived(toBlackboard, t, "Results")

\* ReceiveAndLogMessage and ReceiveAndLogError.
ReceiveAndLog(t) ==
  /\ toBlackboard[t] # << >> /\ Head(toBlackboard[t]) # "Results"
  /\ toBlackboard' = Take(toBlackboard, t)

\* OutputMgr::HandleOutputMessage, and the example's own one.
HandleOutputMessage(t) ==
  /\ Arrived(toBlackboard, t, "Results")
  /\ toBlackboard' = Take(toBlackboard, t)

ReceiveEntry(t) ==
  /\ bbpc = "listening"
  /\ ReceiveAndLog(t) \/ (HasOutputMgr /\ HandleOutputMessage(t))
  /\ UNCHANGED <<toController, idsToController, toTask, argsReply, confirmation, bbpc>>

\* A mistake in the handling of Tag_StopBlackboard: it is not confirmed.
StopUnconfirmed ==
  /\ bbpc = "listening"
  /\ Arrived(toBlackboard, ID_Master, "StopBlackboard")
  /\ toBlackboard' = Take(toBlackboard, ID_Master)
  /\ bbpc' = "stopped"
  /\ UNCHANGED <<toController, idsToController, toTask, argsReply, confirmation>>

\* Tag_StopBlackboard: confirm and return from Activate.
Stop ==
  /\ bbpc = "listening"
  /\ Arrived(toBlackboard, ID_Master, "StopBlackboard")
  /\ toBlackboard' = Take(toBlackboard, ID_Master)
  /\ confirmation' = TRUE
  /\ bbpc' = "stopped"
  /\ UNCHANGED <<toController, idsToController, toTask, argsReply>>

BlackboardAction == (\E t \in Tasks : ReceiveEntry(t)) \/ Stop

=============================================================================
