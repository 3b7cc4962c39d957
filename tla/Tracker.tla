------------------------------ MODULE Tracker ------------------------------
(***************************************************************************)
(* The controller's record of the state of every task (Tracker.cpp).  The  *)
(* record is a function from the tasks to State; the zero-based index of   *)
(* the array is the task itself.  The branch of Tracker::SetState for an    *)
(* index out of range, which throws, is absent (see ForeignIDs, Network).  *)
(***************************************************************************)
EXTENDS States

\* Tracker::Tracker: no task has reported yet.
NewTracker(Tasks) == [t \in Tasks |-> "Unknown"]

\* A mistake in SetState: a report is ignored once the task has left Unknown.
FirstReportOnly(tr, t, s) == IF tr[t] = "Unknown" THEN [tr EXCEPT ![t] = s] ELSE tr

\* Tracker::SetState.
TrackState(tr, t, s) == [tr EXCEPT ![t] = s]

AreAllCreated(tr) == \A t \in DOMAIN tr : tr[t] = "Created"

\* A mistake in AreAllInitialized: one initialized task is taken for all.
AnyInitialized(tr) == \E t \in DOMAIN tr : tr[t] = "Initialized"

AreAllInitialized(tr) == \A t \in DOMAIN tr : tr[t] = "Initialized"

\* Mistakes in AreAllStopped: one stopped task is taken for all of them; a
\* paused task is taken for a stopped one.
AnyStopped(tr) == \E t \in DOMAIN tr : Ended(tr[t])
AllStoppedOrPaused(tr) ==
  \A t \in DOMAIN tr : Ended(tr[t]) \/ tr[t] \in {"Unknown", "Paused"}

\* A task that has not reported, State_Unknown, counts as stopped.
AreAllStopped(tr) == \A t \in DOMAIN tr : Ended(tr[t]) \/ tr[t] = "Unknown"

=============================================================================
