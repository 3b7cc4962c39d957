-------------------------------- MODULE Job --------------------------------
(***************************************************************************)
(* What the framework promises of a job, without processes or messages:    *)
(* every worker is created, readied and begun, and all of them pass from   *)
(* one phase to the next behind a barrier; a worker may end in any phase;  *)
(* the job is closed once, when all workers have ended.                    *)
(***************************************************************************)
CONSTANT Workers

VARIABLES phase,    \* [w]: "new", "created", "ready", "begun" or "ended"
          ready,    \* the workers that became ready, those since ended too
          closed

jobVars == <<phase, ready, closed>>

Init ==
  /\ phase = [w \in Workers |-> "new"]
  /\ ready = {}
  /\ closed = FALSE

Advance(w, p) == phase' = [phase EXCEPT ![w] = p] /\ UNCHANGED closed

Create(w) == phase[w] = "new" /\ Advance(w, "created") /\ UNCHANGED ready

\* No worker is readied before all are created.
Ready(w) ==
  /\ phase[w] = "created"
  /\ \A v \in Workers : phase[v] # "new"
  /\ Advance(w, "ready")
  /\ ready' = ready \cup {w}

\* No worker begins before all have become ready.
Begin(w) == phase[w] = "ready" /\ ready = Workers /\ Advance(w, "begun") /\ UNCHANGED ready

End(w) == phase[w] \in {"created", "ready", "begun"} /\ Advance(w, "ended") /\ UNCHANGED ready

Close ==
  /\ ~closed
  /\ \A w \in Workers : phase[w] = "ended"
  /\ closed' = TRUE
  /\ UNCHANGED <<phase, ready>>

Next == Close \/ \E w \in Workers : Create(w) \/ Ready(w) \/ Begin(w) \/ End(w)

Spec == Init /\ [][Next]_jobVars

\* The job does not stop half way: since every worker may end, it is closed.
FairSpec == Spec /\ WF_jobVars(Next)

=============================================================================
