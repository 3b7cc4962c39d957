----------------------------- MODULE Communicator -----------------------------
(***************************************************************************)
(* mtbmpi::Communicator, a communicator of some of the ranks, in a program *)
(* in which all ranks construct, close and destroy such objects, one after *)
(* another (Test_Communicator.cpp has one).  Create is collective over all *)
(* ranks and Free over those of the communicator; here both wait for all   *)
(* of them, as MPI allows.                                                 *)
(***************************************************************************)
EXTENDS Naturals

CONSTANTS
  NumRanks,     \* the size of COMM_WORLD
  MaxObjects    \* bound on the objects a rank constructs

ASSUME CommunicatorAssumption == NumRanks \in Nat \ {0, 1} /\ MaxObjects \in Nat

VARIABLES
  place,         \* [rank]: "outside" without an object, "creating" in Create,
                 \* "open", "freeing" in Free, or "closed"
  isInitialized, \* [rank]: the member of the object
  made,          \* [rank]: objects constructed
  createCalls,   \* [rank]: calls of Create
  freeCalls      \* [rank]: calls of Free

commVars == <<place, isInitialized, made, createCalls, freeCalls>>

WorldRanks == 0..(NumRanks - 1)

\* MakeRanksSequence: all ranks but that of the blackboard.
GroupRanks == {0} \cup 2..(NumRanks - 1)

CommunicatorInit ==
  /\ place = [r \in WorldRanks |-> "outside"]
  /\ isInitialized = [r \in WorldRanks |-> FALSE]
  /\ made = [r \in WorldRanks |-> 0]
  /\ createCalls = [r \in WorldRanks |-> 0]
  /\ freeCalls = [r \in WorldRanks |-> 0]

MoveTo(r, where) == place' = [place EXCEPT ![r] = where]

Count(calls, r) == [calls EXCEPT ![r] = @ + 1]

\* A mistake in the constructor: a rank outside of the group does not call
\* Create.
ConstructInGroup(r) ==
  /\ place[r] = "outside" /\ made[r] < MaxObjects
  /\ made' = Count(made, r)
  /\ IF r \in GroupRanks
       THEN MoveTo(r, "creating") /\ createCalls' = Count(createCalls, r)
       ELSE MoveTo(r, "open") /\ UNCHANGED createCalls
  /\ UNCHANGED <<isInitialized, freeCalls>>

\* Communicator::Communicator and Initialize, up to the call of Create, which
\* every rank makes with the same group.
ConstructCommunicator(r) ==
  /\ place[r] = "outside" /\ made[r] < MaxObjects
  /\ made' = Count(made, r)
  /\ MoveTo(r, "creating")
  /\ createCalls' = Count(createCalls, r)
  /\ UNCHANGED <<isInitialized, freeCalls>>

\* Create returns: COMM_NULL outside of the group.
Initialize(r) ==
  /\ place[r] = "creating"
  /\ \A q \in WorldRanks : createCalls[q] >= createCalls[r]
  /\ isInitialized' = [isInitialized EXCEPT ![r] = r \in GroupRanks]
  /\ MoveTo(r, "open")
  /\ UNCHANGED <<made, createCalls, freeCalls>>

\* Close up to the call of Free or, if it calls none, to its end.
CloseTo(r, after) ==
  /\ IF isInitialized[r]
       THEN MoveTo(r, "freeing") /\ freeCalls' = Count(freeCalls, r)
       ELSE MoveTo(r, after) /\ UNCHANGED freeCalls
  /\ UNCHANGED <<isInitialized, made, createCalls>>

Close(r) == place[r] \in {"open", "closed"} /\ CloseTo(r, "closed")

\* A mistake in Close: the object does not note that it is closed.
FreeUnmarked(r) ==
  /\ place[r] = "freeing"
  /\ \A q \in GroupRanks : freeCalls[q] >= freeCalls[r]
  /\ MoveTo(r, "closed")
  /\ UNCHANGED <<isInitialized, made, createCalls, freeCalls>>

\* Free returns in Close.
Free(r) ==
  /\ place[r] = "freeing"
  /\ \A q \in GroupRanks : freeCalls[q] >= freeCalls[r]
  /\ isInitialized' = [isInitialized EXCEPT ![r] = FALSE]
  /\ MoveTo(r, "closed")
  /\ UNCHANGED <<made, createCalls, freeCalls>>

\* ~Communicator calls Close, whether or not the caller has.  If it comes to
\* Free, the object is gone by a second Destruct behind it, which calls nothing.
Destruct(r) == place[r] \in {"open", "closed"} /\ CloseTo(r, "outside")

CommunicatorNext ==
  \E r \in WorldRanks :
    ConstructCommunicator(r) \/ Initialize(r) \/ Close(r) \/ Free(r) \/ Destruct(r)

CommunicatorSpec == CommunicatorInit /\ [][CommunicatorNext]_commVars

-----------------------------------------------------------------------------
\* A rank of the group has freed each communicator once, and another rank none,
\* however often its object is closed (Close and ~Communicator).
FreedOnce ==
  \A r \in WorldRanks :
    place[r] \in {"closed", "outside"} =>
      freeCalls[r] = IF r \in GroupRanks THEN made[r] ELSE 0

\* No rank waits in Create or in Free for a rank that has already passed the
\* place where it would call it for the same object, or never comes there.
WaitsAreMet ==
  \A r, q \in WorldRanks :
    /\ place[r] = "creating" =>
         createCalls[q] >= createCalls[r] \/ made[q] < made[r]
    /\ place[r] = "freeing" /\ q \in GroupRanks =>
         \/ freeCalls[q] >= freeCalls[r]
         \/ made[q] = made[r] /\ (place[q] = "creating" \/ (place[q] = "open" /\ isInitialized[q]))

=============================================================================
