---------------------------- MODULE JobLifecycle ----------------------------
(***************************************************************************)
(* What the job rows promise to whoever reads them (GeekAPI, the operator, *)
(* the retrieval routes): the life of a run's job, and that "complete" is  *)
(* said only of an index that is whole and stays so until the run is       *)
(* queued again.  No process, lease, queue or message appears here;        *)
(* IndexService is shown to implement it.                                  *)
(***************************************************************************)
CONSTANT Runs

VARIABLES
    state,   \* the job's state, "absent" while it has no row
    whole    \* the index holds exactly the batches the row counts

vars == <<state, whole>>

Init ==
    /\ state = [r \in Runs |-> "absent"]
    /\ whole = [r \in Runs |-> TRUE]

\* _enqueue: any job, finished ones included, may be queued (again).
Accept(r) ==
    /\ state' = [state EXCEPT ![r] = "pending"]
    /\ \E b \in BOOLEAN : whole' = [whole EXCEPT ![r] = b]

\* The worker reaches it.
Start(r) ==
    /\ state[r] = "pending"
    /\ state' = [state EXCEPT ![r] = "running"]
    /\ \E b \in BOOLEAN : whole' = [whole EXCEPT ![r] = b]

\* Points are deleted and written, and counted, in any order of the two.
Write(r) ==
    /\ state[r] \in {"pending", "running"}
    /\ \E b \in BOOLEAN : whole' = [whole EXCEPT ![r] = b]
    /\ UNCHANGED state

Finish(r) ==
    /\ state[r] \in {"pending", "running"}
    /\ state' = [state EXCEPT ![r] = "complete"]
    /\ whole' = [whole EXCEPT ![r] = TRUE]

Abort(r) ==
    /\ state[r] \in {"pending", "running"}
    /\ state' = [state EXCEPT ![r] = "failed"]
    /\ \E b \in BOOLEAN : whole' = [whole EXCEPT ![r] = b]

Next == \E r \in Runs : \/ Accept(r) \/ Start(r) \/ Write(r)
                        \/ Finish(r) \/ Abort(r)

Spec == Init /\ [][Next]_vars
=============================================================================
