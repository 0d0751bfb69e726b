------------------------------ MODULE JobStore ------------------------------
(***************************************************************************)
(* One document of `rag_index_jobs` and the MongoDB filter and update that *)
(* each method of IndexStatusStore sends.  Mongo applies one such update   *)
(* atomically, so every method is an operator on one row: a predicate for  *)
(* its filter and a function for its update.  The callers decide when the  *)
(* update reaches the database and what happens before its answer is read. *)
(*                                                                         *)
(* A lease is abstracted to `live`: leaseUntil > now.  It goes stale when  *)
(* time passes (the caller's action) and is set by whoever takes it.       *)
(***************************************************************************)
EXTENDS Naturals

CONSTANT Runs       \* the crawl runs that may have a job

Active   == {"pending", "running"}
Terminal == {"complete", "failed", "skipped"}
States   == Active \cup Terminal

\* leaseOwner: null, or the uuid of a process.  Processes are numbered.
NoOwner == 0

Row == [state : States \cup {"absent"}, owner : Nat, live : BOOLEAN,
        attempt : Nat, chunks : Nat]

NoRow == [state |-> "absent", owner |-> NoOwner, live |-> FALSE,
          attempt |-> 0, chunks |-> 0]

\* IndexStatusResponse: what a process holds and writes.  The lease fields are
\* not part of it, so a save never touches them.
Status == [state : States \cup {"absent"}, attempt : Nat, chunks : Nat]

NoStatus == [state |-> "absent", attempt |-> 0, chunks |-> 0]

IsActive(s)   == s.state \in Active
IsTerminal(s) == s.state \in Terminal

-----------------------------------------------------------------------------
(* Reads *)

\* _from_doc: a row read back as a status.
StatusOf(row) ==
    [state |-> row.state, attempt |-> row.attempt, chunks |-> row.chunks]

\* is_owned
OwnedBy(row, o) == row.owner = o /\ row.live /\ IsActive(row)

\* has_active_job, for one row
ActivelyLeased(row) == IsActive(row) /\ row.live

\* excluded_run_ids: rows the scheduler must not select again
Excluded(row, maxAttempts) ==
    /\ row.state # "absent"
    /\ \/ IsTerminal(row)
       \/ ActivelyLeased(row)
       \/ row.attempt >= maxAttempts

-----------------------------------------------------------------------------
(* Updates *)

\* claim's filter; an absent row matches through the upsert.
Claimable(row, force) ==
    \/ row.state = "absent"
    \/ force /\ IsTerminal(row)
    \/ IsActive(row) /\ ~row.live

\* Mutant: the claimed row gets a state IndexState does not have.
ClaimedQueued(row, o) ==
    [row EXCEPT !.state = "queued", !.owner = o, !.live = TRUE,
                !.attempt = @ + 1]

Claimed(row, o) ==
    [row EXCEPT !.state = "pending", !.owner = o, !.live = TRUE,
                !.attempt = @ + 1]

\* Mutant: the state is not part of the filter.
ReacquirableAny(row, o) == row.state # "absent" /\ (~row.live \/ row.owner = o)

\* reacquire
Reacquirable(row, o) == IsActive(row) /\ (~row.live \/ row.owner = o)

Reacquired(row, o) == [row EXCEPT !.owner = o, !.live = TRUE]

\* heartbeat: the filter has no leaseUntil, so a lapsed lease is renewed too.
Renewable(row, o) == row.owner = o /\ IsActive(row)

Renewed(row) == [row EXCEPT !.live = TRUE]

\* Mutant: the filter is the run alone, as with owner=None.
WritableByAll(row, o) == row.state # "absent"

\* save(status, owner=o): the filter is the owner alone, neither the stored
\* state, nor the attempt, nor leaseUntil.
Writable(row, o) == row.state # "absent" /\ row.owner = o

Saved(row, s) ==
    [row EXCEPT !.state = s.state, !.attempt = s.attempt, !.chunks = s.chunks]

\* release
Released(row, o) ==
    IF row.state # "absent" /\ row.owner = o
    THEN [row EXCEPT !.owner = NoOwner, !.live = FALSE]
    ELSE row

\* time passing leaseUntil
Lapsed(row) == [row EXCEPT !.live = FALSE]
=============================================================================
