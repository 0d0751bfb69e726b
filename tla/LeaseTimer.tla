----------------------------- MODULE LeaseTimer -----------------------------
(***************************************************************************)
(* The lease of one index job against the clock: it is taken when the job  *)
(* is enqueued, looked at when the worker reaches the job, and renewed by  *)
(* _heartbeat_loop, whose calls take time and may raise.  Other processes  *)
(* take the job as soon as the lease has run out.  IndexService lets a     *)
(* lease lapse at any moment; this module says when it can.                *)
(*                                                                         *)
(* Time passes in Tick and every clock is relative: `remaining` counts   *)
(* down and `since`, `age` and `over` count up: no bound on time is needed. *)
(***************************************************************************)
EXTENDS Integers

CONSTANTS
    Procs,    \* the processes that may index the run
    Nobody,   \* leaseOwner: null
    Lease,    \* index_job_lease_seconds
    Beat,     \* index_job_heartbeat_seconds
    Delay     \* longest a heartbeat call takes (a bound: the driver's timeouts)

\* What a deployment has to see to: the defaults are 900 and 60 seconds, and no
\* code refuses a beat as long as the lease, or ends a call as long as it.
ASSUME LeaseAssumption == /\ Lease \in Nat /\ Beat \in Nat \ {0} /\ Delay \in Nat
                          /\ Beat < Lease /\ Delay < Lease
ASSUME OwnerAssumption == Nobody \notin Procs

VARIABLES
    owner,   \* leaseOwner of the row
    remaining, \* time until leaseUntil, 0 once it has passed
    active,  \* the row's state is pending or running
    pc,      \* "out", "queued" behind other jobs, or "running" _index_run
    beat,    \* time left of the heartbeat's sleep
    call,    \* the heartbeat's call: "none", "sent" or its outcome
    age,     \* time since the call computed its `now`
    since,   \* time since last_success
    firm,    \* the lease was taken or renewed by this very execution
    over     \* time the job has run on without a lease

jobRow == <<owner, remaining, active>>
heart  == <<beat, call, age, since>>
timerVars == <<jobRow, pc, heart, firm, over>>

Calls == {"none", "sent", "renewed", "refused", "raised"}

\* leaseOwner = p and leaseUntil > now
Held(p) == owner = p /\ remaining > 0

\* is_owned
Owned(p) == Held(p) /\ active

\* Mutant: the limit leaves no room for the next sleep.
WholeLease == Lease

\* failure_limit
FailureLimit == IF Lease - Beat > 1 THEN Lease - Beat ELSE 1

TimerInit ==
    /\ owner = Nobody
    /\ remaining = 0
    /\ active = FALSE
    /\ pc = [p \in Procs |-> "out"]
    /\ beat = [p \in Procs |-> 0]
    /\ call = [p \in Procs |-> "none"]
    /\ age = [p \in Procs |-> 0]
    /\ since = [p \in Procs |-> 0]
    /\ firm = [p \in Procs |-> FALSE]
    /\ over = [p \in Procs |-> 0]

\* A sleep that is over and a call at its longest do not wait.
Due(p) == /\ pc[p] = "running"
          /\ IF call[p] = "none" THEN beat[p] = 0 ELSE age[p] = Delay

Tick ==
    /\ \A p \in Procs : ~Due(p)
    /\ remaining' = IF remaining > 0 THEN remaining - 1 ELSE 0
    /\ beat' = [p \in Procs |-> IF call[p] = "none" /\ beat[p] > 0
                                THEN beat[p] - 1 ELSE beat[p]]
    /\ age' = [p \in Procs |-> IF call[p] = "none" THEN 0 ELSE age[p] + 1]
    /\ since' = [p \in Procs |-> IF pc[p] = "running" THEN since[p] + 1 ELSE 0]
    /\ over' = [p \in Procs |-> IF pc[p] = "running" /\ ~Held(p)
                                THEN over[p] + 1 ELSE 0]
    /\ UNCHANGED <<owner, active, pc, call, firm>>

\* claim, when the job is enqueued: the row's lease has run out or was released.
Claim(p) ==
    /\ pc[p] = "out"
    /\ remaining = 0
    /\ owner' = p
    /\ remaining' = Lease
    /\ active' = TRUE
    /\ pc' = [pc EXCEPT ![p] = "queued"]
    /\ UNCHANGED <<heart, firm, over>>

\* The index task and the heartbeat start; last_success is now.
Run(p) ==
    /\ pc' = [pc EXCEPT ![p] = "running"]
    /\ beat' = [beat EXCEPT ![p] = Beat]
    /\ call' = [call EXCEPT ![p] = "none"]
    /\ age' = [age EXCEPT ![p] = 0]
    /\ since' = [since EXCEPT ![p] = 0]
    /\ over' = [over EXCEPT ![p] = 0]

\* _run_claimed_job when is_owned says yes: whatever is left of the lease.
StartOwned(p) ==
    /\ pc[p] = "queued"
    /\ Owned(p)
    /\ Run(p)
    /\ firm' = [firm EXCEPT ![p] = FALSE]
    /\ UNCHANGED jobRow

\* ... when it says no: reacquire, of a lease nobody else holds, unless another
\* process has ended the job meanwhile.
StartReacquired(p) ==
    /\ pc[p] = "queued"
    /\ remaining = 0
    /\ active
    /\ owner' = p
    /\ remaining' = Lease
    /\ Run(p)
    /\ firm' = [firm EXCEPT ![p] = TRUE]
    /\ UNCHANGED active

\* The job is over for p, and its finally releases what it still owns.
Leave(p) ==
    /\ pc' = [pc EXCEPT ![p] = "out"]
    /\ call' = [call EXCEPT ![p] = "none"]
    /\ beat' = [beat EXCEPT ![p] = 0]
    /\ age' = [age EXCEPT ![p] = 0]
    /\ since' = [since EXCEPT ![p] = 0]
    /\ over' = [over EXCEPT ![p] = 0]
    /\ firm' = [firm EXCEPT ![p] = FALSE]

Release(p) == IF owner = p THEN owner' = Nobody /\ remaining' = 0
              ELSE UNCHANGED <<owner, remaining>>

\* reacquire is refused.
StartRefused(p) ==
    /\ pc[p] = "queued"
    /\ ~Owned(p)
    /\ remaining > 0 \/ ~active
    /\ Leave(p)
    /\ Release(p)
    /\ UNCHANGED active

\* The job ends while the heartbeat sleeps or calls.  Its terminal save is
\* filtered on the owner.
Finish(p) ==
    /\ pc[p] = "running"
    /\ Leave(p)
    /\ Release(p)
    /\ active' = (active /\ owner # p)

\* The process dies, with the row as it is.
ProcessDies(p) ==
    /\ pc[p] # "out"
    /\ Leave(p)
    /\ UNCHANGED jobRow

\* heartbeat() computes its `now` and sends the update.
SendBeat(p) ==
    /\ pc[p] = "running"
    /\ call[p] = "none"
    /\ beat[p] = 0
    /\ call' = [call EXCEPT ![p] = "sent"]
    /\ age' = [age EXCEPT ![p] = 0]
    /\ UNCHANGED <<jobRow, pc, beat, since, firm, over>>

\* The update reaches the row: leaseUntil = the call's `now` + lease.  The
\* filter has no leaseUntil, so a lease that has run out is renewed too.
ApplyBeat(p) ==
    /\ call[p] = "sent"
    /\ \/ /\ owner = p /\ active
          /\ remaining' = Lease - age[p]
          /\ call' = [call EXCEPT ![p] = "renewed"]
          /\ over' = [over EXCEPT ![p] = 0]
       \/ /\ owner # p \/ ~active
          /\ call' = [call EXCEPT ![p] = "refused"]
          /\ UNCHANGED <<remaining, over>>
    /\ UNCHANGED <<owner, active, pc, beat, age, since, firm>>

\* The call raises, before or after the update was applied.
RaiseBeat(p) ==
    /\ call[p] \in {"sent", "renewed"}
    /\ call' = [call EXCEPT ![p] = "raised"]
    /\ UNCHANGED <<jobRow, pc, beat, age, since, firm, over>>

Sleep(p) ==
    /\ call' = [call EXCEPT ![p] = "none"]
    /\ age' = [age EXCEPT ![p] = 0]
    /\ beat' = [beat EXCEPT ![p] = Beat]

\* last_success = time.monotonic(), taken when the answer is in.
BeatRenewed(p) ==
    /\ call[p] = "renewed"
    /\ Sleep(p)
    /\ since' = [since EXCEPT ![p] = 0]
    /\ firm' = [firm EXCEPT ![p] = TRUE]
    /\ UNCHANGED <<jobRow, pc, over>>

\* Mutant: an error is always transient.
BeatAlwaysRetried(p) ==
    /\ call[p] = "raised"
    /\ Sleep(p)
    /\ UNCHANGED <<jobRow, pc, since, firm, over>>

\* A transient error: try again after the next sleep.
BeatRetried(p) ==
    /\ call[p] = "raised"
    /\ since[p] < FailureLimit
    /\ Sleep(p)
    /\ UNCHANGED <<jobRow, pc, since, firm, over>>

\* LeaseLostError: refused, or raising for failure_limit; the job is cancelled.
BeatLost(p) ==
    /\ \/ call[p] = "refused"
       \/ call[p] = "raised" /\ since[p] >= FailureLimit
    /\ Leave(p)
    /\ Release(p)
    /\ UNCHANGED active

TimerNext ==
    \/ Tick
    \/ \E p \in Procs :
          \/ Claim(p) \/ StartOwned(p) \/ StartReacquired(p) \/ StartRefused(p)
          \/ Finish(p) \/ ProcessDies(p)
          \/ SendBeat(p) \/ ApplyBeat(p) \/ RaiseBeat(p)
          \/ BeatRenewed(p) \/ BeatRetried(p) \/ BeatLost(p)

TimerSpec == TimerInit /\ [][TimerNext]_timerVars

-----------------------------------------------------------------------------
\* Every variable holds a value the row or the loop can have.
TimerTypeOK ==
    /\ owner \in Procs \cup {Nobody}
    /\ remaining \in 0..Lease
    /\ active \in BOOLEAN
    /\ pc \in [Procs -> {"out", "queued", "running"}]
    /\ beat \in [Procs -> 0..Beat]
    /\ call \in [Procs -> Calls]
    /\ age \in [Procs -> 0..Delay]
    /\ since \in [Procs -> Nat]
    /\ firm \in [Procs -> BOOLEAN]
    /\ over \in [Procs -> Nat]

\* A job that took or renewed its lease while it ran gives up before the lease
\* has run out, or less than two heartbeat calls later: failure_limit counts from
\* the answer of the last renewal and looks only when the next call has raised.
GivesUpInTime ==
    \A p \in Procs : pc[p] = "running" /\ firm[p] /\ ~Held(p)
                        => over[p] < 2 * Delay

\* A job that started on what was left of its lease may run on without one, yet
\* not for the length of another lease (_run_claimed_job, _heartbeat_loop).
OverrunIsBounded ==
    \A p \in Procs : over[p] + 1 < Lease + Delay

\* No job is in two processes at once (the docstring of reacquire).
OneIndexer ==
    \A p, q \in Procs : pc[p] = "running" /\ pc[q] = "running" => p = q
=============================================================================
