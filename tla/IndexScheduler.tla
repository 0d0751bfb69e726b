---------------------------- MODULE IndexScheduler ----------------------------
(***************************************************************************)
(* The durable scheduler: the `index_scheduler` document and the ticks of  *)
(* the processes that share it, with the intake gate, the manual posts     *)
(* that pass it, and the job rows both claim.                              *)
(*                                                                         *)
(* Times are distances from now, so the clock can run for ever: `due` is   *)
(* what is left until nextRunAtUtc and lease.time what is left of          *)
(* leaseUntil.  Every await of a tick is an action of its own.  What the   *)
(* worker does with a job (IndexService) is here one step that ends it, or *)
(* loses it.                                                               *)
(***************************************************************************)
EXTENDS JobStore, Sequences

CONSTANTS
    Procs,         \* owners: the schedulers that are running
    Gone,          \* owner written by a process that is no more
    Interval,      \* index_scheduler_interval_seconds
    LeaseTime,     \* index_job_lease_seconds, for the scheduler's own lease
    MaxAttempts,   \* index_scheduler_max_attempts
    TicksFit,      \* no tick outlasts the scheduler's lease
    Budgets        \* how often each disturbance may happen, in each mix (bounds)

Ops == {"post", "abandon", "crash", "tickFail", "storeFail"}

ASSUME OwnersAssumption == /\ Procs \subseteq Nat \ {NoOwner}
                           /\ Gone \in Nat \ (Procs \cup {NoOwner})
ASSUME TimesAssumption  == Interval \in Nat \ {0} /\ LeaseTime \in Nat \ {0}
ASSUME LimitsAssumption == /\ MaxAttempts \in Nat
                           /\ TicksFit \in BOOLEAN
                           /\ Budgets \subseteq [Ops -> Nat]

VARIABLES
    due,       \* time left until nextRunAtUtc, 0 when it has passed
    lease,     \* leaseOwner and the time left of leaseUntil
    paused,    \* the scheduler's pause
    intake,    \* the intake pause
    rows,      \* rag_index_jobs
    byTick,    \* the runs whose row has trigger "scheduled"
    ready,     \* content-ready runs with pages, by ContentReadyAt
    tick,      \* each process's tick
    post,      \* each process's manual post: the run that passed the gate
    since,     \* history: time since the last scheduled claim, up to Interval
    left       \* disturbances left of the mix chosen at the start

settings == <<paused, intake>>
jobs     == <<rows, byTick>>
vars     == <<due, lease, settings, jobs, ready, tick, post, since, left>>

-----------------------------------------------------------------------------
TickPcs == {"idle", "claim", "active", "exclude", "scan", "gate", "enqueue",
            "complete"}

IdleTick == [pc |-> "idle", not |-> {}, run |-> {}]

\* Between its claim of the due tick and the end of complete_scheduler_tick.
InTick(p) == tick[p].pc \notin {"idle", "claim"}

Waiting == {p \in Procs : InTick(p) /\ lease.owner = p}

Goto(p, pc) == tick' = [tick EXCEPT ![p].pc = pc]

Spend(op) == left[op] > 0 /\ left' = [left EXCEPT ![op] = @ - 1]

Ready == {ready[i] : i \in 1..Len(ready)}

Minus1(t) == IF t = 0 THEN 0 ELSE t - 1

Init ==
    /\ due = 0
    /\ lease = [owner |-> NoOwner, time |-> 0]
    /\ paused = FALSE
    /\ intake = FALSE
    /\ rows = [r \in Runs |-> NoRow]
    /\ byTick = {}
    /\ ready = <<>>
    /\ tick = [p \in Procs |-> IdleTick]
    /\ post = [p \in Procs |-> {}]
    /\ since = Interval
    /\ left \in Budgets

-----------------------------------------------------------------------------
(* One tick of the process p *)

\* claim_scheduler_due reads the document: not paused, and due.
TickPoll(p) ==
    /\ tick[p].pc = "idle"
    /\ ~paused
    /\ due = 0
    /\ Goto(p, "claim")
    /\ UNCHANGED <<due, lease, settings, jobs, ready, post, since, left>>

\* Mutant: the filter leaves the lease out.
TickClaimIgnoresLease(p) ==
    /\ tick[p].pc = "claim"
    /\ IF ~paused /\ due = 0
       THEN /\ lease' = [owner |-> p, time |-> LeaseTime]
            /\ since' = IF lease.owner = NoOwner THEN since ELSE Interval
            /\ Goto(p, "active")
       ELSE /\ Goto(p, "idle")
            /\ UNCHANGED <<lease, since>>
    /\ UNCHANGED <<due, settings, jobs, ready, post, left>>

\* Its find_one_and_update.  The history restarts when the tick before this one
\* was never completed: it left nextRunAtUtc where it was.
TickClaim(p) ==
    /\ tick[p].pc = "claim"
    /\ IF ~paused /\ due = 0 /\ lease.time = 0
       THEN /\ lease' = [owner |-> p, time |-> LeaseTime]
            /\ since' = IF lease.owner = NoOwner THEN since ELSE Interval
            /\ Goto(p, "active")
       ELSE /\ Goto(p, "idle")
            /\ UNCHANGED <<lease, since>>
    /\ UNCHANGED <<due, settings, jobs, ready, post, left>>

\* Mutant: a job is active only once it runs.
TickActiveRunning(p) ==
    /\ tick[p].pc = "active"
    /\ Goto(p, IF \E r \in Runs : ActivelyLeased(rows[r]) /\ rows[r].state = "running"
               THEN "complete" ELSE "exclude")
    /\ UNCHANGED <<due, lease, settings, jobs, ready, post, since, left>>

\* has_active_job
TickActive(p) ==
    /\ tick[p].pc = "active"
    /\ Goto(p, IF \E r \in Runs : ActivelyLeased(rows[r]) THEN "complete"
                                                         ELSE "exclude")
    /\ UNCHANGED <<due, lease, settings, jobs, ready, post, since, left>>

\* Mutant: every row excludes its run, whatever became of its lease.
TickExcludeAny(p) ==
    /\ tick[p].pc = "exclude"
    /\ tick' = [tick EXCEPT ![p].pc = "scan",
                            ![p].not = {r \in Runs : rows[r].state # "absent"}]
    /\ UNCHANGED <<due, lease, settings, jobs, ready, post, since, left>>

\* excluded_run_ids
TickExclude(p) ==
    /\ tick[p].pc = "exclude"
    /\ tick' = [tick EXCEPT ![p].pc = "scan",
                            ![p].not = {r \in Runs : Excluded(rows[r], MaxAttempts)}]
    /\ UNCHANGED <<due, lease, settings, jobs, ready, post, since, left>>

\* Mutant: any ready run, in no particular order.
TickScanAny(p) ==
    /\ tick[p].pc = "scan"
    /\ \/ /\ Ready \subseteq tick[p].not
          /\ Goto(p, "complete")
       \/ \E r \in Ready \ tick[p].not :
             tick' = [tick EXCEPT ![p].pc = "gate", ![p].run = {r}]
    /\ UNCHANGED <<due, lease, settings, jobs, ready, post, since, left>>

\* find_oldest_content_ready_run, over what was excluded a moment ago.
TickScan(p) ==
    /\ tick[p].pc = "scan"
    /\ \/ /\ Ready \subseteq tick[p].not
          /\ Goto(p, "complete")
       \/ \E i \in 1..Len(ready) :
             /\ ready[i] \notin tick[p].not
             /\ \A j \in 1..(i - 1) : ready[j] \in tick[p].not
             /\ tick' = [tick EXCEPT ![p].pc = "gate", ![p].run = {ready[i]}]
    /\ UNCHANGED <<due, lease, settings, jobs, ready, post, since, left>>

\* enqueue_scheduled: the intake gate.  A run that was selected is ready.
TickGate(p) ==
    /\ tick[p].pc = "gate"
    /\ Goto(p, IF intake THEN "complete" ELSE "enqueue")
    /\ UNCHANGED <<due, lease, settings, jobs, ready, post, since, left>>

\* The claim of the job row, by _enqueue.
ClaimJob(p, r, force) ==
    /\ Claimable(rows[r], force)
    /\ rows' = [rows EXCEPT ![r] = Claimed(@, p)]
    /\ byTick' = IF force THEN byTick \ {r} ELSE byTick \cup {r}

\* Mutant: the scheduler forces its claim, like a post.
TickEnqueueForced(p) ==
    /\ tick[p].pc = "enqueue"
    /\ \E r \in tick[p].run :
          \/ /\ Claimable(rows[r], TRUE)
             /\ rows' = [rows EXCEPT ![r] = Claimed(@, p)]
             /\ byTick' = byTick \cup {r}
             /\ since' = 0
          \/ /\ ~Claimable(rows[r], TRUE)
             /\ UNCHANGED <<jobs, since>>
    /\ Goto(p, "complete")
    /\ UNCHANGED <<due, lease, settings, ready, post, left>>

\* Refused, the run got a job since the scan.
TickEnqueue(p) ==
    /\ tick[p].pc = "enqueue"
    /\ \E r \in tick[p].run :
          \/ /\ ClaimJob(p, r, FALSE)
             /\ since' = 0
          \/ /\ ~Claimable(rows[r], FALSE)
             /\ UNCHANGED <<jobs, since>>
    /\ Goto(p, "complete")
    /\ UNCHANGED <<due, lease, settings, ready, post, left>>

\* An awaited call raises, or the scheduler is stopped: `finally` still
\* completes the tick.
TickFails(p) ==
    /\ tick[p].pc \in {"active", "exclude", "scan", "gate", "enqueue"}
    /\ Spend("tickFail")
    /\ Goto(p, "complete")
    /\ UNCHANGED <<due, lease, settings, jobs, ready, post, since>>

\* complete_scheduler_tick, unless another process has taken the lease.
TickComplete(p) ==
    /\ tick[p].pc = "complete"
    /\ IF lease.owner = p
       THEN /\ due' = Interval
            /\ lease' = [owner |-> NoOwner, time |-> 0]
       ELSE UNCHANGED <<due, lease>>
    /\ tick' = [tick EXCEPT ![p] = IdleTick]
    /\ UNCHANGED <<settings, jobs, ready, post, since, left>>

\* That write raises: the lease has to run out.
TickCompleteFails(p) ==
    /\ tick[p].pc = "complete"
    /\ Spend("storeFail")
    /\ tick' = [tick EXCEPT ![p] = IdleTick]
    /\ UNCHANGED <<due, lease, settings, jobs, ready, post, since>>

TickStep(p) == \/ TickPoll(p) \/ TickClaim(p) \/ TickActive(p) \/ TickExclude(p)
               \/ TickScan(p) \/ TickGate(p) \/ TickEnqueue(p) \/ TickFails(p)
               \/ TickComplete(p) \/ TickCompleteFails(p)

-----------------------------------------------------------------------------
(* The operator and GeekAPI *)

\* Mutant: a resume fires a tick at once.
SetPausedFires ==
    /\ paused' = ~paused
    /\ due' = IF paused THEN 0 ELSE due
    /\ UNCHANGED <<lease, intake, jobs, ready, tick, post, since, left>>

\* set_scheduler_paused: only the flag, never nextRunAtUtc.
SetPaused ==
    /\ paused' = ~paused
    /\ UNCHANGED <<due, lease, intake, jobs, ready, tick, post, since, left>>

\* set_intake_paused
SetIntake ==
    /\ intake' = ~intake
    /\ UNCHANGED <<due, lease, paused, jobs, ready, tick, post, since, left>>

\* start_index: the gate and the readiness of the run ...
PostGate(p, r) ==
    /\ post[p] = {}
    /\ ~intake
    /\ r \in Ready
    /\ Spend("post")
    /\ post' = [post EXCEPT ![p] = {r}]
    /\ UNCHANGED <<due, lease, settings, jobs, ready, tick, since>>

\* ... and then enqueue.
PostClaim(p) ==
    /\ \E r \in post[p] :
          \/ ClaimJob(p, r, TRUE)
          \/ ~Claimable(rows[r], TRUE) /\ UNCHANGED jobs
    /\ post' = [post EXCEPT ![p] = {}]
    /\ UNCHANGED <<due, lease, settings, ready, tick, since, left>>

\* GeekAPI stamps ContentReadyAt.
MakeReady(r) ==
    /\ r \notin Ready
    /\ ready' = Append(ready, r)
    /\ UNCHANGED <<due, lease, settings, jobs, tick, post, since, left>>

-----------------------------------------------------------------------------
(* What becomes of a job, and time *)

\* The worker ends it and releases the lease.
JobEnds(r) ==
    /\ ActivelyLeased(rows[r])
    /\ rows[r].owner # Gone
    /\ \E s \in {"complete", "failed"} :
          rows' = [rows EXCEPT ![r].state = s, ![r].owner = NoOwner, ![r].live = FALSE]
    /\ UNCHANGED <<due, lease, settings, byTick, ready, tick, post, since, left>>

\* Its process drops it: the row stays active with no lease.
JobAbandoned(r) ==
    /\ ActivelyLeased(rows[r])
    /\ Spend("abandon")
    /\ rows' = [rows EXCEPT ![r].owner = NoOwner, ![r].live = FALSE]
    /\ UNCHANGED <<due, lease, settings, byTick, ready, tick, post, since>>

\* Nobody renews the lease of a process that is gone.
JobLapses(r) ==
    /\ rows[r].live
    /\ rows[r].owner = Gone
    /\ rows' = [rows EXCEPT ![r] = Lapsed(@)]
    /\ UNCHANGED <<due, lease, settings, byTick, ready, tick, post, since, left>>

\* p dies and another process takes its place, under an owner of its own.
Crash(p) ==
    /\ Spend("crash")
    /\ tick' = [tick EXCEPT ![p] = IdleTick]
    /\ post' = [post EXCEPT ![p] = {}]
    /\ lease' = [lease EXCEPT !.owner = IF @ = p THEN Gone ELSE @]
    /\ rows' = [r \in Runs |-> [rows[r] EXCEPT !.owner = IF @ = p THEN Gone ELSE @]]
    /\ UNCHANGED <<due, settings, byTick, ready, since>>

Clock ==
    /\ TicksFit /\ Waiting # {} => lease.time > 1
    /\ due' = Minus1(due)
    /\ lease' = [lease EXCEPT !.time = Minus1(@)]
    /\ since' = IF since < Interval THEN since + 1 ELSE since
    /\ UNCHANGED <<settings, jobs, ready, tick, post, left>>

-----------------------------------------------------------------------------
Next ==
    \/ \E p \in Procs : \/ TickStep(p)
                        \/ PostClaim(p)
                        \/ Crash(p)
                        \/ \E r \in Runs : PostGate(p, r)
    \/ \E r \in Runs : MakeReady(r) \/ JobEnds(r) \/ JobAbandoned(r) \/ JobLapses(r)
    \/ SetPaused
    \/ SetIntake
    \/ Clock

Spec == Init /\ [][Next]_vars

\* A process polls and its calls are answered; a job that is leased by a process
\* ends; time passes.
Fairness ==
    /\ \A p \in Procs : WF_vars(TickStep(p) /\ UNCHANGED left)
    /\ \A r \in Runs : WF_vars(JobEnds(r)) /\ WF_vars(JobLapses(r))
    /\ WF_vars(Clock)

FairSpec == Spec /\ Fairness

-----------------------------------------------------------------------------
TypeOK ==
    /\ due \in 0..Interval
    /\ lease \in [owner : Procs \cup {NoOwner, Gone}, time : 0..LeaseTime]
    /\ paused \in BOOLEAN
    /\ intake \in BOOLEAN
    /\ rows \in [Runs -> Row]
    /\ byTick \in SUBSET Runs
    /\ ready \in Seq(Runs)
    /\ tick \in [Procs -> [pc : TickPcs, not : SUBSET Runs, run : SUBSET Runs]]
    /\ post \in [Procs -> SUBSET Runs]
    /\ since \in 0..Interval
    /\ left \in [Ops -> Nat]

\* As long as no tick outlasts its lease, two processes are never inside a due
\* tick together, through crashes, failing completions and pauses
\* (claim_scheduler_due, complete_scheduler_tick).
OneTickAtATime ==
    TicksFit => \A p, q \in Procs : InTick(p) /\ InTick(q) => p = q

\* The scheduler has at most one job of its own under a live lease at a time,
\* whatever is posted by hand meanwhile (tick, has_active_job).
OneScheduledJob ==
    TicksFit =>
        \A r, s \in byTick : ActivelyLeased(rows[r]) /\ ActivelyLeased(rows[s])
                                => r = s

\* A step in which p's tick claims the job of r.
Schedules(p, r) == /\ tick[p].pc = "enqueue"
                   /\ rows'[r].attempt > rows[r].attempt
                   /\ r \in byTick'

\* Two scheduled jobs are claimed an interval apart, over pauses, resumes and
\* ticks that found nothing, unless the tick between was never completed.
Cadence ==
    [][\A p \in Procs, r \in Runs : TicksFit /\ Schedules(p, r) => since = Interval]_vars

\* A run that finished while the scheduler was choosing is not indexed again.
NeverReruns ==
    [][\A p \in Procs, r \in Runs : Schedules(p, r) => ~IsTerminal(rows[r])]_vars

\* A run is not scheduled while one that was ready before it never had a job.
OldestFirst ==
    [][\A i, j \in 1..Len(ready) : \A p \in Procs :
          j < i /\ Schedules(p, ready[i]) => rows[ready[j]].state # "absent"]_vars

\* While the intake is paused no job is claimed.
IntakeHolds ==
    [][intake => \A r \in Runs : rows'[r].attempt = rows[r].attempt]_vars

\* Once nothing stays paused, every ready run gets a job that ends, again after
\* each crash or abandoned job, until its attempts are used up.
Settled(r) == \/ IsTerminal(rows[r])
              \/ rows[r].attempt >= MaxAttempts /\ ~ActivelyLeased(rows[r])

ReadyRunsSettle ==
    <>[](~paused /\ ~intake) => \A r \in Runs : [](r \in Ready => <>Settled(r))
=============================================================================
