---------------------------- MODULE IndexService ----------------------------
(***************************************************************************)
(* The index job machinery of one Geek-Crawler-Rag process: the enqueuer,  *)
(* the single worker with its heartbeat, the operator's kill, status GETs, *)
(* the purge route, graceful stop, crash and restart, over the durable job *)
(* rows (JobStore), the run's points in Qdrant and the status frames that  *)
(* GeekAPI receives.                                                       *)
(*                                                                         *)
(* The process is one asyncio loop: what runs between two awaits is one    *)
(* action.  A read whose answer is acted on later is two actions (the read *)
(* and the continuation that uses it), because any other coroutine can run *)
(* in between; a write takes its payload when it is issued and reaches     *)
(* Mongo in an action of its own.                                          *)
(***************************************************************************)
EXTENDS JobStore, Sequences

CONSTANTS
    NoRun,        \* not a run
    MaxBatches,   \* most embed batches one attempt flushes (a bound)
    Budgets       \* how often each disturbance may happen, in each mix (bounds)

Ops == {"post", "tick", "kill", "get", "delete", "lapse", "crash", "stop",
        "storeFail", "hookFail", "indexFail"}

ASSUME NoRunAssumption == NoRun \notin Runs
ASSUME BatchesAssumption == MaxBatches \in Nat
ASSUME BudgetsAssumption == Budgets \subseteq [Ops -> Nat]

VARIABLES
    rows,    \* rag_index_jobs
    pts,     \* Qdrant: batches of the current attempt, leftovers of earlier ones
    told,    \* state in the last status frame GeekAPI took for each run
    me,      \* IndexService.owner
    stage,   \* "up", "stopping" (IndexService.stop) or "down"
    mem,     \* _statuses
    queue,   \* _queue
    killed,  \* the keys of _killed
    w,       \* _worker_loop and the _index_run it drives
    e,       \* the holder of _enqueue_lock
    k,       \* one kill request
    g,       \* one status GET
    d,       \* one DELETE of a run's index
    left     \* disturbances left of the mix chosen at the start

durable == <<rows, pts, told>>
memory  == <<mem, queue, killed>>
tasks   == <<w, e, k, g, d>>
vars    == <<durable, me, stage, memory, tasks, left>>

-----------------------------------------------------------------------------
(* Task records *)

WorkerPcs == {"idle", "own", "reacquire", "start", "save", "notify", "load",
              "plan", "wipe", "loop", "embed", "finish", "release", "dead"}

\* What follows a save: a point of _index_run, its return ("done"), or the
\* end of an exception handler of _worker_loop ("release").
Nexts == {"load", "plan", "loop", "finish", "done", "release"}

EnqueuePcs == {"idle", "claim", "accept", "save", "notify", "reread", "refused"}
KillPcs    == {"idle", "act", "save", "notify"}

\* alias: _statuses[run] is still the object the worker mutates.
IdleWorker  == [pc |-> "idle", run |-> NoRun, obj |-> NoStatus,
                alias |-> FALSE, next |-> "done"]
IdleEnqueue == [pc |-> "idle", run |-> NoRun, obj |-> NoStatus, force |-> FALSE]
IdleTask    == [pc |-> "idle", run |-> NoRun, obj |-> NoStatus]

\* Inside _run_claimed_job, where a cancellation reaches the worker's own
\* handlers; a save or notify of such a handler is outside it.
Indexing == /\ w.pc \notin {"idle", "release", "dead"}
            /\ ~(w.pc \in {"save", "notify"} /\ w.next = "release")

\* The index task and its heartbeat exist.
Heartbeating == Indexing /\ w.pc \notin {"own", "reacquire", "start"}

NoPoints == [fresh |-> 0, stale |-> FALSE]

Fail(s)     == [s EXCEPT !.state = "failed"]
Complete(s) == [s EXCEPT !.state = "complete"]

Spend(op) == left[op] > 0 /\ left' = [left EXCEPT ![op] = @ - 1]

\* _statuses[r] = s by another coroutine: the worker's object is detached.
Replace(r, s) ==
    /\ mem' = [mem EXCEPT ![r] = s]
    /\ w' = [w EXCEPT !.alias = w.alias /\ w.run # r]

-----------------------------------------------------------------------------
Init ==
    /\ rows = [r \in Runs |-> NoRow]
    /\ pts = [r \in Runs |-> NoPoints]
    /\ told = [r \in Runs |-> "absent"]
    /\ me = 1
    /\ stage = "up"
    /\ mem = [r \in Runs |-> NoStatus]
    /\ queue = <<>>
    /\ killed = {}
    /\ w = IdleWorker
    /\ e = IdleEnqueue
    /\ k = IdleTask
    /\ g = IdleTask
    /\ d = IdleTask
    /\ left \in Budgets

-----------------------------------------------------------------------------
(* Time: a lease nobody renewed runs out. *)

Lapse(r) ==
    /\ rows[r].live
    /\ Spend("lapse")
    /\ rows' = [rows EXCEPT ![r] = Lapsed(@)]
    /\ UNCHANGED <<pts, told, me, stage, memory, tasks>>

-----------------------------------------------------------------------------
(* POST /v1/index and the scheduler's enqueue: _enqueue, one at a time *)

\* _enqueue takes its lock and, for a run this process has not seen, loads
\* the stored status.
EnqueueStart(r, force) ==
    /\ stage = "up"
    /\ e.pc = "idle"
    /\ Spend(IF force THEN "post" ELSE "tick")
    /\ e' = [pc |-> "claim", run |-> r, obj |-> NoStatus, force |-> force]
    /\ mem' = IF mem[r].state = "absent"
              THEN [mem EXCEPT ![r] = StatusOf(rows[r])] ELSE mem
    /\ UNCHANGED <<durable, me, stage, queue, killed, w, k, g, d>>

\* claim reaches Mongo.
EnqueueClaim ==
    /\ e.pc = "claim"
    /\ \/ /\ Claimable(rows[e.run], e.force)
          /\ rows' = [rows EXCEPT ![e.run] = Claimed(@, me)]
          /\ e' = [e EXCEPT !.pc = "accept",
                            !.obj = StatusOf(Claimed(rows[e.run], me))]
       \/ /\ ~Claimable(rows[e.run], e.force)
          /\ e' = [e EXCEPT !.pc = "reread"]
          /\ UNCHANGED rows
    /\ UNCHANGED <<pts, told, me, stage, memory, w, k, g, d, left>>

\* claim raises (the update may have been applied): the request fails.
EnqueueClaimFails ==
    /\ e.pc = "claim"
    /\ Spend("storeFail")
    /\ e' = IdleEnqueue
    /\ \/ /\ Claimable(rows[e.run], e.force)
          /\ rows' = [rows EXCEPT ![e.run] = Claimed(@, me)]
       \/ UNCHANGED rows
    /\ UNCHANGED <<pts, told, me, stage, memory, w, k, g, d>>

\* A refused claim reads the row that refused it ...
EnqueueReread ==
    /\ e.pc = "reread"
    /\ e' = [e EXCEPT !.pc = "refused", !.obj = StatusOf(rows[e.run])]
    /\ UNCHANGED <<durable, me, stage, memory, w, k, g, d, left>>

\* ... and keeps it in _statuses (a row gone by now is a RuntimeError).
EnqueueRefused ==
    /\ e.pc = "refused"
    /\ e' = IdleEnqueue
    /\ IF e.obj.state = "absent" THEN UNCHANGED <<mem, w>>
       ELSE Replace(e.run, e.obj)
    /\ UNCHANGED <<durable, me, stage, queue, killed, k, g, d, left>>

\* An accepted claim clears the kill flag and issues the status write.
EnqueueAccept ==
    /\ e.pc = "accept"
    /\ killed' = killed \ {e.run}
    /\ Replace(e.run, e.obj)
    /\ e' = [e EXCEPT !.pc = "save"]
    /\ UNCHANGED <<durable, me, stage, queue, k, g, d, left>>

\* _persist's save: refused or failing, it skips the frame and the run is
\* queued all the same.
EnqueueSave ==
    /\ e.pc = "save"
    /\ \/ /\ Writable(rows[e.run], me)
          /\ rows' = [rows EXCEPT ![e.run] = Saved(@, e.obj)]
          /\ e' = [e EXCEPT !.pc = "notify"]
          /\ UNCHANGED <<queue, left>>
       \/ /\ ~Writable(rows[e.run], me)
          /\ e' = IdleEnqueue
          /\ queue' = Append(queue, e.run)
          /\ UNCHANGED <<rows, left>>
       \/ /\ Spend("storeFail")
          /\ e' = IdleEnqueue
          /\ queue' = Append(queue, e.run)
          /\ \/ /\ Writable(rows[e.run], me)
                /\ rows' = [rows EXCEPT ![e.run] = Saved(@, e.obj)]
             \/ UNCHANGED rows
    /\ UNCHANGED <<pts, told, me, stage, mem, killed, w, k, g, d>>

\* The frame is taken, or notify swallows the error; then _queue.put.
EnqueueNotify ==
    /\ e.pc = "notify"
    /\ \/ told' = [told EXCEPT ![e.run] = e.obj.state] /\ UNCHANGED left
       \/ Spend("hookFail") /\ UNCHANGED told
    /\ e' = IdleEnqueue
    /\ queue' = Append(queue, e.run)
    /\ UNCHANGED <<rows, pts, me, stage, mem, killed, w, k, g, d>>

EnqueueStep == \/ EnqueueClaim \/ EnqueueClaimFails \/ EnqueueReread
               \/ EnqueueRefused \/ EnqueueAccept \/ EnqueueSave
               \/ EnqueueNotify

-----------------------------------------------------------------------------
(* POST /v1/index/{run}/kill *)

\* get_status reads the row.
KillRead(r) ==
    /\ stage = "up"
    /\ k.pc = "idle"
    /\ Spend("kill")
    /\ k' = [pc |-> "act", run |-> r, obj |-> StatusOf(rows[r])]
    /\ UNCHANGED <<durable, me, stage, memory, w, e, g, d>>

\* kill decides on what it read; get_status has put that copy in _statuses.
KillAct ==
    /\ k.pc = "act"
    /\ \/ /\ k.obj.state = "absent"
          /\ k' = IdleTask
          /\ UNCHANGED <<mem, w, killed>>
       \/ /\ IsTerminal(k.obj)
          /\ Replace(k.run, k.obj)
          /\ k' = IdleTask
          /\ UNCHANGED killed
       \/ /\ k.obj.state = "running"
          /\ Replace(k.run, k.obj)
          /\ killed' = killed \cup {k.run}
          /\ k' = IdleTask
       \/ /\ k.obj.state = "pending"
          /\ Replace(k.run, Fail(k.obj))
          /\ killed' = killed \cup {k.run}
          /\ k' = [k EXCEPT !.pc = "save", !.obj = Fail(@)]
    /\ UNCHANGED <<durable, me, stage, queue, e, g, d, left>>

\* _fail_quarantined's save; refused or failing, there is no frame.
KillSave ==
    /\ k.pc = "save"
    /\ \/ /\ Writable(rows[k.run], me)
          /\ rows' = [rows EXCEPT ![k.run] = Saved(@, k.obj)]
          /\ k' = [k EXCEPT !.pc = "notify"]
          /\ UNCHANGED left
       \/ /\ ~Writable(rows[k.run], me)
          /\ k' = IdleTask
          /\ UNCHANGED <<rows, left>>
       \/ /\ Spend("storeFail")
          /\ k' = IdleTask
          /\ \/ /\ Writable(rows[k.run], me)
                /\ rows' = [rows EXCEPT ![k.run] = Saved(@, k.obj)]
             \/ UNCHANGED rows
    /\ UNCHANGED <<pts, told, me, stage, memory, w, e, g, d>>

KillNotify ==
    /\ k.pc = "notify"
    /\ \/ told' = [told EXCEPT ![k.run] = k.obj.state] /\ UNCHANGED left
       \/ Spend("hookFail") /\ UNCHANGED told
    /\ k' = IdleTask
    /\ UNCHANGED <<rows, pts, me, stage, memory, w, e, g, d>>

KillStep == KillAct \/ KillSave \/ KillNotify

-----------------------------------------------------------------------------
(* GET /v1/index/{run}: get_status *)

GetRead(r) ==
    /\ stage = "up"
    /\ g.pc = "idle"
    /\ rows[r].state # "absent"
    /\ Spend("get")
    /\ g' = [pc |-> "act", run |-> r, obj |-> StatusOf(rows[r])]
    /\ UNCHANGED <<durable, me, stage, memory, w, e, k, d>>

GetAct ==
    /\ g.pc = "act"
    /\ Replace(g.run, g.obj)
    /\ g' = IdleTask
    /\ UNCHANGED <<durable, me, stage, queue, killed, e, k, d, left>>

-----------------------------------------------------------------------------
(* DELETE /v1/index/runs/{run}: the vectors, then the row.  Neither         *)
(* _statuses nor the queue nor a running job is told.                       *)

DeletePoints(r) ==
    /\ stage = "up"
    /\ d.pc = "idle"
    /\ Spend("delete")
    /\ pts' = [pts EXCEPT ![r] = NoPoints]
    /\ d' = [pc |-> "act", run |-> r, obj |-> NoStatus]
    /\ UNCHANGED <<rows, told, me, stage, memory, w, e, k, g>>

DeleteRow ==
    /\ d.pc = "act"
    /\ rows' = [rows EXCEPT ![d.run] = NoRow]
    /\ d' = IdleTask
    /\ UNCHANGED <<pts, told, me, stage, memory, w, e, k, g, left>>

-----------------------------------------------------------------------------
(* _worker_loop, _run_claimed_job and _index_run *)

\* A write of the worker's own status object, visible in _statuses while that
\* is still the same object, then _persist.
WriteStatus(s, next) ==
    /\ w' = [w EXCEPT !.pc = "save", !.obj = s, !.next = next]
    /\ mem' = IF w.alias THEN [mem EXCEPT ![w.run] = s] ELSE mem

\* The `finally` of _worker_loop: the flag goes, then release is awaited.
Finally ==
    /\ killed' = killed \ {w.run}
    /\ w' = [w EXCEPT !.pc = "release", !.obj = NoStatus, !.alias = FALSE,
                      !.next = "done"]

\* The handlers of JobKilled, CancelledError and Exception in _worker_loop: they
\* fail what _statuses holds, unless that is terminal already.
Handler ==
    LET s == mem[w.run] IN
    IF IsActive(s)
    THEN /\ mem' = [mem EXCEPT ![w.run] = Fail(s)]
         /\ w' = [w EXCEPT !.pc = "save", !.obj = Fail(s), !.alias = TRUE,
                           !.next = "release"]
         /\ UNCHANGED killed
    ELSE Finally /\ UNCHANGED mem

\* After a _persist: on with the run, or leave it.
Continue ==
    IF w.next \in {"done", "release"} THEN Finally
    ELSE w' = [w EXCEPT !.pc = w.next] /\ UNCHANGED killed

\* Mutant: a killed job is dropped without releasing its lease.
WorkerTakeDropsKilled ==
    /\ stage = "up"
    /\ w.pc = "idle"
    /\ queue # <<>>
    /\ queue' = Tail(queue)
    /\ w' = IF Head(queue) \in killed THEN IdleWorker
            ELSE [IdleWorker EXCEPT !.run = Head(queue), !.pc = "own"]
    /\ killed' = killed \ {Head(queue)}
    /\ UNCHANGED <<durable, me, stage, mem, e, k, g, d, left>>

WorkerTake ==
    /\ stage = "up"
    /\ w.pc = "idle"
    /\ queue # <<>>
    /\ queue' = Tail(queue)
    /\ w' = [IdleWorker EXCEPT !.run = Head(queue),
                !.pc = IF Head(queue) \in killed THEN "release" ELSE "own"]
    /\ killed' = killed \ {Head(queue)}
    /\ UNCHANGED <<durable, me, stage, mem, e, k, g, d, left>>

WorkerOwn ==
    /\ w.pc = "own"
    /\ w' = [w EXCEPT !.pc = IF OwnedBy(rows[w.run], me) THEN "start"
                                                      ELSE "reacquire"]
    /\ UNCHANGED <<durable, me, stage, memory, e, k, g, d, left>>

\* A lease that cannot be taken is LeaseLostError: logged, nothing written.
WorkerReacquire ==
    /\ w.pc = "reacquire"
    /\ \/ /\ Reacquirable(rows[w.run], me)
          /\ rows' = [rows EXCEPT ![w.run] = Reacquired(@, me)]
          /\ w' = [w EXCEPT !.pc = "start"]
          /\ UNCHANGED killed
       \/ /\ ~Reacquirable(rows[w.run], me)
          /\ Finally
          /\ UNCHANGED rows
    /\ UNCHANGED <<pts, told, me, stage, mem, queue, e, k, g, d, left>>

\* The head of _index_run.  What the index still holds is from earlier attempts.
WorkerStart ==
    /\ w.pc = "start"
    /\ \/ /\ w.run \in killed
          /\ Handler
          /\ UNCHANGED pts
       \/ /\ w.run \notin killed
          /\ LET s == [mem[w.run] EXCEPT !.state = "running", !.chunks = 0] IN
             /\ mem' = [mem EXCEPT ![w.run] = s]
             /\ w' = [w EXCEPT !.pc = "save", !.obj = s, !.alias = TRUE,
                               !.next = "load"]
          /\ pts' = [pts EXCEPT ![w.run] =
                        [fresh |-> 0, stale |-> @.stale \/ @.fresh > 0]]
          /\ UNCHANGED killed
    /\ UNCHANGED <<rows, told, me, stage, queue, e, k, g, d, left>>

\* _persist: mid-run flushes (next = "loop") are written without a frame.
WorkerSave ==
    /\ w.pc = "save"
    /\ \/ /\ Writable(rows[w.run], me)
          /\ rows' = [rows EXCEPT ![w.run] = Saved(@, w.obj)]
          /\ IF w.next = "loop" THEN Continue
             ELSE w' = [w EXCEPT !.pc = "notify"] /\ UNCHANGED killed
          /\ UNCHANGED left
       \/ /\ ~Writable(rows[w.run], me)
          /\ Continue
          /\ UNCHANGED <<rows, left>>
       \/ /\ Spend("storeFail")
          /\ Continue
          /\ \/ /\ Writable(rows[w.run], me)
                /\ rows' = [rows EXCEPT ![w.run] = Saved(@, w.obj)]
             \/ UNCHANGED rows
    /\ UNCHANGED <<pts, told, me, stage, mem, queue, e, k, g, d>>

WorkerNotify ==
    /\ w.pc = "notify"
    /\ \/ told' = [told EXCEPT ![w.run] = w.obj.state] /\ UNCHANGED left
       \/ Spend("hookFail") /\ UNCHANGED told
    /\ Continue
    /\ UNCHANGED <<rows, pts, me, stage, mem, queue, e, k, g, d>>

\* get_run and count_pages: a run Mongo no longer has fails the job.
WorkerLoad ==
    /\ w.pc = "load"
    /\ \/ WriteStatus(w.obj, "plan")
       \/ WriteStatus(Fail(w.obj), "done")
    /\ UNCHANGED <<durable, me, stage, queue, killed, e, k, g, d, left>>

\* Mutant: a run without pages is complete before its points are deleted.
WorkerPlanEmptyFirst ==
    /\ w.pc = "plan"
    /\ \/ WriteStatus(Fail(w.obj), "done")
       \/ WriteStatus(Complete(w.obj), "done")
       \/ w' = [w EXCEPT !.pc = "wipe", !.next = "loop"] /\ UNCHANGED mem
    /\ UNCHANGED <<durable, me, stage, queue, killed, e, k, g, d, left>>

\* Over the page cap the job fails; else the run's points are deleted, with
\* pages to index after it or without.
WorkerPlan ==
    /\ w.pc = "plan"
    /\ \/ WriteStatus(Fail(w.obj), "done")
       \/ /\ \E next \in {"loop", "done"} :
                w' = [w EXCEPT !.pc = "wipe", !.next = next]
          /\ UNCHANGED mem
    /\ UNCHANGED <<durable, me, stage, queue, killed, e, k, g, d, left>>

\* _delete_run_points
WorkerWipe ==
    /\ w.pc = "wipe"
    /\ pts' = [pts EXCEPT ![w.run] = NoPoints]
    /\ IF w.next = "done" THEN WriteStatus(Complete(w.obj), "done")
       ELSE w' = [w EXCEPT !.pc = "loop"] /\ UNCHANGED mem
    /\ UNCHANGED <<rows, told, me, stage, queue, killed, e, k, g, d, left>>

\* Mutant: JobKilled ends the worker, not the job.
WorkerLoopDies ==
    /\ w.pc = "loop"
    /\ \/ /\ w.run \in killed
          /\ w' = [IdleWorker EXCEPT !.pc = "dead"]
          /\ UNCHANGED <<mem, killed>>
       \/ /\ w.run \notin killed
          /\ w.obj.chunks < MaxBatches
          /\ \E next \in {"loop", "finish"} :
                w' = [w EXCEPT !.pc = "embed", !.next = next]
          /\ UNCHANGED <<mem, killed>>
       \/ /\ WriteStatus(Complete(w.obj), "done")
          /\ UNCHANGED killed
    /\ UNCHANGED <<durable, me, stage, queue, e, k, g, d, left>>

\* The page loop, up to the next full batch (next = "loop") or the last partial
\* one (next = "finish").  Each passes a checkpoint; running out of pages with
\* nothing pending does not.
WorkerLoop ==
    /\ w.pc = "loop"
    /\ \/ /\ w.run \in killed
          /\ Handler
       \/ /\ w.run \notin killed
          /\ w.obj.chunks < MaxBatches
          /\ \E next \in {"loop", "finish"} :
                w' = [w EXCEPT !.pc = "embed", !.next = next]
          /\ UNCHANGED <<mem, killed>>
       \/ /\ WriteStatus(Complete(w.obj), "done")
          /\ UNCHANGED killed
    /\ UNCHANGED <<durable, me, stage, queue, e, k, g, d, left>>

\* Mutant: a failed batch is skipped and the run goes on.
WorkerEmbedSkips ==
    /\ w.pc = "embed"
    /\ \/ /\ pts' = [pts EXCEPT ![w.run].fresh = @ + 1]
          /\ WriteStatus([w.obj EXCEPT !.chunks = @ + 1], w.next)
          /\ UNCHANGED left
       \/ /\ Spend("indexFail")
          /\ \/ pts' = [pts EXCEPT ![w.run].fresh = @ + 1]
             \/ UNCHANGED pts
          /\ WriteStatus(w.obj, w.next)
    /\ UNCHANGED <<rows, told, me, stage, queue, killed, e, k, g, d>>

\* embed_and_upsert: the batch's points are in the index, then it is counted.
\* Failing (the circuit, Qdrant) it may have left points; the job fails.
WorkerEmbed ==
    /\ w.pc = "embed"
    /\ \/ /\ pts' = [pts EXCEPT ![w.run].fresh = @ + 1]
          /\ WriteStatus([w.obj EXCEPT !.chunks = @ + 1], w.next)
          /\ UNCHANGED left
       \/ /\ Spend("indexFail")
          /\ \/ pts' = [pts EXCEPT ![w.run].fresh = @ + 1]
             \/ UNCHANGED pts
          /\ WriteStatus(Fail(w.obj), "done")
    /\ UNCHANGED <<rows, told, me, stage, queue, killed, e, k, g, d>>

WorkerFinish ==
    /\ w.pc = "finish"
    /\ WriteStatus(Complete(w.obj), "done")
    /\ UNCHANGED <<durable, me, stage, queue, killed, e, k, g, d, left>>

\* Outside _index_run's try an error reaches _worker_loop's handler; inside it
\* the run's own object is failed.
WorkerRaises ==
    /\ Spend("indexFail")
    /\ \/ /\ w.pc \in {"own", "reacquire", "load", "wipe"}
          /\ Handler
       \/ /\ w.pc = "loop"
          /\ WriteStatus(Fail(w.obj), "done")
          /\ UNCHANGED killed
    /\ UNCHANGED <<durable, me, stage, queue, e, k, g, d>>

\* release; a worker that was cancelled does not take another job.
WorkerRelease ==
    /\ w.pc = "release"
    /\ \/ /\ rows' = [rows EXCEPT ![w.run] = Released(@, me)]
          /\ UNCHANGED left
       \/ /\ Spend("storeFail")
          /\ UNCHANGED rows
    /\ w' = IF stage = "up" THEN IdleWorker ELSE [IdleWorker EXCEPT !.pc = "dead"]
    /\ UNCHANGED <<pts, told, me, stage, memory, e, k, g, d>>

WorkerStep == \/ WorkerTake \/ WorkerOwn \/ WorkerReacquire \/ WorkerStart
              \/ WorkerSave \/ WorkerNotify \/ WorkerLoad \/ WorkerPlan
              \/ WorkerWipe \/ WorkerLoop \/ WorkerEmbed \/ WorkerFinish
              \/ WorkerRaises \/ WorkerRelease

\* _heartbeat_loop renews the lease, or finds it gone and the job is cancelled
\* where it stands: LeaseLostError, nothing written.
Heartbeat ==
    /\ Heartbeating
    /\ \/ /\ Renewable(rows[w.run], me)
          /\ rows' = [rows EXCEPT ![w.run] = Renewed(@)]
          /\ UNCHANGED <<killed, w>>
       \/ /\ ~Renewable(rows[w.run], me)
          /\ Finally
          /\ UNCHANGED rows
    /\ UNCHANGED <<pts, told, me, stage, mem, queue, e, k, g, d, left>>

\* Renewals kept raising for lease - heartbeat seconds.
HeartbeatGivesUp ==
    /\ Heartbeating
    /\ Spend("storeFail")
    /\ Finally
    /\ UNCHANGED <<durable, me, stage, mem, queue, e, k, g, d>>

-----------------------------------------------------------------------------
(* Shutdown, crash and restart *)

\* The lifespan's exit: HTTP requests are drained, a scheduled enqueue is
\* cancelled where it stands, the worker is cancelled.
StopBegin ==
    /\ stage = "up"
    /\ Spend("stop")
    /\ k.pc = "idle" /\ g.pc = "idle" /\ d.pc = "idle"
    /\ e.pc = "idle" \/ ~e.force
    /\ stage' = "stopping"
    /\ e' = IdleEnqueue
    /\ \/ /\ Indexing
          /\ Handler
       \/ /\ w.pc \in {"save", "notify"} /\ ~Indexing
          /\ Finally
          /\ UNCHANGED mem
       \/ /\ w.pc \in {"idle", "release"}
          /\ w' = [IdleWorker EXCEPT !.pc = "dead"]
          /\ UNCHANGED <<mem, killed>>
    /\ UNCHANGED <<durable, me, queue, k, g, d>>

\* stop() fails every job _statuses still shows as pending or running.
StopSweep(r) ==
    /\ stage = "stopping"
    /\ w.pc = "dead"
    /\ IsActive(mem[r])
    /\ mem' = [mem EXCEPT ![r] = Fail(@)]
    /\ \/ /\ Writable(rows[r], me)
          /\ rows' = [rows EXCEPT ![r] = Saved(@, Fail(mem[r]))]
          /\ \/ told' = [told EXCEPT ![r] = "failed"] /\ UNCHANGED left
             \/ Spend("hookFail") /\ UNCHANGED told
       \/ /\ ~Writable(rows[r], me)
          /\ UNCHANGED <<rows, told, left>>
       \/ /\ Spend("storeFail")
          /\ UNCHANGED <<rows, told>>
    /\ UNCHANGED <<pts, me, stage, queue, killed, tasks>>

StopDone ==
    /\ stage = "stopping"
    /\ w.pc = "dead"
    /\ \A r \in Runs : ~IsActive(mem[r])
    /\ stage' = "down"
    /\ UNCHANGED <<durable, me, memory, tasks, left>>

\* A process starts: nothing in memory, a new owner, and no recovery of the
\* rows an earlier one left.
Boot ==
    /\ me' = me + 1
    /\ stage' = "up"
    /\ mem' = [r \in Runs |-> NoStatus]
    /\ queue' = <<>>
    /\ killed' = {}
    /\ w' = IdleWorker
    /\ e' = IdleEnqueue
    /\ k' = IdleTask /\ g' = IdleTask /\ d' = IdleTask

Restart ==
    /\ stage = "down"
    /\ Boot
    /\ UNCHANGED <<durable, left>>

\* SIGKILL, then the next process.
Crash ==
    /\ stage # "down"
    /\ Spend("crash")
    /\ Boot
    /\ UNCHANGED durable

-----------------------------------------------------------------------------
Next ==
    \/ \E r \in Runs : \/ Lapse(r)
                       \/ \E force \in BOOLEAN : EnqueueStart(r, force)
                       \/ KillRead(r)
                       \/ GetRead(r)
                       \/ DeletePoints(r)
                       \/ StopSweep(r)
    \/ EnqueueStep
    \/ KillStep
    \/ GetAct
    \/ DeleteRow
    \/ WorkerStep
    \/ Heartbeat
    \/ HeartbeatGivesUp
    \/ StopBegin
    \/ StopDone
    \/ Restart
    \/ Crash

Spec == Init /\ [][Next]_vars

\* The loop never stops: a coroutine that can go on does, and Mongo, Qdrant and
\* GeekAPI answer it.  Nothing is promised of requests, leases, heartbeats or of
\* the steps that stand for a failure.
Fairness ==
    /\ WF_vars(WorkerStep /\ UNCHANGED left)
    /\ WF_vars(EnqueueStep /\ UNCHANGED left)
    /\ WF_vars(KillStep /\ UNCHANGED left)
    /\ WF_vars(GetAct)
    /\ WF_vars(DeleteRow)

FairSpec == Spec /\ Fairness

-----------------------------------------------------------------------------
(* Invariants *)

\* Every variable holds what the code can store in it.
TypeOK ==
    /\ rows \in [Runs -> Row]
    /\ pts \in [Runs -> [fresh : Nat, stale : BOOLEAN]]
    /\ told \in [Runs -> States \cup {"absent"}]
    /\ me \in Nat \ {0}
    /\ stage \in {"up", "stopping", "down"}
    /\ mem \in [Runs -> Status]
    /\ queue \in Seq(Runs)
    /\ killed \in SUBSET Runs
    /\ w \in [pc : WorkerPcs, run : Runs \cup {NoRun}, obj : Status,
              alias : BOOLEAN, next : Nexts]
    /\ w.pc \notin {"idle", "dead"} => w.run \in Runs
    /\ e \in [pc : EnqueuePcs, run : Runs \cup {NoRun}, obj : Status,
              force : BOOLEAN]
    /\ e.pc # "idle" => e.run \in Runs
    /\ k \in [pc : KillPcs, run : Runs \cup {NoRun}, obj : Status]
    /\ k.pc # "idle" => k.run \in Runs
    /\ g \in [pc : {"idle", "act"}, run : Runs \cup {NoRun}, obj : Status]
    /\ g.pc # "idle" => g.run \in Runs
    /\ d \in [pc : {"idle", "act"}, run : Runs \cup {NoRun}, obj : Status]
    /\ d.pc # "idle" => d.run \in Runs
    /\ left \in [Ops -> Nat]

Queued(r)    == \E i \in 1..Len(queue) : queue[i] = r
Enqueuing(r) == e.run = r /\ e.pc \in {"accept", "save", "notify"}
Working(r)   == w.run = r /\ w.pc \notin {"idle", "dead"}
InHand(r)    == Queued(r) \/ Enqueuing(r) \/ Working(r)
Purging(r)   == d.run = r /\ d.pc = "act"

\* A job this process leases and calls pending or running is in its queue, in
\* its enqueuer's hands or in its worker's: nothing it holds the lease of is
\* left with nobody to run it and release it (_enqueue, _worker_loop's finally).
LeaseInHand ==
    stage = "up" =>
        \A r \in Runs : IsActive(rows[r]) /\ rows[r].owner = me => InHand(r)

\* While a process is up, a pending or running row that it leases or that
\* nobody leases is in hand: no job hangs without a status (_worker_loop).
NoAbandonedJob ==
    stage = "up" =>
        \A r \in Runs : IsActive(rows[r]) /\ rows[r].owner \in {me, NoOwner}
                            => InHand(r)

\* A row that says complete counts exactly the batches in the index, with nothing
\* of an earlier attempt among them (_index_run: delete, then write).
CompleteIsWhole ==
    \A r \in Runs : rows[r].state = "complete" /\ ~Purging(r) =>
        pts[r] = [fresh |-> rows[r].chunks, stale |-> FALSE]

\* A run without a job row has no points (delete_run_index).
NoOrphanPoints ==
    \A r \in Runs : rows[r].state = "absent" => pts[r] = NoPoints

-----------------------------------------------------------------------------
(* What a step may never do *)

\* A recorded result is not overwritten by progress or by another result: a
\* terminal row is only queued again or purged (claim, _persist, the handlers).
ResultStands ==
    [][\A r \in Runs : IsTerminal(rows[r]) /\ rows'[r].state # rows[r].state
          => rows'[r].state \in {"pending", "absent"}]_vars

\* The lease a run waits under in this process is not taken from it by the end
\* of an earlier job (release, save's owner filter).
LeaseKept ==
    [][\A r \in Runs : /\ ActivelyLeased(rows[r]) /\ rows[r].owner = me
                       /\ Queued(r) \/ Enqueuing(r)
                       /\ me' = me
          => rows'[r].live]_vars

\* A saved terminal state's frame is not dropped by the sender.
TerminalFrameSent ==
    [][w.pc = "notify" /\ IsTerminal(w.obj) /\ w'.pc # "notify"
          => told'[w.run] = w.obj.state]_vars

\* A job another process leases is changed by this one only in a purge: not by
\* a claim, a re-acquired lease, a kill, a stop or a late save.
OthersLeaseRespected ==
    [][\A r \in Runs : ActivelyLeased(rows[r]) /\ rows[r].owner # me
          => rows'[r] \in {rows[r], Lapsed(rows[r]), NoRow}]_vars

-----------------------------------------------------------------------------
(* What must eventually happen *)

\* A kill hits one job: a run nobody kills still ends.
UnkilledJobsEnd ==
    \A r \in Runs : [](k.run # r) => (IsActive(rows[r]) ~> ~IsActive(rows[r]))

\* The process does not keep a lease for ever, whatever is killed meanwhile.
LeasesEnd ==
    \A r \in Runs : (IsActive(rows[r]) /\ rows[r].owner = me)
                        ~> ~(IsActive(rows[r]) /\ rows[r].owner = me)

-----------------------------------------------------------------------------
(* The promise it implements *)

\* JobLifecycle's view: the row's state, and whether the index holds exactly
\* what the row counts.
whole == [r \in Runs |-> pts[r] = [fresh |-> rows[r].chunks, stale |-> FALSE]]

Lifecycle == INSTANCE JobLifecycle WITH state <- [r \in Runs |-> rows[r].state]

\* Rows and points together go only through the steps of JobLifecycle.
ImplementsLifecycle == Lifecycle!Spec
=============================================================================
