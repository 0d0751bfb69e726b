------------------------ MODULE IndexService_proofs ------------------------
(* Theorems about IndexService for every set of runs, every bound and every *)
(* budget of disturbances, and about the clock its leases run by, for every *)
(* lease, heartbeat and delay.                                              *)
EXTENDS IndexService, LeaseTimer, TLAPS

-----------------------------------------------------------------------------
(* Rows and statuses are closed under the store's operations. *)

\* An absent row is a row, an absent status a status.
LEMMA NullsTyped == NoRow \in Row /\ NoStatus \in Status
BY DEF NoRow, Row, NoStatus, Status, NoOwner, States

\* A row holds a status.
LEMMA StatusOfTyped ==
    ASSUME NEW row \in Row
    PROVE  StatusOf(row) \in Status
BY DEF StatusOf, Row, Status

\* The updates of a row are rows.
LEMMA RowUpdatesTyped ==
    ASSUME NEW row \in Row, NEW o \in Nat, NEW s \in Status
    PROVE  /\ Claimed(row, o) \in Row
           /\ Reacquired(row, o) \in Row
           /\ Renewed(row) \in Row
           /\ Saved(row, s) \in Row
           /\ Released(row, o) \in Row
           /\ Lapsed(row) \in Row
<1>1. Claimed(row, o) \in Row
  <2>1. row.attempt + 1 \in Nat
    BY DEF Row
  <2>2. QED
    BY <2>1 DEF Claimed, Row, States, Active, Terminal
<1>2. Reacquired(row, o) \in Row
  BY DEF Reacquired, Row
<1>3. Renewed(row) \in Row
  BY DEF Renewed, Row
<1>4. Saved(row, s) \in Row
  BY DEF Saved, Row, Status
<1>5. Released(row, o) \in Row
  BY DEF Released, Row, NoOwner
<1>6. Lapsed(row) \in Row
  BY DEF Lapsed, Row
<1>7. QED
  BY <1>1, <1>2, <1>3, <1>4, <1>5, <1>6

\* The updates of a status are statuses.
LEMMA StatusUpdatesTyped ==
    ASSUME NEW s \in Status
    PROVE  /\ Fail(s) \in Status
           /\ Complete(s) \in Status
           /\ [s EXCEPT !.state = "running", !.chunks = 0] \in Status
           /\ [s EXCEPT !.chunks = @ + 1] \in Status
<1>1. Fail(s) \in Status
  BY DEF Fail, Status, States, Active, Terminal
<1>2. Complete(s) \in Status
  BY DEF Complete, Status, States, Active, Terminal
<1>3. [s EXCEPT !.state = "running", !.chunks = 0] \in Status
  BY DEF Status, States, Active, Terminal
<1>4. [s EXCEPT !.chunks = @ + 1] \in Status
  <2>1. s.chunks + 1 \in Nat
    BY DEF Status
  <2>2. QED
    BY <2>1 DEF Status
<1>5. QED
  BY <1>1, <1>2, <1>3, <1>4

-----------------------------------------------------------------------------
(* Typing of the helpers that several actions share. *)

WorkerType == [pc : WorkerPcs, run : Runs \cup {NoRun}, obj : Status,
               alias : BOOLEAN, next : Nexts]
EnqueueType == [pc : EnqueuePcs, run : Runs \cup {NoRun}, obj : Status,
                force : BOOLEAN]
KillType == [pc : KillPcs, run : Runs \cup {NoRun}, obj : Status]
RequestType == [pc : {"idle", "act"}, run : Runs \cup {NoRun}, obj : Status]

\* The part of the type invariant each helper writes.
MemOK    == mem \in [Runs -> Status]
KilledOK == killed \in SUBSET Runs
WorkerOK == w \in WorkerType /\ (w.pc \notin {"idle", "dead"} => w.run \in Runs)
EnqueueOK == e \in EnqueueType /\ (e.pc # "idle" => e.run \in Runs)
KillOK == k \in KillType /\ (k.pc # "idle" => k.run \in Runs)
GetOK == g \in RequestType /\ (g.pc # "idle" => g.run \in Runs)
PurgeOK == d \in RequestType /\ (d.pc # "idle" => d.run \in Runs)
RowsOK == rows \in [Runs -> Row]
PtsOK == pts \in [Runs -> [fresh : Nat, stale : BOOLEAN]]
ToldOK == told \in [Runs -> States \cup {"absent"}]
MeOK == me \in Nat \ {0} /\ stage \in {"up", "stopping", "down"}
QueueOK == queue \in Seq(Runs)
LeftOK == left \in [Ops -> Nat]

Typed == /\ RowsOK /\ PtsOK /\ ToldOK /\ MeOK /\ MemOK /\ QueueOK /\ KilledOK
         /\ WorkerOK /\ EnqueueOK /\ KillOK /\ GetOK /\ PurgeOK /\ LeftOK

\* The type invariant, one conjunct a variable.
LEMMA TypedIsTypeOK == Typed <=> TypeOK
BY DEF Typed, TypeOK, RowsOK, PtsOK, ToldOK, MeOK, MemOK, QueueOK, KilledOK,
       WorkerOK, EnqueueOK, KillOK, GetOK, PurgeOK, LeftOK, WorkerType,
       EnqueueType, KillType, RequestType

\* Spending a bound leaves a bound.
LEMMA SpendTyped ==
    ASSUME LeftOK, NEW op \in Ops, Spend(op)
    PROVE  LeftOK'
BY DEF LeftOK, Spend

\* A replaced status is a status.
LEMMA ReplaceTyped ==
    ASSUME MemOK, WorkerOK, NEW r \in Runs, NEW s \in Status, Replace(r, s)
    PROVE  MemOK' /\ WorkerOK'
<1>1. MemOK'
  BY DEF MemOK, Replace
<1>2. WorkerOK'
  BY DEF WorkerOK, Replace, WorkerType
<1>3. QED
  BY <1>1, <1>2

\* So is one the worker writes.
LEMMA WriteStatusTyped ==
    ASSUME MemOK, WorkerOK, w.run \in Runs, NEW s \in Status, NEW next \in Nexts,
           WriteStatus(s, next)
    PROVE  MemOK' /\ WorkerOK'
<1>1. MemOK'
  BY DEF MemOK, WriteStatus
<1>2. WorkerOK'
  BY DEF WorkerOK, WriteStatus, WorkerType, WorkerPcs
<1>3. QED
  BY <1>1, <1>2

\* The worker's finally keeps the types.
LEMMA FinallyTyped ==
    ASSUME KilledOK, WorkerOK, w.run \in Runs, Finally
    PROVE  KilledOK' /\ WorkerOK'
<1>1. KilledOK'
  BY DEF KilledOK, Finally
<1>2. WorkerOK'
  BY NullsTyped DEF WorkerOK, Finally, WorkerType, WorkerPcs, Nexts
<1>3. QED
  BY <1>1, <1>2

\* So does its handler.
LEMMA HandlerTyped ==
    ASSUME MemOK, KilledOK, WorkerOK, w.run \in Runs, Handler
    PROVE  MemOK' /\ KilledOK' /\ WorkerOK'
<1>1. CASE IsActive(mem[w.run])
  <2>1. Fail(mem[w.run]) \in Status
    BY StatusUpdatesTyped DEF MemOK
  <2>2. MemOK'
    BY <1>1, <2>1 DEF MemOK, Handler
  <2>3. KilledOK'
    BY <1>1 DEF KilledOK, Handler
  <2>4. WorkerOK'
    BY <1>1, <2>1 DEF WorkerOK, Handler, WorkerType, WorkerPcs, Nexts
  <2>5. QED
    BY <2>2, <2>3, <2>4
<1>2. CASE ~IsActive(mem[w.run])
  <2>1. Finally /\ UNCHANGED mem
    BY <1>2 DEF Handler
  <2>2. QED
    BY <2>1, FinallyTyped DEF MemOK
<1>3. QED
  BY <1>1, <1>2

\* So does what follows a save.
LEMMA ContinueTyped ==
    ASSUME KilledOK, WorkerOK, w.run \in Runs, w.pc \in {"save", "notify"}, Continue
    PROVE  KilledOK' /\ WorkerOK'
<1>1. CASE w.next \in {"done", "release"}
  BY <1>1, FinallyTyped DEF Continue
<1>2. CASE w.next \notin {"done", "release"}
  BY <1>2 DEF Continue, KilledOK, WorkerOK, WorkerType, WorkerPcs, Nexts
<1>3. QED
  BY <1>1, <1>2

-----------------------------------------------------------------------------
(* Every action keeps the types. *)

\* The first steps of requests keep the types.
LEMMA RequestsTyped ==
    ASSUME Typed, NEW r \in Runs,
           \/ Lapse(r) \/ \E force \in BOOLEAN : EnqueueStart(r, force)
           \/ KillRead(r) \/ GetRead(r) \/ DeletePoints(r)
    PROVE  Typed'
<1> USE DEF Typed, durable, memory, tasks
<1>0. rows[r] \in Row /\ StatusOf(rows[r]) \in Status
  BY StatusOfTyped DEF RowsOK
<1>1. CASE Lapse(r)
  <2>1. RowsOK'
    BY <1>0, <1>1, RowUpdatesTyped DEF Lapse, RowsOK, MeOK
  <2>2. LeftOK'
    BY <1>1, SpendTyped DEF Lapse, Ops
  <2>3. QED
    BY <1>1, <2>1, <2>2 DEF Lapse, PtsOK, ToldOK, MeOK, MemOK, QueueOK,
       KilledOK, WorkerOK, EnqueueOK, KillOK, GetOK, PurgeOK
<1>2. CASE \E force \in BOOLEAN : EnqueueStart(r, force)
  <2>1. PICK force \in BOOLEAN : EnqueueStart(r, force)
    BY <1>2
  <2>2. LeftOK'
    BY <2>1, SpendTyped DEF EnqueueStart, Ops
  <2>3. MemOK'
    BY <1>0, <2>1 DEF EnqueueStart, MemOK
  <2>4. EnqueueOK'
    BY <2>1, NullsTyped DEF EnqueueStart, EnqueueOK, EnqueueType, EnqueuePcs
  <2>5. QED
    BY <2>1, <2>2, <2>3, <2>4 DEF EnqueueStart, RowsOK, PtsOK, ToldOK, MeOK,
       QueueOK, KilledOK, WorkerOK, KillOK, GetOK, PurgeOK
<1>3. CASE KillRead(r)
  <2>1. LeftOK'
    BY <1>3, SpendTyped DEF KillRead, Ops
  <2>2. KillOK'
    BY <1>0, <1>3 DEF KillRead, KillOK, KillType, KillPcs
  <2>3. QED
    BY <1>3, <2>1, <2>2 DEF KillRead, RowsOK, PtsOK, ToldOK, MeOK, MemOK,
       QueueOK, KilledOK, WorkerOK, EnqueueOK, GetOK, PurgeOK
<1>4. CASE GetRead(r)
  <2>1. LeftOK'
    BY <1>4, SpendTyped DEF GetRead, Ops
  <2>2. GetOK'
    BY <1>0, <1>4 DEF GetRead, GetOK, RequestType
  <2>3. QED
    BY <1>4, <2>1, <2>2 DEF GetRead, RowsOK, PtsOK, ToldOK, MeOK, MemOK,
       QueueOK, KilledOK, WorkerOK, EnqueueOK, KillOK, PurgeOK
<1>5. CASE DeletePoints(r)
  <2>1. LeftOK'
    BY <1>5, SpendTyped DEF DeletePoints, Ops
  <2>2. PtsOK'
    BY <1>5 DEF DeletePoints, PtsOK, NoPoints
  <2>3. PurgeOK'
    BY <1>5, NullsTyped DEF DeletePoints, PurgeOK, RequestType
  <2>4. QED
    BY <1>5, <2>1, <2>2, <2>3 DEF DeletePoints, RowsOK, ToldOK, MeOK, MemOK,
       QueueOK, KilledOK, WorkerOK, EnqueueOK, KillOK, GetOK
<1>6. QED
  BY <1>1, <1>2, <1>3, <1>4, <1>5

\* So do the steps of a post.
LEMMA EnqueueTyped ==
    ASSUME Typed, EnqueueStep
    PROVE  Typed'
<1> USE DEF Typed, durable, memory, tasks
<1> DEFINE r == e.run
<1>0. /\ e.pc # "idle"
      /\ r \in Runs
      /\ rows[r] \in Row
      /\ StatusOf(rows[r]) \in Status
      /\ e.obj \in Status
  BY StatusOfTyped DEF EnqueueStep, EnqueueClaim, EnqueueClaimFails,
     EnqueueReread, EnqueueRefused, EnqueueAccept, EnqueueSave, EnqueueNotify,
     RowsOK, EnqueueOK, EnqueueType
<1>1. Claimed(rows[r], me) \in Row /\ StatusOf(Claimed(rows[r], me)) \in Status
  BY <1>0, StatusOfTyped, RowUpdatesTyped DEF MeOK
<1>2. Saved(rows[r], e.obj) \in Row
  BY <1>0, RowUpdatesTyped, NullsTyped DEF MeOK
<1>3. IdleEnqueue \in EnqueueType /\ IdleEnqueue.pc = "idle"
  BY NullsTyped DEF IdleEnqueue, EnqueueType, EnqueuePcs
<1>4. CASE EnqueueClaim
  <2>1. RowsOK'
    BY <1>0, <1>1, <1>4 DEF EnqueueClaim, RowsOK
  <2>2. EnqueueOK'
    BY <1>0, <1>1, <1>4 DEF EnqueueClaim, EnqueueOK, EnqueueType, EnqueuePcs
  <2>3. QED
    BY <1>4, <2>1, <2>2 DEF EnqueueClaim, PtsOK, ToldOK, MeOK, MemOK, QueueOK,
       KilledOK, WorkerOK, KillOK, GetOK, PurgeOK, LeftOK
<1>5. CASE EnqueueClaimFails
  <2>1. RowsOK'
    BY <1>0, <1>1, <1>5 DEF EnqueueClaimFails, RowsOK
  <2>2. EnqueueOK'
    BY <1>3, <1>5 DEF EnqueueClaimFails, EnqueueOK
  <2>3. LeftOK'
    BY <1>5, SpendTyped DEF EnqueueClaimFails, Ops
  <2>4. QED
    BY <1>5, <2>1, <2>2, <2>3 DEF EnqueueClaimFails, PtsOK, ToldOK, MeOK,
       MemOK, QueueOK, KilledOK, WorkerOK, KillOK, GetOK, PurgeOK
<1>6. CASE EnqueueReread
  <2>1. EnqueueOK'
    BY <1>0, <1>6 DEF EnqueueReread, EnqueueOK, EnqueueType, EnqueuePcs
  <2>2. QED
    BY <1>6, <2>1 DEF EnqueueReread, RowsOK, PtsOK, ToldOK, MeOK, MemOK,
       QueueOK, KilledOK, WorkerOK, KillOK, GetOK, PurgeOK, LeftOK
<1>7. CASE EnqueueRefused
  <2>1. EnqueueOK'
    BY <1>3, <1>7 DEF EnqueueRefused, EnqueueOK
  <2>2. MemOK' /\ WorkerOK'
    BY <1>0, <1>7, ReplaceTyped DEF EnqueueRefused, MemOK, WorkerOK
  <2>3. QED
    BY <1>7, <2>1, <2>2 DEF EnqueueRefused, RowsOK, PtsOK, ToldOK, MeOK,
       QueueOK, KilledOK, KillOK, GetOK, PurgeOK, LeftOK
<1>8. CASE EnqueueAccept
  <2>1. EnqueueOK'
    BY <1>0, <1>8 DEF EnqueueAccept, EnqueueOK, EnqueueType, EnqueuePcs
  <2>2. MemOK' /\ WorkerOK'
    BY <1>0, <1>8, ReplaceTyped DEF EnqueueAccept
  <2>3. KilledOK'
    BY <1>8 DEF EnqueueAccept, KilledOK
  <2>4. QED
    BY <1>8, <2>1, <2>2, <2>3 DEF EnqueueAccept, RowsOK, PtsOK, ToldOK, MeOK,
       QueueOK, KillOK, GetOK, PurgeOK, LeftOK
<1>9. CASE EnqueueSave
  <2>1. RowsOK'
    BY <1>0, <1>2, <1>9 DEF EnqueueSave, RowsOK
  <2>2. EnqueueOK'
    BY <1>0, <1>3, <1>9 DEF EnqueueSave, EnqueueOK, EnqueueType, EnqueuePcs
  <2>3. QueueOK'
    BY <1>0, <1>9 DEF EnqueueSave, QueueOK
  <2>4. LeftOK'
    BY <1>9, SpendTyped DEF EnqueueSave, LeftOK, Ops
  <2>5. QED
    BY <1>9, <2>1, <2>2, <2>3, <2>4 DEF EnqueueSave, PtsOK, ToldOK, MeOK,
       MemOK, KilledOK, WorkerOK, KillOK, GetOK, PurgeOK
<1>10. CASE EnqueueNotify
  <2>1. ToldOK'
    BY <1>0, <1>10 DEF EnqueueNotify, ToldOK, Status
  <2>2. EnqueueOK'
    BY <1>3, <1>10 DEF EnqueueNotify, EnqueueOK
  <2>3. QueueOK'
    BY <1>0, <1>10 DEF EnqueueNotify, QueueOK
  <2>4. LeftOK'
    BY <1>10, SpendTyped DEF EnqueueNotify, LeftOK, Ops
  <2>5. QED
    BY <1>10, <2>1, <2>2, <2>3, <2>4 DEF EnqueueNotify, RowsOK, PtsOK, MeOK,
       MemOK, KilledOK, WorkerOK, KillOK, GetOK, PurgeOK
<1>11. QED
  BY <1>4, <1>5, <1>6, <1>7, <1>8, <1>9, <1>10 DEF EnqueueStep

\* So do those of a kill, a get and a delete.
LEMMA KillGetPurgeTyped ==
    ASSUME Typed, KillStep \/ GetAct \/ DeleteRow
    PROVE  Typed'
<1> USE DEF Typed, durable, memory, tasks
<1>1. IdleTask \in KillType /\ IdleTask \in RequestType /\ IdleTask.pc = "idle"
  BY NullsTyped DEF IdleTask, KillType, RequestType, KillPcs
<1>2. ASSUME k.pc # "idle"
      PROVE  /\ k.run \in Runs
             /\ k.obj \in Status
             /\ Fail(k.obj) \in Status
             /\ Saved(rows[k.run], k.obj) \in Row
  BY <1>2, StatusUpdatesTyped, RowUpdatesTyped DEF KillOK, KillType, RowsOK, MeOK
<1>3. CASE KillAct
  <2>1. MemOK' /\ WorkerOK'
    BY <1>3, <1>2, ReplaceTyped DEF KillAct, MemOK, WorkerOK
  <2>2. KilledOK'
    BY <1>3, <1>2 DEF KillAct, KilledOK
  <2>3. KillOK'
    BY <1>3, <1>1, <1>2 DEF KillAct, KillOK, KillType, KillPcs
  <2>4. QED
    BY <1>3, <2>1, <2>2, <2>3 DEF KillAct, RowsOK, PtsOK, ToldOK, MeOK,
       QueueOK, EnqueueOK, GetOK, PurgeOK, LeftOK
<1>4. CASE KillSave
  <2>1. RowsOK'
    BY <1>4, <1>2 DEF KillSave, RowsOK
  <2>2. KillOK'
    BY <1>4, <1>1, <1>2 DEF KillSave, KillOK, KillType, KillPcs
  <2>3. LeftOK'
    BY <1>4, SpendTyped DEF KillSave, LeftOK, Ops
  <2>4. QED
    BY <1>4, <2>1, <2>2, <2>3 DEF KillSave, PtsOK, ToldOK, MeOK, MemOK,
       QueueOK, KilledOK, WorkerOK, EnqueueOK, GetOK, PurgeOK
<1>5. CASE KillNotify
  <2>1. ToldOK'
    BY <1>5, <1>2 DEF KillNotify, ToldOK, Status
  <2>2. KillOK'
    BY <1>5, <1>1 DEF KillNotify, KillOK
  <2>3. LeftOK'
    BY <1>5, SpendTyped DEF KillNotify, LeftOK, Ops
  <2>4. QED
    BY <1>5, <2>1, <2>2, <2>3 DEF KillNotify, RowsOK, PtsOK, MeOK, MemOK,
       QueueOK, KilledOK, WorkerOK, EnqueueOK, GetOK, PurgeOK
<1>6. CASE GetAct
  <2>1. MemOK' /\ WorkerOK'
    BY <1>6, ReplaceTyped DEF GetAct, GetOK, RequestType
  <2>2. GetOK'
    BY <1>6, <1>1 DEF GetAct, GetOK
  <2>3. QED
    BY <1>6, <2>1, <2>2 DEF GetAct, RowsOK, PtsOK, ToldOK, MeOK, QueueOK,
       KilledOK, EnqueueOK, KillOK, PurgeOK, LeftOK
<1>7. CASE DeleteRow
  <2>1. RowsOK'
    BY <1>7, NullsTyped DEF DeleteRow, RowsOK, PurgeOK
  <2>2. PurgeOK'
    BY <1>7, <1>1 DEF DeleteRow, PurgeOK
  <2>3. QED
    BY <1>7, <2>1, <2>2 DEF DeleteRow, PtsOK, ToldOK, MeOK, MemOK, QueueOK,
       KilledOK, WorkerOK, EnqueueOK, KillOK, GetOK, LeftOK
<1>8. QED
  BY <1>3, <1>4, <1>5, <1>6, <1>7 DEF KillStep

\* So do those of the worker.
LEMMA WorkerTyped ==
    ASSUME Typed, WorkerStep
    PROVE  Typed'
<1> USE DEF Typed, durable, memory, tasks
<1>0. IdleWorker \in WorkerType /\ IdleWorker.pc = "idle"
  BY NullsTyped DEF IdleWorker, WorkerType, WorkerPcs, Nexts
<1>1. ASSUME w.pc \notin {"idle", "dead"}
      PROVE  /\ w.run \in Runs
             /\ w.obj \in Status
             /\ mem[w.run] \in Status
             /\ Fail(w.obj) \in Status
             /\ Complete(w.obj) \in Status
             /\ [w.obj EXCEPT !.chunks = @ + 1] \in Status
             /\ [mem[w.run] EXCEPT !.state = "running", !.chunks = 0] \in Status
  <2>1. w.run \in Runs /\ w.obj \in Status /\ mem[w.run] \in Status
    BY <1>1 DEF WorkerOK, WorkerType, MemOK
  <2>2. QED
    BY <2>1, StatusUpdatesTyped
<1>2. ASSUME w.pc \notin {"idle", "dead"}
      PROVE  /\ Reacquired(rows[w.run], me) \in Row
             /\ Saved(rows[w.run], w.obj) \in Row
             /\ Released(rows[w.run], me) \in Row
  BY <1>1, <1>2, RowUpdatesTyped DEF RowsOK, MeOK
<1>3. CASE WorkerTake
  <2>1. Head(queue) \in Runs /\ Tail(queue) \in Seq(Runs)
    BY <1>3 DEF WorkerTake, QueueOK
  <2>2. QueueOK'
    BY <1>3, <2>1 DEF WorkerTake, QueueOK
  <2>3. WorkerOK'
    BY <1>0, <1>3, <2>1 DEF WorkerTake, WorkerOK, WorkerType, WorkerPcs
  <2>4. KilledOK'
    BY <1>3 DEF WorkerTake, KilledOK
  <2>5. QED
    BY <1>3, <2>2, <2>3, <2>4 DEF WorkerTake, RowsOK, PtsOK, ToldOK, MeOK,
       MemOK, EnqueueOK, KillOK, GetOK, PurgeOK, LeftOK
<1>4. CASE WorkerOwn
  <2>1. WorkerOK'
    BY <1>4, <1>1 DEF WorkerOwn, WorkerOK, WorkerType, WorkerPcs, Nexts
  <2>2. QED
    BY <1>4, <2>1 DEF WorkerOwn, RowsOK, PtsOK, ToldOK, MeOK, MemOK, QueueOK,
       KilledOK, EnqueueOK, KillOK, GetOK, PurgeOK, LeftOK
<1>5. CASE WorkerReacquire
  <2>1. RowsOK'
    BY <1>5, <1>2 DEF WorkerReacquire, RowsOK
  <2>2. KilledOK' /\ WorkerOK'
    BY <1>5, <1>1, FinallyTyped DEF WorkerReacquire, KilledOK, WorkerOK,
       WorkerType, WorkerPcs, Nexts
  <2>3. QED
    BY <1>5, <2>1, <2>2 DEF WorkerReacquire, PtsOK, ToldOK, MeOK, MemOK,
       QueueOK, EnqueueOK, KillOK, GetOK, PurgeOK, LeftOK
<1>6. CASE WorkerStart
  <2>1. CASE w.run \in killed
    <3>1. MemOK' /\ KilledOK' /\ WorkerOK'
      BY <1>1, <1>6, <2>1, HandlerTyped DEF WorkerStart
    <3>2. QED
      BY <1>6, <2>1, <3>1 DEF WorkerStart, RowsOK, PtsOK, ToldOK, MeOK,
         QueueOK, EnqueueOK, KillOK, GetOK, PurgeOK, LeftOK
  <2>2. CASE w.run \notin killed
    <3>1. MemOK'
      BY <1>1, <1>6, <2>2 DEF WorkerStart, MemOK
    <3>2. WorkerOK'
      BY <1>1, <1>6, <2>2 DEF WorkerStart, WorkerOK, WorkerType, WorkerPcs, Nexts
    <3>3. PtsOK'
      <4> DEFINE old == pts[w.run]
                 new == [fresh |-> 0, stale |-> old.stale \/ old.fresh > 0]
      <4>1. (old.stale \/ old.fresh > 0) \in BOOLEAN
        OBVIOUS
      <4>2. new \in [fresh : Nat, stale : BOOLEAN]
        BY <4>1
      <4>3. pts' = [pts EXCEPT ![w.run] = new]
        BY <1>6, <2>2 DEF WorkerStart
      <4> HIDE DEF new
      <4>4. QED
        BY <4>2, <4>3 DEF PtsOK
    <3>4. QED
      BY <1>6, <2>2, <3>1, <3>2, <3>3 DEF WorkerStart, RowsOK, ToldOK, MeOK,
         QueueOK, KilledOK, EnqueueOK, KillOK, GetOK, PurgeOK, LeftOK
  <2>3. QED
    BY <2>1, <2>2
<1>7. CASE WorkerSave
  <2>1. RowsOK'
    BY <1>7, <1>1, <1>2 DEF WorkerSave, RowsOK
  <2>2. KilledOK' /\ WorkerOK'
    BY <1>7, <1>1, ContinueTyped DEF WorkerSave, KilledOK, WorkerOK,
       WorkerType, WorkerPcs, Nexts
  <2>3. LeftOK'
    BY <1>7, SpendTyped DEF WorkerSave, LeftOK, Ops
  <2>4. QED
    BY <1>7, <2>1, <2>2, <2>3 DEF WorkerSave, PtsOK, ToldOK, MeOK, MemOK,
       QueueOK, EnqueueOK, KillOK, GetOK, PurgeOK
<1>8. CASE WorkerNotify
  <2>1. ToldOK'
    BY <1>8, <1>1 DEF WorkerNotify, ToldOK, Status
  <2>2. KilledOK' /\ WorkerOK'
    BY <1>8, <1>1, ContinueTyped DEF WorkerNotify
  <2>3. LeftOK'
    BY <1>8, SpendTyped DEF WorkerNotify, LeftOK, Ops
  <2>4. QED
    BY <1>8, <2>1, <2>2, <2>3 DEF WorkerNotify, RowsOK, PtsOK, MeOK, MemOK,
       QueueOK, EnqueueOK, KillOK, GetOK, PurgeOK
<1>9. CASE WorkerLoad
  <2>1. MemOK' /\ WorkerOK'
    BY <1>9, <1>1, WriteStatusTyped DEF WorkerLoad, Nexts
  <2>2. QED
    BY <1>9, <2>1 DEF WorkerLoad, RowsOK, PtsOK, ToldOK, MeOK, QueueOK,
       KilledOK, EnqueueOK, KillOK, GetOK, PurgeOK, LeftOK
<1>10. CASE WorkerPlan
  <2>1. MemOK' /\ WorkerOK'
    BY <1>10, <1>1, WriteStatusTyped DEF WorkerPlan, MemOK, WorkerOK,
       WorkerType, WorkerPcs, Nexts
  <2>2. QED
    BY <1>10, <2>1 DEF WorkerPlan, RowsOK, PtsOK, ToldOK, MeOK, QueueOK,
       KilledOK, EnqueueOK, KillOK, GetOK, PurgeOK, LeftOK
<1>11. CASE WorkerWipe
  <2>1. PtsOK'
    BY <1>11 DEF WorkerWipe, PtsOK, NoPoints
  <2>2. MemOK' /\ WorkerOK'
    BY <1>11, <1>1, WriteStatusTyped DEF WorkerWipe, MemOK, WorkerOK,
       WorkerType, WorkerPcs, Nexts
  <2>3. QED
    BY <1>11, <2>1, <2>2 DEF WorkerWipe, RowsOK, ToldOK, MeOK, QueueOK,
       KilledOK, EnqueueOK, KillOK, GetOK, PurgeOK, LeftOK
<1>12. CASE WorkerLoop
  <2>1. MemOK' /\ KilledOK' /\ WorkerOK'
    BY <1>12, <1>1, WriteStatusTyped, HandlerTyped DEF WorkerLoop, MemOK,
       KilledOK, WorkerOK, WorkerType, WorkerPcs, Nexts
  <2>2. QED
    BY <1>12, <2>1 DEF WorkerLoop, RowsOK, PtsOK, ToldOK, MeOK, QueueOK,
       EnqueueOK, KillOK, GetOK, PurgeOK, LeftOK
<1>13. CASE WorkerEmbed
  <2>1. PtsOK'
    BY <1>13, <1>1 DEF WorkerEmbed, PtsOK
  <2>2. MemOK' /\ WorkerOK'
    BY <1>13, <1>1, WriteStatusTyped DEF WorkerEmbed, WorkerOK, WorkerType,
       WorkerPcs, Nexts
  <2>3. LeftOK'
    BY <1>13, SpendTyped DEF WorkerEmbed, LeftOK, Ops
  <2>4. QED
    BY <1>13, <2>1, <2>2, <2>3 DEF WorkerEmbed, RowsOK, ToldOK, MeOK, QueueOK,
       KilledOK, EnqueueOK, KillOK, GetOK, PurgeOK
<1>14. CASE WorkerFinish
  <2>1. MemOK' /\ WorkerOK'
    BY <1>14, <1>1, WriteStatusTyped DEF WorkerFinish, Nexts
  <2>2. QED
    BY <1>14, <2>1 DEF WorkerFinish, RowsOK, PtsOK, ToldOK, MeOK, QueueOK,
       KilledOK, EnqueueOK, KillOK, GetOK, PurgeOK, LeftOK
<1>15. CASE WorkerRaises
  <2>1. MemOK' /\ KilledOK' /\ WorkerOK'
    BY <1>15, <1>1, WriteStatusTyped, HandlerTyped DEF WorkerRaises, KilledOK,
       Nexts
  <2>2. LeftOK'
    BY <1>15, SpendTyped DEF WorkerRaises, Ops
  <2>3. QED
    BY <1>15, <2>1, <2>2 DEF WorkerRaises, RowsOK, PtsOK, ToldOK, MeOK,
       QueueOK, EnqueueOK, KillOK, GetOK, PurgeOK
<1>16. CASE WorkerRelease
  <2>1. RowsOK'
    BY <1>16, <1>1, <1>2 DEF WorkerRelease, RowsOK
  <2>2. WorkerOK'
    BY <1>16, <1>0 DEF WorkerRelease, IdleWorker, WorkerOK, WorkerType,
       WorkerPcs, Nexts
  <2>3. LeftOK'
    BY <1>16, SpendTyped DEF WorkerRelease, LeftOK, Ops
  <2>4. QED
    BY <1>16, <2>1, <2>2, <2>3 DEF WorkerRelease, PtsOK, ToldOK, MeOK, MemOK,
       QueueOK, KilledOK, EnqueueOK, KillOK, GetOK, PurgeOK
<1>17. QED
  BY <1>3, <1>4, <1>5, <1>6, <1>7, <1>8, <1>9, <1>10, <1>11, <1>12, <1>13,
     <1>14, <1>15, <1>16 DEF WorkerStep

\* So do those of the heartbeat.
LEMMA HeartbeatTyped ==
    ASSUME Typed, Heartbeat \/ HeartbeatGivesUp
    PROVE  Typed'
<1> USE DEF Typed, durable, memory, tasks
<1>1. w.run \in Runs /\ Renewed(rows[w.run]) \in Row
  <2>1. w.run \in Runs
    BY DEF Heartbeat, HeartbeatGivesUp, Heartbeating, Indexing, WorkerOK
  <2>2. QED
    BY <2>1, RowUpdatesTyped, NullsTyped DEF RowsOK, MeOK
<1>2. CASE Heartbeat
  <2>1. RowsOK'
    BY <1>2, <1>1 DEF Heartbeat, RowsOK
  <2>2. KilledOK' /\ WorkerOK'
    BY <1>2, <1>1, FinallyTyped DEF Heartbeat, KilledOK, WorkerOK
  <2>3. QED
    BY <1>2, <2>1, <2>2 DEF Heartbeat, PtsOK, ToldOK, MeOK, MemOK, QueueOK,
       EnqueueOK, KillOK, GetOK, PurgeOK, LeftOK
<1>3. CASE HeartbeatGivesUp
  <2>1. KilledOK' /\ WorkerOK'
    BY <1>3, <1>1, FinallyTyped DEF HeartbeatGivesUp
  <2>2. LeftOK'
    BY <1>3, SpendTyped DEF HeartbeatGivesUp, Ops
  <2>3. QED
    BY <1>3, <2>1, <2>2 DEF HeartbeatGivesUp, RowsOK, PtsOK, ToldOK, MeOK,
       MemOK, QueueOK, EnqueueOK, KillOK, GetOK, PurgeOK
<1>4. QED
  BY <1>2, <1>3

\* So do stop, restart and crash.
LEMMA ShutdownTyped ==
    ASSUME Typed, \/ StopBegin \/ StopDone \/ Restart \/ Crash
                  \/ \E r \in Runs : StopSweep(r)
    PROVE  Typed'
<1> USE DEF Typed, durable, memory, tasks
<1>1. /\ IdleWorker \in WorkerType /\ IdleWorker.pc = "idle"
      /\ [IdleWorker EXCEPT !.pc = "dead"] \in WorkerType
      /\ [IdleWorker EXCEPT !.pc = "dead"].pc = "dead"
  BY NullsTyped DEF IdleWorker, WorkerType, WorkerPcs, Nexts
<1>2. IdleEnqueue \in EnqueueType /\ IdleEnqueue.pc = "idle"
  BY NullsTyped DEF IdleEnqueue, EnqueueType, EnqueuePcs
<1>3. IdleTask \in KillType /\ IdleTask \in RequestType /\ IdleTask.pc = "idle"
  BY NullsTyped DEF IdleTask, KillType, RequestType, KillPcs
<1>4. CASE StopBegin
  <2>1. MemOK' /\ KilledOK' /\ WorkerOK'
    BY <1>4, <1>1, HandlerTyped, FinallyTyped DEF StopBegin, Indexing, MemOK,
       KilledOK, WorkerOK
  <2>2. EnqueueOK'
    BY <1>4, <1>2 DEF StopBegin, EnqueueOK
  <2>3. LeftOK'
    BY <1>4, SpendTyped DEF StopBegin, Ops
  <2>4. MeOK'
    BY <1>4 DEF StopBegin, MeOK
  <2>5. QED
    BY <1>4, <2>1, <2>2, <2>3, <2>4 DEF StopBegin, RowsOK, PtsOK, ToldOK,
       QueueOK, KillOK, GetOK, PurgeOK
<1>5. CASE StopDone
  <2>1. MeOK'
    BY <1>5 DEF StopDone, MeOK
  <2>2. QED
    BY <1>5, <2>1 DEF StopDone, RowsOK, PtsOK, ToldOK, MemOK, QueueOK,
       KilledOK, WorkerOK, EnqueueOK, KillOK, GetOK, PurgeOK, LeftOK
<1>6. ASSUME Boot
      PROVE  /\ MeOK' /\ MemOK' /\ QueueOK' /\ KilledOK'
             /\ WorkerOK' /\ EnqueueOK' /\ KillOK' /\ GetOK' /\ PurgeOK'
  <2>1. MeOK'
    BY <1>6 DEF Boot, MeOK
  <2>2. MemOK' /\ QueueOK' /\ KilledOK'
    BY <1>6, NullsTyped DEF Boot, MemOK, QueueOK, KilledOK
  <2>3. WorkerOK' /\ EnqueueOK' /\ KillOK' /\ GetOK' /\ PurgeOK'
    BY <1>1, <1>2, <1>3, <1>6 DEF Boot, WorkerOK, EnqueueOK, KillOK, GetOK,
       PurgeOK
  <2>4. QED
    BY <2>1, <2>2, <2>3
<1>7. CASE Restart
  BY <1>6, <1>7 DEF Restart, RowsOK, PtsOK, ToldOK, LeftOK
<1>8. CASE Crash
  <2>1. LeftOK'
    BY <1>8, SpendTyped DEF Crash, Ops
  <2>2. QED
    BY <1>6, <1>8, <2>1 DEF Crash, RowsOK, PtsOK, ToldOK
<1>9. CASE \E r \in Runs : StopSweep(r)
  <2>1. PICK r \in Runs : StopSweep(r)
    BY <1>9
  <2>2. Fail(mem[r]) \in Status
    BY StatusUpdatesTyped DEF MemOK
  <2>3. Saved(rows[r], Fail(mem[r])) \in Row
    BY <2>2, RowUpdatesTyped DEF RowsOK, MeOK
  <2>4. MemOK'
    BY <2>1, <2>2 DEF StopSweep, MemOK
  <2>5. RowsOK'
    BY <2>1, <2>3 DEF StopSweep, RowsOK
  <2>6. ToldOK'
    BY <2>1 DEF StopSweep, ToldOK, States, Terminal
  <2>7. LeftOK'
    BY <2>1, SpendTyped DEF StopSweep, LeftOK, Ops
  <2>8. QED
    BY <2>1, <2>4, <2>5, <2>6, <2>7 DEF StopSweep, PtsOK, MeOK, QueueOK,
       KilledOK, WorkerOK, EnqueueOK, KillOK, GetOK, PurgeOK
<1>10. QED
  BY <1>4, <1>5, <1>7, <1>8, <1>9

\* The types hold at the start.
LEMMA InitTyped == Init => Typed
<1> SUFFICES ASSUME Init PROVE Typed
  OBVIOUS
<1>1. RowsOK /\ PtsOK /\ ToldOK /\ MeOK
  BY NullsTyped DEF Init, RowsOK, PtsOK, NoPoints, ToldOK, MeOK
<1>2. MemOK /\ QueueOK /\ KilledOK /\ LeftOK
  BY NullsTyped, BudgetsAssumption DEF Init, MemOK, QueueOK, KilledOK, LeftOK
<1>3. WorkerOK /\ EnqueueOK
  BY NullsTyped DEF Init, WorkerOK, WorkerType, WorkerPcs, Nexts, IdleWorker,
     EnqueueOK, EnqueueType, EnqueuePcs, IdleEnqueue
<1>4. KillOK /\ GetOK /\ PurgeOK
  BY NullsTyped DEF Init, KillOK, KillType, KillPcs, GetOK, PurgeOK,
     RequestType, IdleTask
<1>5. QED
  BY <1>1, <1>2, <1>3, <1>4 DEF Typed

\* Every step keeps the types.
LEMMA TypedStep ==
    ASSUME Typed, [Next]_vars
    PROVE  Typed'
<1>1. CASE Next
  BY <1>1, RequestsTyped, EnqueueTyped, KillGetPurgeTyped, WorkerTyped,
     HeartbeatTyped, ShutdownTyped DEF Next
<1>2. CASE UNCHANGED vars
  BY <1>2 DEF vars, durable, memory, tasks, Typed, RowsOK, PtsOK, ToldOK,
     MeOK, MemOK, QueueOK, KilledOK, WorkerOK, EnqueueOK, KillOK, GetOK,
     PurgeOK, LeftOK
<1>3. QED
  BY <1>1, <1>2

\* Every variable holds what the code can store in it, at every step of any
\* number of processes that follow each other (all handlers of IndexService).
THEOREM TypeCorrect == Spec => []TypeOK
<1>1. Init => Typed
  BY InitTyped
<1>2. Typed /\ [Next]_vars => Typed'
  BY TypedStep
<1>3. QED
  BY <1>1, <1>2, TypedIsTypeOK, PTL DEF Spec

-----------------------------------------------------------------------------
(* No lease without somebody to run the job and release it.                 *)
(*                                                                          *)
(* LeaseInHand is not inductive alone.  A restart takes a new owner number, *)
(* so the argument needs that no row carries a number from the future; and  *)
(* a claim whose answer is lost, or a release that raises, really does      *)
(* leave a lease nobody holds, so the store's failures are excluded.        *)

OwnersKnown == \A r \in Runs : rows[r].owner <= me

StoreAnswers == left["storeFail"] = 0

KillWritesFailed == k.pc = "save" => k.obj.state = "failed"

LeaseInv == Typed /\ LeaseInHand /\ OwnersKnown /\ StoreAnswers /\ KillWritesFailed

\* What was queued stays queued behind a new run.
LEMMA AppendQueued ==
    ASSUME QueueOK, NEW x \in Runs, queue' = Append(queue, x)
    PROVE  Queued(x)' /\ \A r \in Runs : Queued(r) => Queued(r)'
<1>1. Len(queue') = Len(queue) + 1 /\ queue'[Len(queue) + 1] = x
  BY DEF QueueOK
<1>2. \A i \in 1..Len(queue) : queue'[i] = queue[i]
  BY DEF QueueOK
<1>3. Queued(x)'
  BY <1>1 DEF Queued, QueueOK
<1>4. ASSUME NEW r \in Runs, Queued(r) PROVE Queued(r)'
  BY <1>1, <1>2, <1>4 DEF Queued, QueueOK
<1>5. QED
  BY <1>3, <1>4

\* Taking the head leaves the others queued.
LEMMA TailQueued ==
    ASSUME QueueOK, queue # <<>>, queue' = Tail(queue)
    PROVE  \A r \in Runs : Queued(r) => Queued(r)' \/ r = Head(queue)
<1>1. Len(queue') = Len(queue) - 1
  BY DEF QueueOK
<1>2. \A i \in 1..Len(queue') : queue'[i] = queue[i + 1]
  BY DEF QueueOK
<1>3. ASSUME NEW r \in Runs, NEW i \in 1..Len(queue), queue[i] = r, r # Head(queue)
      PROVE  Queued(r)'
  <2>1. i # 1
    BY <1>3 DEF QueueOK
  <2>2. i - 1 \in 1..Len(queue')
    BY <1>1, <2>1 DEF QueueOK
  <2>3. queue'[i - 1] = r
    BY <1>2, <1>3, <2>2
  <2>4. QED
    BY <2>2, <2>3 DEF Queued
<1>4. QED
  BY <1>3 DEF Queued

\* What each update does to the two things LeaseInHand looks at.
LEMMA UpdateFacts ==
    ASSUME NEW row \in Row, NEW o \in Nat, NEW s \in Status
    PROVE  /\ Lapsed(row).state = row.state /\ Lapsed(row).owner = row.owner
           /\ Renewed(row).state = row.state /\ Renewed(row).owner = row.owner
           /\ Claimed(row, o).state = "pending" /\ Claimed(row, o).owner = o
           /\ Reacquired(row, o).state = row.state /\ Reacquired(row, o).owner = o
           /\ Saved(row, s).state = s.state /\ Saved(row, s).owner = row.owner
           /\ Released(row, o).state = row.state
           /\ Released(row, o).owner \in {row.owner, NoOwner}
           /\ row.state # "absent" => Released(row, o).owner # o \/ o = NoOwner
           /\ NoRow.owner = NoOwner /\ NoRow.state = "absent"
BY DEF Row, Status, Lapsed, Renewed, Claimed, Reacquired, Saved, Released,
       NoOwner, NoRow

\* What one step may do to one row: an update of the store, under its filter.
Update(row, new) ==
    \/ new \in {row, NoRow, Lapsed(row), Released(row, me)}
    \/ new = Claimed(row, me) /\ \E force \in BOOLEAN : Claimable(row, force)
    \/ new = Reacquired(row, me) /\ Reacquirable(row, me)
    \/ new = Renewed(row) /\ Renewable(row, me)
    \/ Writable(row, me) /\ \E s \in Status : new = Saved(row, s)

\* Whoever takes a step, what it does to a row is one such update.
LEMMA RowSteps ==
    ASSUME Typed, [Next]_vars, NEW r \in Runs
    PROVE  Update(rows[r], rows'[r])
<1> USE DEF durable
<1>0. rows \in [Runs -> Row]
  BY DEF Typed, RowsOK
<1>1. CASE UNCHANGED rows
  BY <1>1 DEF Update
<1>2. ASSUME NEW x \in Runs, NEW y, rows' = [rows EXCEPT ![x] = y], Update(rows[x], y)
      PROVE  Update(rows[r], rows'[r])
  <2>1. CASE r = x
    BY <1>0, <1>2, <2>1
  <2>2. CASE r # x
    BY <1>0, <1>2, <2>2 DEF Update
  <2>3. QED
    BY <2>1, <2>2
<1>3. CASE \E x \in Runs : \/ Lapse(x) \/ KillRead(x) \/ GetRead(x)
                           \/ DeletePoints(x) \/ StopSweep(x)
                           \/ \E force \in BOOLEAN : EnqueueStart(x, force)
  <2>1. PICK x \in Runs : \/ Lapse(x) \/ KillRead(x) \/ GetRead(x)
                          \/ DeletePoints(x) \/ StopSweep(x)
                          \/ \E force \in BOOLEAN : EnqueueStart(x, force)
    BY <1>3
  <2>2. CASE Lapse(x)
    BY <1>2, <2>2 DEF Lapse, Update
  <2>3. CASE StopSweep(x)
    <3>1. Fail(mem[x]) \in Status
      BY StatusUpdatesTyped DEF Typed, MemOK
    <3>2. \/ UNCHANGED rows
          \/ Writable(rows[x], me) /\ rows' = [rows EXCEPT ![x] = Saved(@, Fail(mem[x]))]
      BY <2>3 DEF StopSweep
    <3>3. QED
      BY <1>1, <1>2, <3>1, <3>2 DEF Update
  <2>4. QED
    BY <1>1, <2>1, <2>2, <2>3 DEF KillRead, GetRead, DeletePoints, EnqueueStart
<1>4. CASE EnqueueStep
  <2>1. e.run \in Runs /\ e.obj \in Status /\ e.force \in BOOLEAN
    BY <1>4 DEF EnqueueStep, EnqueueClaim, EnqueueClaimFails, EnqueueReread,
       EnqueueRefused, EnqueueAccept, EnqueueSave, EnqueueNotify, Typed,
       EnqueueOK, EnqueueType
  <2>2. \/ UNCHANGED rows
        \/ /\ Claimable(rows[e.run], e.force)
           /\ rows' = [rows EXCEPT ![e.run] = Claimed(@, me)]
        \/ /\ Writable(rows[e.run], me)
           /\ rows' = [rows EXCEPT ![e.run] = Saved(@, e.obj)]
    BY <1>4 DEF EnqueueStep, EnqueueClaim, EnqueueClaimFails, EnqueueReread,
       EnqueueRefused, EnqueueAccept, EnqueueSave, EnqueueNotify
  <2>3. QED
    BY <1>1, <1>2, <2>1, <2>2 DEF Update
<1>5. CASE KillStep \/ GetAct
  <2>1. \/ UNCHANGED rows
        \/ /\ k.pc # "idle" /\ Writable(rows[k.run], me)
           /\ rows' = [rows EXCEPT ![k.run] = Saved(@, k.obj)]
    BY <1>5 DEF KillStep, KillAct, KillSave, KillNotify, GetAct
  <2>2. k.pc # "idle" => k.run \in Runs /\ k.obj \in Status
    BY DEF Typed, KillOK, KillType
  <2>3. QED
    BY <1>1, <1>2, <2>1, <2>2 DEF Update
<1>6. CASE DeleteRow
  BY <1>2, <1>6 DEF DeleteRow, Typed, PurgeOK, Update
<1>7. CASE WorkerStep \/ Heartbeat \/ HeartbeatGivesUp \/ StopBegin
  <2>1. \/ UNCHANGED rows
        \/ /\ w.pc \notin {"idle", "dead"}
           /\ \/ /\ Reacquirable(rows[w.run], me)
                 /\ rows' = [rows EXCEPT ![w.run] = Reacquired(@, me)]
              \/ /\ Writable(rows[w.run], me)
                 /\ rows' = [rows EXCEPT ![w.run] = Saved(@, w.obj)]
              \/ rows' = [rows EXCEPT ![w.run] = Released(@, me)]
              \/ /\ Renewable(rows[w.run], me)
                 /\ rows' = [rows EXCEPT ![w.run] = Renewed(@)]
    <3>1. CASE WorkerStep
      BY <3>1 DEF WorkerStep, WorkerTake, WorkerOwn, WorkerReacquire,
         WorkerStart, WorkerSave, WorkerNotify, WorkerLoad, WorkerPlan,
         WorkerWipe, WorkerLoop, WorkerEmbed, WorkerFinish, WorkerRaises,
         WorkerRelease
    <3>2. CASE Heartbeat \/ HeartbeatGivesUp \/ StopBegin
      BY <3>2 DEF Heartbeat, HeartbeatGivesUp, StopBegin, Heartbeating, Indexing
    <3>3. QED
      BY <1>7, <3>1, <3>2
  <2>2. w.pc \notin {"idle", "dead"} => w.run \in Runs /\ w.obj \in Status
    BY DEF Typed, WorkerOK, WorkerType
  <2>3. QED
    BY <1>1, <1>2, <2>1, <2>2 DEF Update
<1>8. CASE StopDone \/ Restart \/ Crash
  BY <1>1, <1>8 DEF StopDone, Restart, Crash
<1>9. CASE UNCHANGED vars
  BY <1>1, <1>9 DEF vars
<1>10. QED
  BY <1>3, <1>4, <1>5, <1>6, <1>7, <1>8, <1>9 DEF Next

\* No step hands out an owner number that no process has had.
LEMMA OwnersStayKnown ==
    ASSUME Typed, OwnersKnown, [Next]_vars
    PROVE  OwnersKnown'
<1> SUFFICES ASSUME NEW r \in Runs PROVE rows'[r].owner <= me'
  BY DEF OwnersKnown
<1>1. rows[r].owner <= me /\ rows[r] \in Row /\ me \in Nat /\ rows[r].owner \in Nat
  BY DEF OwnersKnown, Typed, RowsOK, MeOK, Row
<1>2. me' = me \/ me' = me + 1
  BY DEF Next, vars, durable, memory, tasks, Lapse, EnqueueStart, KillRead,
     GetRead, DeletePoints, StopSweep, EnqueueStep, EnqueueClaim,
     EnqueueClaimFails, EnqueueReread, EnqueueRefused, EnqueueAccept,
     EnqueueSave, EnqueueNotify, KillStep, KillAct, KillSave, KillNotify,
     GetAct, DeleteRow, WorkerStep, WorkerTake, WorkerOwn, WorkerReacquire,
     WorkerStart, WorkerSave, WorkerNotify, WorkerLoad, WorkerPlan, WorkerWipe,
     WorkerLoop, WorkerEmbed, WorkerFinish, WorkerRaises, WorkerRelease,
     Heartbeat, HeartbeatGivesUp, StopBegin, StopDone, Restart, Crash, Boot
<1>3. rows'[r].owner \in {rows[r].owner, me, NoOwner}
  <2>1. CASE \E s \in Status : rows'[r] = Saved(rows[r], s)
    BY <1>1, <2>1, UpdateFacts
  <2>2. CASE rows'[r] \in {rows[r], NoRow, Lapsed(rows[r]), Renewed(rows[r]),
                     Claimed(rows[r], me), Reacquired(rows[r], me),
                     Released(rows[r], me)}
    BY <1>1, <2>2, UpdateFacts, NullsTyped
  <2>3. QED
    BY <2>1, <2>2, RowSteps DEF Update
<1>4. QED
  BY <1>1, <1>2, <1>3 DEF NoOwner

\* A store that answers goes on answering.
LEMMA StoreStillAnswers ==
    ASSUME Typed, StoreAnswers, [Next]_vars
    PROVE  StoreAnswers'
<1>1. left' = left \/ \E op \in Ops : Spend(op)
  BY DEF Next, vars, durable, memory, tasks, Lapse, EnqueueStart, KillRead,
     GetRead, DeletePoints, StopSweep, EnqueueStep, EnqueueClaim,
     EnqueueClaimFails, EnqueueReread, EnqueueRefused, EnqueueAccept,
     EnqueueSave, EnqueueNotify, KillStep, KillAct, KillSave, KillNotify,
     GetAct, DeleteRow, WorkerStep, WorkerTake, WorkerOwn, WorkerReacquire,
     WorkerStart, WorkerSave, WorkerNotify, WorkerLoad, WorkerPlan, WorkerWipe,
     WorkerLoop, WorkerEmbed, WorkerFinish, WorkerRaises, WorkerRelease,
     Heartbeat, HeartbeatGivesUp, StopBegin, StopDone, Restart, Crash, Ops
<1>2. QED
  BY <1>1 DEF StoreAnswers, Spend, Typed, LeftOK, Ops

\* What a kill is about to save stays failed.
LEMMA KillStaysFailed ==
    ASSUME Typed, KillWritesFailed, [Next]_vars
    PROVE  KillWritesFailed'
<1>1. CASE KillAct
  <2>0. k \in KillType /\ k' \in KillType
    BY TypedStep DEF Typed, KillOK
  <2>1. k' = IdleTask \/ k' = [k EXCEPT !.pc = "save", !.obj = Fail(@)]
    BY <1>1 DEF KillAct
  <2>2. k'.pc # "save" \/ k'.obj = Fail(k.obj)
    <3>1. CASE k' = IdleTask
      BY <3>1 DEF IdleTask
    <3>2. CASE k' = [k EXCEPT !.pc = "save", !.obj = Fail(@)]
      <4>1. k'.obj = Fail(k.obj)
        BY <2>0, <3>2 DEF KillType, Fail, Status
      <4>2. QED
        BY <4>1
    <3>3. QED
      BY <2>1, <3>1, <3>2
  <2>3. QED
    BY <2>0, <2>2 DEF KillWritesFailed, Fail, KillType, Status
<1>2. CASE ~KillAct
  <2>1. UNCHANGED k \/ k'.pc # "save"
    BY <1>2 DEF Next, vars, durable, memory, tasks, Lapse, EnqueueStart,
   KillRead, GetRead, DeletePoints, StopSweep, EnqueueStep, EnqueueClaim,
   EnqueueClaimFails, EnqueueReread, EnqueueRefused, EnqueueAccept,
   EnqueueSave, EnqueueNotify, KillStep, KillSave, KillNotify,
   GetAct, DeleteRow, WorkerStep, WorkerTake, WorkerOwn, WorkerReacquire,
   WorkerStart, WorkerSave, WorkerNotify, WorkerLoad, WorkerPlan, WorkerWipe,
   WorkerLoop, WorkerEmbed, WorkerFinish, WorkerRaises, WorkerRelease,
   Heartbeat, HeartbeatGivesUp, StopBegin, StopDone, Restart, Crash, Boot,
   IdleTask, Typed, KillOK, KillType
  <2>2. QED
    BY <2>1 DEF KillWritesFailed
<1>3. QED
  BY <1>1, <1>2

\* A job in hand stays in hand as long as nothing moves but the contents of the
\* task records.
LEMMA HandKept ==
    ASSUME NEW r \in Runs, InHand(r), UNCHANGED queue,
           Enqueuing(r) => Enqueuing(r)', Working(r) => Working(r)'
    PROVE  InHand(r)'
BY DEF InHand, Queued

\* No request that starts strands a lease.
LEMMA LeaseRequests ==
    ASSUME LeaseInv, NEW x \in Runs,
           \/ Lapse(x) \/ \E force \in BOOLEAN : EnqueueStart(x, force)
           \/ KillRead(x) \/ GetRead(x) \/ DeletePoints(x) \/ StopSweep(x)
    PROVE  LeaseInHand'
<1> SUFFICES ASSUME stage' = "up", NEW r \in Runs,
                    IsActive(rows'[r]), rows'[r].owner = me'
             PROVE  InHand(r)'
  BY DEF LeaseInHand
<1>1. stage = "up" /\ me' = me /\ UNCHANGED <<queue, w>>
  BY DEF Lapse, EnqueueStart, KillRead, GetRead, DeletePoints, StopSweep,
     memory, tasks
<1>2. Enqueuing(r) => Enqueuing(r)'
  BY DEF Lapse, EnqueueStart, KillRead, GetRead, DeletePoints, StopSweep,
     tasks, Enqueuing
<1>3. IsActive(rows[r]) /\ rows[r].owner = me
  <2>1. rows[x] \in Row /\ rows[r] \in Row
    BY DEF LeaseInv, Typed, RowsOK
  <2>2. UNCHANGED rows \/ rows' = [rows EXCEPT ![x] = Lapsed(@)]
    BY <1>1 DEF Lapse, EnqueueStart, KillRead, GetRead, DeletePoints, StopSweep,
       durable
  <2>3. rows'[r].state = rows[r].state /\ rows'[r].owner = rows[r].owner
    BY <2>1, <2>2 DEF LeaseInv, Typed, RowsOK, Lapsed, Row
  <2>4. QED
    BY <1>1, <2>3 DEF IsActive
<1>4. InHand(r)
  BY <1>1, <1>3 DEF LeaseInv, LeaseInHand
<1>5. Working(r) => Working(r)'
  BY <1>1 DEF Working
<1>6. QED
  BY <1>1, <1>2, <1>4, <1>5, HandKept

\* Nor does a post.
LEMMA LeaseEnqueue ==
    ASSUME LeaseInv, EnqueueStep
    PROVE  LeaseInHand'
<1> SUFFICES ASSUME stage' = "up", NEW r \in Runs,
                    IsActive(rows'[r]), rows'[r].owner = me'
             PROVE  InHand(r)'
  BY DEF LeaseInHand
<1>0. /\ stage = "up" /\ me' = me
      /\ e.run \in Runs /\ e.pc # "idle"
      /\ rows[e.run] \in Row /\ e.obj \in Status /\ me \in Nat
      /\ QueueOK /\ rows \in [Runs -> Row]
  BY DEF EnqueueStep, EnqueueClaim, EnqueueClaimFails, EnqueueReread,
     EnqueueRefused, EnqueueAccept, EnqueueSave, EnqueueNotify, LeaseInv,
     Typed, EnqueueOK, EnqueueType, RowsOK, MeOK, QueueOK
<1>1. r # e.run => rows'[r] = rows[r]
  BY <1>0 DEF EnqueueStep, EnqueueClaim, EnqueueClaimFails, EnqueueReread,
     EnqueueRefused, EnqueueAccept, EnqueueSave, EnqueueNotify, durable
<1>2. Working(r) => Working(r)'
  <2>1. w' = w \/ w' = [w EXCEPT !.alias = w.alias /\ w.run # e.run]
    BY DEF EnqueueStep, EnqueueClaim, EnqueueClaimFails, EnqueueReread,
       EnqueueRefused, EnqueueAccept, EnqueueSave, EnqueueNotify, Replace, tasks
  <2>2. QED
    BY <2>1 DEF Working, LeaseInv, Typed, WorkerOK, WorkerType
<1>3. UNCHANGED queue \/ queue' = Append(queue, e.run)
  BY DEF EnqueueStep, EnqueueClaim, EnqueueClaimFails, EnqueueReread,
     EnqueueRefused, EnqueueAccept, EnqueueSave, EnqueueNotify, memory
<1>4. Queued(r) => Queued(r)'
  BY <1>0, <1>3, AppendQueued DEF Queued
<1>5. CASE r # e.run
  <2>1. InHand(r)
    BY <1>0, <1>1, <1>5 DEF LeaseInv, LeaseInHand
  <2>2. ~Enqueuing(r)
    BY <1>5 DEF Enqueuing
  <2>3. QED
    BY <1>2, <1>4, <2>1, <2>2 DEF InHand
<1>6. CASE r = e.run
  <2>1. CASE EnqueueClaim
    <3>1. CASE rows' = [rows EXCEPT ![e.run] = Claimed(@, me)] /\
               e' = [e EXCEPT !.pc = "accept",
                              !.obj = StatusOf(Claimed(rows[e.run], me))]
      <4>1. Enqueuing(r)'
        BY <1>6, <3>1 DEF Enqueuing, LeaseInv, Typed, EnqueueOK, EnqueueType
      <4>2. QED
        BY <4>1 DEF InHand
    <3>2. CASE UNCHANGED rows
      <4>1. InHand(r)
        BY <1>0, <3>2 DEF LeaseInv, LeaseInHand
      <4>2. ~Enqueuing(r)
        BY <2>1 DEF Enqueuing, EnqueueClaim
      <4>3. QED
        BY <1>2, <1>4, <4>1, <4>2 DEF InHand
    <3>3. QED
      BY <2>1, <3>1, <3>2 DEF EnqueueClaim
  <2>2. CASE EnqueueClaimFails
    BY <2>2 DEF EnqueueClaimFails, LeaseInv, StoreAnswers, Spend
  <2>3. CASE EnqueueReread \/ EnqueueRefused
    <3>1. InHand(r) /\ ~Enqueuing(r)
      BY <1>0, <2>3 DEF LeaseInv, LeaseInHand, EnqueueReread, EnqueueRefused,
         Enqueuing, durable
    <3>2. QED
      BY <1>2, <1>4, <3>1 DEF InHand
  <2>4. CASE EnqueueAccept
    <3>1. Enqueuing(r)'
      BY <1>6, <2>4 DEF EnqueueAccept, Enqueuing, LeaseInv, Typed, EnqueueOK,
         EnqueueType
    <3>2. QED
      BY <3>1 DEF InHand
  <2>5. CASE EnqueueSave \/ EnqueueNotify
    <3>1. CASE e' = [e EXCEPT !.pc = "notify"]
      <4>1. Enqueuing(r)'
        BY <1>6, <3>1 DEF Enqueuing, LeaseInv, Typed, EnqueueOK, EnqueueType
      <4>2. QED
        BY <4>1 DEF InHand
    <3>2. CASE queue' = Append(queue, e.run)
      BY <1>0, <1>6, <3>2, AppendQueued DEF InHand
    <3>3. QED
      BY <2>5, <3>1, <3>2 DEF EnqueueSave, EnqueueNotify
  <2>6. QED
    BY <2>1, <2>2, <2>3, <2>4, <2>5 DEF EnqueueStep
<1>7. QED
  BY <1>5, <1>6

\* Nor does a kill, a get, a delete or a heartbeat.
LEMMA LeaseOthers ==
    ASSUME LeaseInv, KillStep \/ GetAct \/ DeleteRow
    PROVE  LeaseInHand'
<1> SUFFICES ASSUME stage' = "up", NEW r \in Runs,
                    IsActive(rows'[r]), rows'[r].owner = me'
             PROVE  InHand(r)'
  BY DEF LeaseInHand
<1>1. stage = "up" /\ me' = me /\ UNCHANGED <<queue, e>> /\ rows \in [Runs -> Row]
  BY DEF KillStep, KillAct, KillSave, KillNotify, GetAct, DeleteRow, memory,
     tasks, LeaseInv, Typed, RowsOK
<1>2. Enqueuing(r) => Enqueuing(r)'
  BY <1>1 DEF Enqueuing
<1>3. Working(r) => Working(r)'
  <2>1. \/ w' = w
        \/ w' = [w EXCEPT !.alias = w.alias /\ w.run # k.run]
        \/ w' = [w EXCEPT !.alias = w.alias /\ w.run # g.run]
    BY DEF KillStep, KillAct, KillSave, KillNotify, GetAct, DeleteRow, Replace,
       tasks
  <2>2. QED
    BY <2>1 DEF Working, LeaseInv, Typed, WorkerOK, WorkerType
<1>4. IsActive(rows[r]) /\ rows[r].owner = me
  <2>1. CASE KillSave /\ rows' # rows
    <3>1. /\ k.run \in Runs /\ k.obj.state = "failed"
          /\ rows' = [rows EXCEPT ![k.run] = Saved(@, k.obj)]
      BY <2>1 DEF KillSave, LeaseInv, KillWritesFailed, Typed, KillOK
    <3>2. r # k.run
      BY <1>1, <3>1 DEF Saved, IsActive, Active, Row
    <3>3. QED
      BY <1>1, <3>1, <3>2
  <2>2. CASE DeleteRow
    <3>1. r # d.run
      BY <1>1, <2>2 DEF DeleteRow, NoRow, IsActive, Active
    <3>2. QED
      BY <1>1, <2>2, <3>1 DEF DeleteRow
  <2>3. CASE UNCHANGED rows
    BY <1>1, <2>3
  <2>4. QED
    BY <2>1, <2>2, <2>3 DEF KillStep, KillAct, KillNotify, GetAct, durable
<1>5. QED
  BY <1>1, <1>2, <1>3, <1>4, HandKept DEF LeaseInv, LeaseInHand

\* Nor does the worker.
LEMMA LeaseWorker ==
    ASSUME LeaseInv, WorkerStep \/ Heartbeat \/ HeartbeatGivesUp
    PROVE  LeaseInHand'
<1> SUFFICES ASSUME stage' = "up", NEW r \in Runs,
                    IsActive(rows'[r]), rows'[r].owner = me'
             PROVE  InHand(r)'
  BY DEF LeaseInHand
<1>0. /\ stage = "up" /\ me' = me /\ UNCHANGED e
      /\ rows \in [Runs -> Row] /\ me \in Nat \ {0} /\ QueueOK
      /\ w \in WorkerType
      /\ w.pc \notin {"idle", "dead"} => w.run \in Runs
  BY DEF WorkerStep, WorkerTake, WorkerOwn, WorkerReacquire,
     WorkerStart, WorkerSave, WorkerNotify, WorkerLoad, WorkerPlan, WorkerWipe,
     WorkerLoop, WorkerEmbed, WorkerFinish, WorkerRaises, WorkerRelease,
     Heartbeat, HeartbeatGivesUp, LeaseInv, Typed, RowsOK, MeOK, QueueOK,
     WorkerOK
<1>1. Enqueuing(r) => Enqueuing(r)'
  BY <1>0 DEF Enqueuing
<1>2. CASE WorkerTake
  <2>1. InHand(r) /\ ~Working(r)
    BY <1>0, <1>2 DEF WorkerTake, LeaseInv, LeaseInHand, Working, durable
  <2>2. CASE Enqueuing(r)
    BY <1>1, <2>2 DEF InHand
  <2>3. CASE Queued(r)
    <3>1. Queued(r)' \/ r = Head(queue)
      BY <1>0, <1>2, <2>3, TailQueued DEF WorkerTake
    <3>2. w'.run = Head(queue) /\ w'.pc \in {"release", "own"}
      BY <1>2 DEF WorkerTake, IdleWorker
    <3>3. QED
      BY <3>1, <3>2 DEF InHand, Working
  <2>4. QED
    BY <2>1, <2>2, <2>3 DEF InHand
<1>3. CASE WorkerRelease
  <2>1. w.run \in Runs /\ rows' = [rows EXCEPT ![w.run] = Released(@, me)]
    BY <1>0, <1>3 DEF WorkerRelease, LeaseInv, StoreAnswers, Spend
  <2>2. r # w.run
    BY <1>0, <2>1 DEF Released, Row, IsActive, Active, NoOwner
  <2>3. InHand(r) /\ ~Working(r)
    BY <1>0, <2>1, <2>2 DEF LeaseInv, LeaseInHand, Working
  <2>4. UNCHANGED queue
    BY <1>3 DEF WorkerRelease, memory
  <2>5. QED
    BY <1>1, <2>3, <2>4, HandKept
<1>4. CASE ~WorkerTake /\ ~WorkerRelease
  <2>1. /\ w.pc \notin {"idle", "dead"}
        /\ w'.run = w.run
        /\ w'.pc \notin {"idle", "dead"}
        /\ UNCHANGED queue
    <3>1. w.pc \notin {"idle", "dead"} /\ UNCHANGED queue
      BY <1>4 DEF WorkerStep, WorkerOwn, WorkerReacquire,
         WorkerStart, WorkerSave, WorkerNotify, WorkerLoad, WorkerPlan,
         WorkerWipe, WorkerLoop, WorkerEmbed, WorkerFinish, WorkerRaises,
         Heartbeat, HeartbeatGivesUp, Heartbeating, Indexing, memory
    <3>2. ASSUME Finally PROVE w'.run = w.run /\ w'.pc = "release"
      BY <1>0, <3>2 DEF Finally, WorkerType
    <3>3. ASSUME Handler
          PROVE  w'.run = w.run /\ w'.pc \in {"save", "release"}
      BY <1>0, <3>2, <3>3 DEF Handler, WorkerType
    <3>4. ASSUME Continue
          PROVE  w'.run = w.run /\ w'.pc \notin {"idle", "dead"}
      BY <1>0, <3>2, <3>4 DEF Continue, WorkerType, Nexts
    <3>5. ASSUME NEW s, NEW next, WriteStatus(s, next)
          PROVE  w'.run = w.run /\ w'.pc = "save"
      BY <1>0, <3>5 DEF WriteStatus, WorkerType
    <3>6. CASE WorkerOwn \/ WorkerReacquire \/ Heartbeat \/ HeartbeatGivesUp
      BY <1>0, <3>1, <3>2, <3>6 DEF WorkerOwn, WorkerReacquire, Heartbeat,
         HeartbeatGivesUp, WorkerType
    <3>7. CASE WorkerStart
      BY <1>0, <3>3, <3>7 DEF WorkerStart, WorkerType
    <3>8. CASE WorkerSave \/ WorkerNotify
      BY <1>0, <3>4, <3>8 DEF WorkerSave, WorkerNotify, WorkerType
    <3>9. CASE WorkerLoad \/ WorkerPlan \/ WorkerWipe \/ WorkerFinish
      BY <1>0, <3>5, <3>9 DEF WorkerLoad, WorkerPlan, WorkerWipe, WorkerFinish,
         WorkerType
    <3>10. CASE WorkerLoop \/ WorkerRaises
      BY <1>0, <3>3, <3>5, <3>10 DEF WorkerLoop, WorkerRaises, WorkerType
    <3>11. CASE WorkerEmbed
      BY <1>0, <3>5, <3>11 DEF WorkerEmbed
    <3>12. QED
      BY <1>4, <3>1, <3>6, <3>7, <3>8, <3>9, <3>10, <3>11 DEF WorkerStep
  <2>2. CASE r = w.run
    BY <2>1, <2>2 DEF InHand, Working
  <2>3. CASE r # w.run
    <3>1. rows'[r] = rows[r]
      BY <1>0, <1>4, <2>1, <2>3 DEF WorkerStep, WorkerOwn, WorkerReacquire,
         WorkerStart, WorkerSave, WorkerNotify, WorkerLoad, WorkerPlan,
         WorkerWipe, WorkerLoop, WorkerEmbed, WorkerFinish, WorkerRaises,
         Heartbeat, HeartbeatGivesUp, durable
    <3>2. InHand(r) /\ ~Working(r)
      BY <1>0, <2>3, <3>1 DEF LeaseInv, LeaseInHand, Working
    <3>3. QED
      BY <1>1, <2>1, <3>2, HandKept
  <2>4. QED
    BY <2>2, <2>3
<1>5. QED
  BY <1>2, <1>3, <1>4

\* Nor does a stop, a restart or a crash.
LEMMA LeaseShutdown ==
    ASSUME LeaseInv, StopBegin \/ StopDone \/ Restart \/ Crash
    PROVE  LeaseInHand'
<1>1. CASE StopBegin \/ StopDone
  BY <1>1 DEF StopBegin, StopDone, LeaseInHand
<1>2. CASE Restart \/ Crash
  <2>1. me' = me + 1 /\ rows' = rows /\ me \in Nat /\ rows \in [Runs -> Row]
    BY <1>2 DEF Restart, Crash, Boot, durable, LeaseInv, Typed, MeOK, RowsOK
  <2>2. \A r \in Runs : rows'[r].owner # me'
    BY <2>1 DEF LeaseInv, OwnersKnown, Row
  <2>3. QED
    BY <2>2 DEF LeaseInHand
<1>3. QED
  BY <1>1, <1>2

\* As long as the store answers, a job this process leases and calls pending
\* or running is queued, being enqueued or being worked on: every path out of
\* _enqueue and _worker_loop either hands the job on or releases it.
THEOREM NoLeaseIsLost ==
    ASSUME \A b \in Budgets : b["storeFail"] = 0
    PROVE  Spec => []LeaseInHand
<1>1. Init => LeaseInv
  <2>1. SUFFICES ASSUME Init PROVE LeaseInv
    OBVIOUS
  <2>2. \A r \in Runs : rows[r] = NoRow /\ rows[r].state = "absent"
                        /\ rows[r].owner = 0
    BY <2>1 DEF Init, NoRow, NoOwner
  <2>3. LeaseInHand /\ OwnersKnown
    BY <2>1, <2>2 DEF Init, LeaseInHand, OwnersKnown, IsActive, Active
  <2>4. StoreAnswers /\ KillWritesFailed
    BY <2>1 DEF Init, StoreAnswers, KillWritesFailed, IdleTask
  <2>5. QED
    BY <2>1, <2>3, <2>4, InitTyped DEF LeaseInv
<1>2. LeaseInv /\ [Next]_vars => LeaseInv'
  <2>1. SUFFICES ASSUME LeaseInv, [Next]_vars PROVE LeaseInv'
    OBVIOUS
  <2>2. Typed'
    BY <2>1, TypedStep DEF LeaseInv
  <2>3. OwnersKnown' /\ StoreAnswers' /\ KillWritesFailed'
    BY <2>1, OwnersStayKnown, StoreStillAnswers,
       KillStaysFailed DEF LeaseInv
  <2>4. LeaseInHand'
    <3>1. CASE Next
      BY <2>1, <3>1, LeaseRequests, LeaseEnqueue, LeaseOthers, LeaseWorker,
         LeaseShutdown DEF Next
    <3>2. CASE UNCHANGED vars
      BY <2>1, <3>2 DEF vars, durable, memory, tasks, LeaseInv, LeaseInHand,
         InHand, Queued, Enqueuing, Working
    <3>3. QED
      BY <2>1, <3>1, <3>2
  <2>5. QED
    BY <2>2, <2>3, <2>4 DEF LeaseInv
<1>3. LeaseInv => LeaseInHand
  BY DEF LeaseInv
<1>4. QED
  BY <1>1, <1>2, <1>3, PTL DEF Spec

-----------------------------------------------------------------------------
(* A complete row is a whole index.                                         *)
(*                                                                          *)
(* The row says complete only after the worker's own last save, so the      *)
(* argument follows the object the worker carries: what it may say at each  *)
(* point of _index_run, and that what it counts is what has been written    *)
(* since the delete.  The purge route deletes points under a complete row,  *)
(* so it is excluded.                                                       *)

\* The point of _index_run that the worker is at, or goes on to.
Point == IF w.pc \in {"save", "notify"} THEN w.next ELSE w.pc

Whole(r) == pts[r] = [fresh |-> rows[r].chunks, stale |-> FALSE]
Counted  == pts[w.run] = [fresh |-> w.obj.chunks, stale |-> FALSE]

Before == Point \in {"load", "plan"} \/ w.pc = "wipe"
After  == Point \in {"loop", "finish"} \/ w.pc = "embed"
Ending == w.pc = "save" /\ w.next = "done"

NoPurge == d.pc = "idle" /\ left["delete"] = 0

Settled == \A r \in Runs : rows[r].state = "complete" => Whole(r)

Unfinished ==
    w.pc = "start" \/ Before \/ After \/ Ending => rows[w.run].state # "complete"

Carried ==
    /\ Before => w.obj.state = "running" /\ w.obj.chunks = 0
    /\ After => w.obj.state = "running" /\ Counted
    /\ Ending => w.obj.state = "failed" \/ (w.obj.state = "complete" /\ Counted)
    /\ w.pc = "save" /\ w.next = "release" => w.obj.state = "failed"
    /\ w.pc = "embed" => w.next \in {"loop", "finish"}

OthersWrite ==
    /\ e.pc \in {"accept", "save"} => e.obj.state = "pending"
    /\ KillWritesFailed

WholeInv == Typed /\ NoPurge /\ Settled /\ Unfinished /\ Carried /\ OthersWrite

\* Another coroutine neither touches the points nor makes a row complete.
LEMMA WholeFrame ==
    ASSUME Settled, Unfinished, Carried, UNCHANGED pts,
           w.pc \notin {"idle", "dead"} => w.run \in Runs,
           w'.pc = w.pc, w'.run = w.run, w'.obj = w.obj, w'.next = w.next,
           \A r \in Runs : rows'[r].state = "complete" =>
               rows[r].state = "complete" /\ rows'[r].chunks = rows[r].chunks
    PROVE  Settled' /\ Unfinished' /\ Carried'
<1>1. Settled'
  BY DEF Settled, Whole
<1>2. Carried'
  BY DEF Carried, Counted, Before, After, Ending, Point
<1>3. Unfinished'
  <2>1. w.pc = "start" \/ Before \/ After \/ Ending => w.run \in Runs
    BY DEF Before, After, Ending, Point
  <2>2. (w.pc = "start" \/ Before \/ After \/ Ending)
            <=> (w.pc = "start" \/ Before \/ After \/ Ending)'
    BY DEF Before, After, Ending, Point
  <2>3. QED
    BY <2>1, <2>2 DEF Unfinished
<1>4. QED
  BY <1>1, <1>2, <1>3

\* A step of the worker that leaves rows and points alone and takes it out of
\* _index_run, or to its start, is covered by the two facts it has to show.
LEMMA WholeLeave ==
    ASSUME Settled, UNCHANGED <<rows, pts>>,
           w'.pc \in {"idle", "dead", "own", "reacquire", "release"}
    PROVE  Settled' /\ Unfinished' /\ Carried'
BY DEF Settled, Whole, Unfinished, Carried, Before, After, Ending, Point

\* The worker's finally keeps what is settled.
LEMMA WholeFinally ==
    ASSUME Typed, Settled, UNCHANGED <<rows, pts>>, Finally
    PROVE  Settled' /\ Unfinished' /\ Carried'
<1>1. w'.pc = "release"
  BY DEF Finally, Typed, WorkerOK, WorkerType
<1>2. QED
  BY <1>1, WholeLeave

\* So does its handler.
LEMMA WholeHandler ==
    ASSUME Typed, Settled, UNCHANGED <<rows, pts>>, Handler, w.run \in Runs
    PROVE  Settled' /\ Unfinished' /\ Carried'
<1>1. CASE IsActive(mem[w.run])
  <2>1. /\ w'.pc = "save" /\ w'.next = "release"
        /\ w'.obj = Fail(mem[w.run])
    BY <1>1 DEF Handler, Typed, WorkerOK, WorkerType
  <2>2. w'.obj.state = "failed"
    BY <2>1 DEF Fail, Typed, MemOK, Status
  <2>3. QED
    BY <2>1, <2>2 DEF Settled, Whole, Unfinished, Carried, Before, After,
       Ending, Point
<1>2. CASE ~IsActive(mem[w.run])
  BY <1>2, WholeFinally DEF Handler
<1>3. QED
  BY <1>1, <1>2

\* _index_run writes a status it may carry at that point.
LEMMA WholeWrite ==
    ASSUME Typed, Settled', NEW s \in Status, NEW next \in Nexts \ {"release"},
           WriteStatus(s, next), UNCHANGED rows,
           rows[w.run].state # "complete",
           next \in {"load", "plan"} => s.state = "running" /\ s.chunks = 0,
           next \in {"loop", "finish"} =>
               s.state = "running"
               /\ pts'[w.run] = [fresh |-> s.chunks, stale |-> FALSE],
           next = "done" =>
               \/ s.state = "failed"
               \/ /\ s.state = "complete"
                  /\ pts'[w.run] = [fresh |-> s.chunks, stale |-> FALSE]
    PROVE  Settled' /\ Unfinished' /\ Carried'
<1>1. w'.pc = "save" /\ w'.next = next /\ w'.obj = s /\ w'.run = w.run
  BY DEF WriteStatus, Typed, WorkerOK, WorkerType
<1>2. Unfinished'
  BY <1>1 DEF Unfinished
<1>3. Carried'
  <2>2. Before' => w'.obj.state = "running" /\ w'.obj.chunks = 0
    BY <1>1 DEF Before, Point
  <2>3. After' => w'.obj.state = "running" /\ Counted'
    BY <1>1 DEF After, Point, Counted
  <2>4. Ending' => \/ w'.obj.state = "failed"
                   \/ w'.obj.state = "complete" /\ Counted'
    BY <1>1 DEF Ending, Counted
  <2>5. QED
    BY <1>1, <2>2, <2>3, <2>4 DEF Carried
<1>4. QED
  BY <1>2, <1>3

\* What an update leaves of a complete row.
LEMMA CompleteFacts ==
    ASSUME NEW row \in Row, NEW o \in Nat, NEW s \in Status
    PROVE  /\ Lapsed(row).state = row.state /\ Lapsed(row).chunks = row.chunks
           /\ Renewed(row).state = row.state /\ Renewed(row).chunks = row.chunks
           /\ Reacquired(row, o).state = row.state
           /\ Reacquired(row, o).chunks = row.chunks
           /\ Released(row, o).state = row.state
           /\ Released(row, o).chunks = row.chunks
           /\ Claimed(row, o).state = "pending"
           /\ Saved(row, s).state = s.state /\ Saved(row, s).chunks = s.chunks
           /\ NoRow.state = "absent"
BY DEF Row, Status, Lapsed, Renewed, Claimed, Reacquired, Saved, Released, NoRow

\* Where nothing purges, nothing goes on to purge.
LEMMA PurgeStaysOut ==
    ASSUME Typed, NoPurge, [Next]_vars
    PROVE  NoPurge' /\ ~(\E x \in Runs : DeletePoints(x)) /\ ~DeleteRow
<1>1. ~(\E x \in Runs : DeletePoints(x)) /\ ~DeleteRow
  BY DEF NoPurge, DeletePoints, DeleteRow, Spend
<1>2. left' = left \/ \E op \in Ops \ {"delete"} : Spend(op)
  BY <1>1 DEF Next, vars, durable, memory, tasks, Lapse, EnqueueStart, KillRead,
     GetRead, StopSweep, EnqueueStep, EnqueueClaim,
     EnqueueClaimFails, EnqueueReread, EnqueueRefused, EnqueueAccept,
     EnqueueSave, EnqueueNotify, KillStep, KillAct, KillSave, KillNotify,
     GetAct, WorkerStep, WorkerTake, WorkerOwn, WorkerReacquire,
     WorkerStart, WorkerSave, WorkerNotify, WorkerLoad, WorkerPlan, WorkerWipe,
     WorkerLoop, WorkerEmbed, WorkerFinish, WorkerRaises, WorkerRelease,
     Heartbeat, HeartbeatGivesUp, StopBegin, StopDone, Restart, Crash, Ops
<1>3. left'["delete"] = 0
  BY <1>2 DEF NoPurge, Spend, Typed, LeftOK, Ops
<1>4. d'.pc = "idle"
  BY <1>1 DEF NoPurge, Next, vars, durable, memory, tasks, Lapse, EnqueueStart,
     KillRead,
     GetRead, StopSweep, EnqueueStep, EnqueueClaim,
     EnqueueClaimFails, EnqueueReread, EnqueueRefused, EnqueueAccept,
     EnqueueSave, EnqueueNotify, KillStep, KillAct, KillSave, KillNotify,
     GetAct, WorkerStep, WorkerTake, WorkerOwn, WorkerReacquire,
     WorkerStart, WorkerSave, WorkerNotify, WorkerLoad, WorkerPlan, WorkerWipe,
     WorkerLoop, WorkerEmbed, WorkerFinish, WorkerRaises, WorkerRelease,
     Heartbeat, HeartbeatGivesUp, StopBegin, StopDone, Restart, Crash, Boot,
     IdleTask
<1>5. QED
  BY <1>1, <1>3, <1>4 DEF NoPurge

\* A request that starts changes no points.
LEMMA WholeRequests ==
    ASSUME WholeInv, NEW x \in Runs,
           \/ Lapse(x) \/ \E force \in BOOLEAN : EnqueueStart(x, force)
           \/ KillRead(x) \/ GetRead(x)
    PROVE  Settled' /\ Unfinished' /\ Carried'
<1>1. UNCHANGED <<pts, w>>
  BY DEF Lapse, EnqueueStart, KillRead, GetRead, durable, tasks
<1>2. rows \in [Runs -> Row] /\ (w.pc \notin {"idle", "dead"} => w.run \in Runs)
  BY DEF WholeInv, Typed, RowsOK, WorkerOK
<1>3. \A r \in Runs : /\ rows'[r].state = rows[r].state
                      /\ rows'[r].chunks = rows[r].chunks
  <2>1. UNCHANGED rows \/ rows' = [rows EXCEPT ![x] = Lapsed(@)]
    BY DEF Lapse, EnqueueStart, KillRead, GetRead, durable
  <2>2. Lapsed(rows[x]).state = rows[x].state /\ Lapsed(rows[x]).chunks = rows[x].chunks
    BY <1>2 DEF Lapsed, Row
  <2>3. QED
    BY <1>2, <2>1, <2>2
<1>4. QED
  BY <1>1, <1>2, <1>3, WholeFrame DEF WholeInv

\* Nor does a post.
LEMMA WholeEnqueue ==
    ASSUME WholeInv, EnqueueStep \/ KillStep \/ GetAct
    PROVE  Settled' /\ Unfinished' /\ Carried'
<1>0. /\ rows \in [Runs -> Row] /\ w \in WorkerType /\ me \in Nat
      /\ w.pc \notin {"idle", "dead"} => w.run \in Runs
      /\ e.pc # "idle" => e.run \in Runs /\ e.obj \in Status
      /\ k.pc # "idle" => k.run \in Runs /\ k.obj \in Status
  BY DEF WholeInv, Typed, RowsOK, WorkerOK, EnqueueOK, EnqueueType, KillOK,
     KillType, MeOK
<1>1. UNCHANGED pts
  BY DEF EnqueueStep, EnqueueClaim, EnqueueClaimFails, EnqueueReread,
     EnqueueRefused, EnqueueAccept, EnqueueSave, EnqueueNotify, KillStep,
     KillAct, KillSave, KillNotify, GetAct, durable
<1>2. w'.pc = w.pc /\ w'.run = w.run /\ w'.obj = w.obj /\ w'.next = w.next
  <2>1. w' = w \/ \E b : w' = [w EXCEPT !.alias = b]
    BY DEF EnqueueStep, EnqueueClaim, EnqueueClaimFails, EnqueueReread,
       EnqueueRefused, EnqueueAccept, EnqueueSave, EnqueueNotify, KillStep,
       KillAct, KillSave, KillNotify, GetAct, Replace, tasks
  <2>2. QED
    BY <1>0, <2>1 DEF WorkerType
<1>3. \A r \in Runs : rows'[r] = rows[r] \/ rows'[r].state # "complete"
  <2>1. CASE UNCHANGED rows
    BY <2>1
  <2>2. CASE e.pc = "claim" /\ rows' = [rows EXCEPT ![e.run] = Claimed(@, me)]
    BY <1>0, <2>2, CompleteFacts, NullsTyped
  <2>3. CASE e.pc = "save" /\ rows' = [rows EXCEPT ![e.run] = Saved(@, e.obj)]
    BY <1>0, <2>3, CompleteFacts DEF WholeInv, OthersWrite
  <2>4. CASE k.pc = "save" /\ rows' = [rows EXCEPT ![k.run] = Saved(@, k.obj)]
    BY <1>0, <2>4, CompleteFacts DEF WholeInv, OthersWrite, KillWritesFailed
  <2>5. QED
    BY <2>1, <2>2, <2>3, <2>4 DEF EnqueueStep, EnqueueClaim, EnqueueClaimFails,
       EnqueueReread, EnqueueRefused, EnqueueAccept, EnqueueSave,
       EnqueueNotify, KillStep, KillAct, KillSave, KillNotify, GetAct, durable
<1>4. QED
  BY <1>0, <1>1, <1>2, <1>3, WholeFrame DEF WholeInv

\* What others are about to save stays what it was.
LEMMA OthersWriteKept ==
    ASSUME Typed, OthersWrite, [Next]_vars, Typed'
    PROVE  OthersWrite'
<1>1. KillWritesFailed'
  BY KillStaysFailed DEF OthersWrite
<1>2. e'.pc \in {"accept", "save"} => e'.obj.state = "pending"
  <2>1. CASE EnqueueClaim
    <3>1. StatusOf(Claimed(rows[e.run], me)).state = "pending"
      BY <2>1 DEF EnqueueClaim, Typed, EnqueueOK, RowsOK, Row, Claimed, StatusOf
    <3>2. QED
      BY <2>1, <3>1 DEF EnqueueClaim, Typed, EnqueueOK, EnqueueType
  <2>2. CASE EnqueueAccept
    BY <2>2 DEF EnqueueAccept, OthersWrite, Typed, EnqueueOK, EnqueueType
  <2>3. CASE EnqueueStep /\ ~EnqueueClaim /\ ~EnqueueAccept
    <3>1. \/ e' = IdleEnqueue
          \/ e' = [e EXCEPT !.pc = "refused", !.obj = StatusOf(rows[e.run])]
          \/ e' = [e EXCEPT !.pc = "notify"]
      BY <2>3 DEF EnqueueStep, EnqueueClaimFails, EnqueueReread, EnqueueRefused,
         EnqueueSave, EnqueueNotify
    <3>2. e \in EnqueueType
      BY DEF Typed, EnqueueOK
    <3>3. e'.pc \in {"idle", "refused", "notify"}
      <4>1. CASE e' = IdleEnqueue
        BY <4>1 DEF IdleEnqueue
      <4>2. CASE e' = [e EXCEPT !.pc = "notify"]
        BY <3>2, <4>2 DEF EnqueueType
      <4>3. CASE e' = [e EXCEPT !.pc = "refused", !.obj = StatusOf(rows[e.run])]
        <5>1. e'.pc = "refused"
          BY <3>2, <4>3 DEF EnqueueType, StatusOf
        <5>2. QED
          BY <5>1
      <4>4. QED
        BY <3>1, <4>1, <4>2, <4>3
    <3>4. QED
      BY <3>3
  <2>4. CASE ~EnqueueStep
    <3>1. UNCHANGED e \/ e'.pc \in {"claim", "idle"}
      BY <2>4 DEF Next, vars, durable, memory, tasks, Lapse, EnqueueStart,
     KillRead, GetRead, DeletePoints, StopSweep, KillStep,
     KillAct, KillSave, KillNotify,
     GetAct, DeleteRow, WorkerStep, WorkerTake, WorkerOwn, WorkerReacquire,
     WorkerStart, WorkerSave, WorkerNotify, WorkerLoad, WorkerPlan, WorkerWipe,
     WorkerLoop, WorkerEmbed, WorkerFinish, WorkerRaises, WorkerRelease,
     Heartbeat, HeartbeatGivesUp, StopBegin, StopDone, Restart, Crash, Boot,
     IdleEnqueue
    <3>2. QED
      BY <3>1 DEF OthersWrite
  <2>5. QED
    BY <2>1, <2>2, <2>3, <2>4
<1>3. QED
  BY <1>1, <1>2 DEF OthersWrite

\* The worker completes a run only with its points whole.
LEMMA WholeWorker ==
    ASSUME WholeInv, WorkerStep, Typed'
    PROVE  Settled' /\ Unfinished' /\ Carried'
<1> DEFINE Goal == Settled' /\ Unfinished' /\ Carried'
           r == w.run
<1>0. /\ Typed /\ Settled /\ Unfinished /\ Carried
      /\ rows \in [Runs -> Row] /\ w \in WorkerType /\ me \in Nat
      /\ pts \in [Runs -> [fresh : Nat, stale : BOOLEAN]]
      /\ w.pc \notin {"idle", "dead"} => r \in Runs
      /\ w.obj \in Status
  BY DEF WholeInv, Typed, RowsOK, WorkerOK, WorkerType, MeOK, PtsOK
<1>1. CASE WorkerTake \/ WorkerRelease
  <2>1. w'.pc \in {"release", "own", "idle", "dead"}
    <3>1. CASE WorkerTake
      BY <3>1 DEF WorkerTake, IdleWorker
    <3>2. CASE WorkerRelease
      BY <3>2 DEF WorkerRelease, IdleWorker
    <3>3. QED
      BY <1>1, <3>1, <3>2
  <2>2. UNCHANGED pts
    BY <1>1 DEF WorkerTake, WorkerRelease, durable
  <2>3. Settled'
    <3>1. \/ UNCHANGED rows
          \/ r \in Runs /\ rows' = [rows EXCEPT ![r] = Released(@, me)]
      BY <1>0, <1>1 DEF WorkerTake, WorkerRelease, durable
    <3>2. \A x \in Runs : rows'[x].state = rows[x].state
                          /\ rows'[x].chunks = rows[x].chunks
      <4>1. CASE UNCHANGED rows
        BY <4>1
      <4>2. CASE r \in Runs /\ rows' = [rows EXCEPT ![r] = Released(@, me)]
        <5>1. /\ Released(rows[r], me).state = rows[r].state
              /\ Released(rows[r], me).chunks = rows[r].chunks
          BY <1>0, <4>2 DEF Released, Row
        <5>2. \A x \in Runs : x # r => rows'[x] = rows[x]
          BY <1>0, <4>2
        <5>3. rows'[r].state = rows[r].state /\ rows'[r].chunks = rows[r].chunks
          BY <1>0, <4>2, <5>1
        <5>4. QED
          BY <5>2, <5>3
      <4>3. QED
        BY <3>1, <4>1, <4>2
    <3>3. QED
      BY <1>0, <2>2, <3>2 DEF Settled, Whole
  <2>4. QED
    BY <2>1, <2>3 DEF Unfinished, Carried, Before, After, Ending, Point
<1>2. CASE WorkerOwn \/ WorkerReacquire
  <2>1. UNCHANGED pts
    BY <1>2 DEF WorkerOwn, WorkerReacquire, durable
  <2>2. \A x \in Runs : rows'[x].state = rows[x].state
                        /\ rows'[x].chunks = rows[x].chunks
    <3>1. r \in Runs
      BY <1>0, <1>2 DEF WorkerOwn, WorkerReacquire
    <3>2. UNCHANGED rows \/ rows' = [rows EXCEPT ![r] = Reacquired(@, me)]
      BY <1>2 DEF WorkerOwn, WorkerReacquire, durable
    <3>3. /\ Reacquired(rows[r], me).state = rows[r].state
          /\ Reacquired(rows[r], me).chunks = rows[r].chunks
      BY <1>0, <3>1 DEF Reacquired, Row
    <3>4. \A x \in Runs : x # r => rows'[x] = rows[x]
      BY <1>0, <3>2
    <3>5. rows'[r].state = rows[r].state /\ rows'[r].chunks = rows[r].chunks
      BY <1>0, <3>1, <3>2, <3>3
    <3>6. QED
      BY <3>4, <3>5
  <2>3. Settled'
    BY <1>0, <2>1, <2>2 DEF Settled, Whole
  <2>4. \/ w'.pc \in {"reacquire", "release"}
        \/ w'.pc = "start" /\ w'.run = r /\ r \in Runs /\ IsActive(rows[r])
    BY <1>0, <1>2 DEF WorkerOwn, WorkerReacquire, Finally, OwnedBy,
       Reacquirable, WorkerType
  <2>5. QED
    BY <2>2, <2>3, <2>4 DEF Unfinished, Carried, Before, After, Ending, Point,
       IsActive, Active
<1>3. CASE WorkerStart
  <2>1. CASE r \in killed
    BY <1>0, <1>3, <2>1, WholeHandler DEF WorkerStart, durable
  <2>2. CASE r \notin killed
    <3>1. /\ r \in Runs /\ UNCHANGED rows /\ rows[r].state # "complete"
          /\ \A x \in Runs : x # r => pts'[x] = pts[x]
      BY <1>0, <1>3, <2>2 DEF WorkerStart, Unfinished
    <3>2. Settled'
      BY <1>0, <3>1 DEF Settled, Whole
    <3>3. /\ w'.pc = "save" /\ w'.next = "load" /\ w'.run = r
          /\ w'.obj = [mem[r] EXCEPT !.state = "running", !.chunks = 0]
      BY <1>0, <1>3, <2>2 DEF WorkerStart, WorkerType
    <3>4. w'.obj.state = "running" /\ w'.obj.chunks = 0
      BY <1>0, <3>1, <3>3 DEF Typed, MemOK, Status
    <3>5. QED
      BY <3>1, <3>2, <3>3, <3>4 DEF Unfinished, Carried, Before, After, Ending,
         Point
  <2>3. QED
    BY <2>1, <2>2
<1>4. CASE WorkerSave
  <2>1. UNCHANGED pts /\ r \in Runs
    BY <1>0, <1>4 DEF WorkerSave
  <2>2. UNCHANGED rows \/ rows' = [rows EXCEPT ![r] = Saved(@, w.obj)]
    BY <1>4 DEF WorkerSave
  <2>3. /\ rows'[r] = rows[r] \/ (rows'[r].state = w.obj.state
                                  /\ rows'[r].chunks = w.obj.chunks)
        /\ \A x \in Runs : x # r => rows'[x] = rows[x]
    BY <1>0, <2>1, <2>2, CompleteFacts
  <2>4. Settled'
    <3>1. w.obj.state = "complete" => Counted
      BY <1>0, <1>4 DEF Carried, Before, After, Ending, Point, WorkerSave,
         WorkerType, Nexts
    <3>2. QED
      BY <1>0, <2>1, <2>3, <3>1 DEF Settled, Whole, Counted
  <2>5. \/ w'.pc = "release"
        \/ /\ w'.run = r /\ w'.obj = w.obj /\ w'.next = w.next
           /\ w'.pc = "notify"
        \/ /\ w'.run = r /\ w'.obj = w.obj /\ w'.next = w.next
           /\ w'.pc = w.next /\ w.next \in {"load", "plan", "loop", "finish"}
    BY <1>0, <1>4 DEF WorkerSave, Continue, Finally, WorkerType, Nexts
  <2>6. QED
    BY <1>0, <1>4, <2>1, <2>3, <2>4, <2>5 DEF WorkerSave, Unfinished, Carried,
       Counted, Before, After, Ending, Point
<1>5. CASE WorkerNotify
  <2>1. UNCHANGED <<rows, pts>> /\ r \in Runs
    BY <1>0, <1>5 DEF WorkerNotify
  <2>2. CASE Finally
    BY <1>0, <2>1, <2>2, WholeFinally
  <2>3. CASE w.next \notin {"done", "release"} /\ w' = [w EXCEPT !.pc = w.next]
    <3>1. /\ w'.run = r /\ w'.obj = w.obj
          /\ w'.pc = w.next /\ w.next \in {"load", "plan", "loop", "finish"}
      BY <1>0, <2>3 DEF WorkerType, Nexts
    <3>2. QED
      BY <1>0, <1>5, <2>1, <3>1 DEF WorkerNotify, Settled, Whole, Unfinished,
         Carried, Counted, Before, After, Ending, Point
  <2>4. QED
    BY <1>5, <2>2, <2>3 DEF WorkerNotify, Continue
<1>6. CASE WorkerLoad
  <2>1. /\ r \in Runs /\ UNCHANGED <<rows, pts>>
        /\ rows[r].state # "complete"
        /\ w.obj.state = "running" /\ w.obj.chunks = 0
    BY <1>0, <1>6 DEF WorkerLoad, Unfinished, Carried, Before, Point, durable
  <2>2. Settled'
    BY <1>0, <2>1 DEF Settled, Whole
  <2>3. CASE WriteStatus(w.obj, "plan")
    BY <1>0, <2>1, <2>2, <2>3, WholeWrite DEF Nexts
  <2>4. CASE WriteStatus(Fail(w.obj), "done")
    <3>1. Fail(w.obj) \in Status /\ Fail(w.obj).state = "failed"
      BY <1>0, StatusUpdatesTyped DEF Fail, Status
    <3>2. QED
      BY <1>0, <2>1, <2>2, <2>4, <3>1, WholeWrite DEF Nexts
  <2>5. QED
    BY <1>6, <2>3, <2>4 DEF WorkerLoad
<1>7. CASE WorkerPlan
  <2>1. /\ r \in Runs /\ UNCHANGED <<rows, pts>>
        /\ rows[r].state # "complete"
        /\ w.obj.state = "running" /\ w.obj.chunks = 0
    BY <1>0, <1>7 DEF WorkerPlan, Unfinished, Carried, Before, Point, durable
  <2>2. Settled'
    BY <1>0, <2>1 DEF Settled, Whole
  <2>3. CASE WriteStatus(Fail(w.obj), "done")
    <3>1. Fail(w.obj) \in Status /\ Fail(w.obj).state = "failed"
      BY <1>0, StatusUpdatesTyped DEF Fail, Status
    <3>2. QED
      BY <1>0, <2>1, <2>2, <2>3, <3>1, WholeWrite DEF Nexts
  <2>4. CASE \E next \in {"loop", "done"} :
                w' = [w EXCEPT !.pc = "wipe", !.next = next]
    <3>1. w'.pc = "wipe" /\ w'.run = r /\ w'.obj = w.obj
      BY <1>0, <2>4 DEF WorkerType
    <3>2. QED
      BY <2>1, <2>2, <3>1 DEF Unfinished, Carried, Before, After, Ending, Point
  <2>5. QED
    BY <1>7, <2>3, <2>4 DEF WorkerPlan
<1>8. CASE WorkerWipe
  <2>1. /\ r \in Runs /\ UNCHANGED rows
        /\ rows[r].state # "complete"
        /\ w.obj.state = "running" /\ w.obj.chunks = 0
        /\ pts' = [pts EXCEPT ![r] = NoPoints]
    BY <1>0, <1>8 DEF WorkerWipe, Unfinished, Carried, Before, Point
  <2>2. pts'[r] = [fresh |-> 0, stale |-> FALSE]
        /\ \A x \in Runs : x # r => pts'[x] = pts[x]
    BY <1>0, <2>1 DEF NoPoints
  <2>3. Settled'
    BY <1>0, <2>1, <2>2 DEF Settled, Whole
  <2>4. CASE WriteStatus(Complete(w.obj), "done")
    <3>1. /\ Complete(w.obj) \in Status
          /\ Complete(w.obj).state = "complete" /\ Complete(w.obj).chunks = 0
      BY <1>0, <2>1, StatusUpdatesTyped DEF Complete, Status
    <3>2. QED
      BY <1>0, <2>1, <2>2, <2>3, <2>4, <3>1, WholeWrite DEF Nexts
  <2>5. CASE w' = [w EXCEPT !.pc = "loop"]
    <3>1. w'.pc = "loop" /\ w'.run = r /\ w'.obj = w.obj
      BY <1>0, <2>5 DEF WorkerType
    <3>2. QED
      BY <2>1, <2>2, <2>3, <3>1 DEF Unfinished, Carried, Counted, Before,
         After, Ending, Point
  <2>6. QED
    BY <1>8, <2>4, <2>5 DEF WorkerWipe
<1>9. CASE WorkerLoop
  <2>1. /\ r \in Runs /\ UNCHANGED <<rows, pts>>
        /\ rows[r].state # "complete"
        /\ w.obj.state = "running" /\ Counted
    BY <1>0, <1>9 DEF WorkerLoop, Unfinished, Carried, After, Point, durable
  <2>2. Settled'
    BY <1>0, <2>1 DEF Settled, Whole
  <2>3. CASE Handler
    BY <1>0, <2>1, <2>3, WholeHandler
  <2>4. CASE \E next \in {"loop", "finish"} :
                w' = [w EXCEPT !.pc = "embed", !.next = next]
    <3>1. /\ w'.pc = "embed" /\ w'.next \in {"loop", "finish"}
          /\ w'.run = r /\ w'.obj = w.obj
      BY <1>0, <2>4 DEF WorkerType
    <3>2. QED
      BY <2>1, <2>2, <3>1 DEF Unfinished, Carried, Counted, Before, After,
         Ending, Point
  <2>5. CASE WriteStatus(Complete(w.obj), "done")
    <3>1. /\ Complete(w.obj) \in Status
          /\ Complete(w.obj).state = "complete"
          /\ Complete(w.obj).chunks = w.obj.chunks
      BY <1>0, StatusUpdatesTyped DEF Complete, Status
    <3>2. QED
      BY <1>0, <2>1, <2>2, <2>5, <3>1, WholeWrite DEF Nexts, Counted
  <2>6. QED
    BY <1>9, <2>3, <2>4, <2>5 DEF WorkerLoop
<1>10. CASE WorkerEmbed
  <2>1. /\ r \in Runs /\ UNCHANGED rows
        /\ rows[r].state # "complete"
        /\ w.obj.state = "running" /\ Counted
        /\ w.next \in {"loop", "finish"}
    BY <1>0, <1>10 DEF WorkerEmbed, Unfinished, Carried, After, Point
  <2>2. \A x \in Runs : x # r => pts'[x] = pts[x]
    BY <1>0, <1>10, <2>1 DEF WorkerEmbed
  <2>3. Settled'
    BY <1>0, <2>1, <2>2 DEF Settled, Whole
  <2>4. CASE /\ pts' = [pts EXCEPT ![r].fresh = @ + 1]
             /\ WriteStatus([w.obj EXCEPT !.chunks = @ + 1], w.next)
    <3> DEFINE s == [w.obj EXCEPT !.chunks = @ + 1]
    <3>1. s \in Status /\ s.state = "running" /\ s.chunks = w.obj.chunks + 1
      BY <1>0, <2>1, StatusUpdatesTyped DEF Status
    <3>2. pts'[r] = [fresh |-> w.obj.chunks + 1, stale |-> FALSE]
      <4>1. pts'[r] = [pts[r] EXCEPT !.fresh = @ + 1]
        BY <1>0, <2>1, <2>4
      <4>2. pts[r] = [fresh |-> w.obj.chunks, stale |-> FALSE]
        BY <2>1 DEF Counted
      <4>3. pts[r].fresh = w.obj.chunks /\ pts[r].stale = FALSE
        BY <4>2
      <4>4. pts'[r].fresh = w.obj.chunks + 1 /\ pts'[r].stale = FALSE
        BY <1>0, <2>1, <4>1, <4>3
      <4>5. pts'[r] \in [fresh : Nat, stale : BOOLEAN]
        BY <2>1 DEF Typed, PtsOK
      <4>6. QED
        BY <4>4, <4>5
    <3> HIDE DEF s
    <3>3. WriteStatus(s, w.next)
      BY <2>4 DEF s
    <3>4. QED
      BY <1>0, <2>1, <2>3, <3>1, <3>2, <3>3, WholeWrite DEF Nexts
  <2>5. CASE WriteStatus(Fail(w.obj), "done")
    <3>1. Fail(w.obj) \in Status /\ Fail(w.obj).state = "failed"
      BY <1>0, StatusUpdatesTyped DEF Fail, Status
    <3>2. QED
      BY <1>0, <2>1, <2>3, <2>5, <3>1, WholeWrite DEF Nexts
  <2>6. QED
    BY <1>10, <2>4, <2>5 DEF WorkerEmbed
<1>11. CASE WorkerFinish
  <2>1. /\ r \in Runs /\ UNCHANGED <<rows, pts>>
        /\ rows[r].state # "complete" /\ Counted
        /\ WriteStatus(Complete(w.obj), "done")
    BY <1>0, <1>11 DEF WorkerFinish, Unfinished, Carried, After, Point, durable
  <2>2. Settled'
    BY <1>0, <2>1 DEF Settled, Whole
  <2>3. /\ Complete(w.obj) \in Status
        /\ Complete(w.obj).state = "complete"
        /\ Complete(w.obj).chunks = w.obj.chunks
    BY <1>0, StatusUpdatesTyped DEF Complete, Status
  <2>4. QED
    BY <1>0, <2>1, <2>2, <2>3, WholeWrite DEF Nexts, Counted
<1>12. CASE WorkerRaises
  <2>1. r \in Runs /\ UNCHANGED <<rows, pts>>
    BY <1>0, <1>12 DEF WorkerRaises, durable
  <2>2. CASE Handler
    BY <1>0, <2>1, <2>2, WholeHandler
  <2>3. CASE w.pc = "loop" /\ WriteStatus(Fail(w.obj), "done")
    <3>1. Fail(w.obj) \in Status /\ Fail(w.obj).state = "failed"
      BY <1>0, StatusUpdatesTyped DEF Fail, Status
    <3>2. rows[r].state # "complete"
      BY <1>0, <2>3 DEF Unfinished, After, Point
    <3>3. Settled'
      BY <1>0, <2>1 DEF Settled, Whole
    <3>4. QED
      BY <1>0, <2>1, <2>3, <3>1, <3>2, <3>3, WholeWrite DEF Nexts
  <2>4. QED
    BY <1>12, <2>2, <2>3 DEF WorkerRaises
<1>13. QED
  BY <1>1, <1>2, <1>3, <1>4, <1>5, <1>6, <1>7, <1>8, <1>9, <1>10, <1>11, <1>12
     DEF WorkerStep

\* A stop, a restart or a crash completes nothing.
LEMMA WholeShutdown ==
    ASSUME WholeInv,
           \/ Heartbeat \/ HeartbeatGivesUp \/ StopBegin \/ StopDone
           \/ Restart \/ Crash \/ \E x \in Runs : StopSweep(x)
    PROVE  Settled' /\ Unfinished' /\ Carried'
<1>0. /\ Typed /\ Settled /\ Unfinished /\ Carried
      /\ rows \in [Runs -> Row] /\ w \in WorkerType
      /\ w.pc \notin {"idle", "dead"} => w.run \in Runs
  BY DEF WholeInv, Typed, RowsOK, WorkerOK
<1>1. CASE Heartbeat \/ HeartbeatGivesUp
  <2>1. w.run \in Runs /\ UNCHANGED pts
    BY <1>0, <1>1 DEF Heartbeat, HeartbeatGivesUp, Heartbeating, Indexing, durable
  <2>2. CASE UNCHANGED rows /\ Finally
    BY <1>0, <2>1, <2>2, WholeFinally
  <2>3. CASE rows' = [rows EXCEPT ![w.run] = Renewed(@)] /\ UNCHANGED w
    <3>1. Renewed(rows[w.run]).state = rows[w.run].state
          /\ Renewed(rows[w.run]).chunks = rows[w.run].chunks
      BY <1>0, <2>1 DEF Renewed, Row
    <3>2. QED
      BY <1>0, <2>1, <2>3, <3>1, WholeFrame
  <2>4. QED
    BY <1>1, <2>2, <2>3 DEF Heartbeat, HeartbeatGivesUp, durable
<1>2. CASE StopBegin
  <2>1. UNCHANGED <<rows, pts>>
    BY <1>2 DEF StopBegin, durable
  <2>2. CASE Indexing /\ Handler
    BY <1>0, <2>1, <2>2, WholeHandler DEF Indexing
  <2>3. CASE Finally
    BY <1>0, <2>1, <2>3, WholeFinally
  <2>4. CASE w' = [IdleWorker EXCEPT !.pc = "dead"]
    BY <1>0, <2>1, <2>4, WholeLeave DEF IdleWorker
  <2>5. QED
    BY <1>2, <2>2, <2>3, <2>4 DEF StopBegin
<1>3. CASE StopDone
  BY <1>0, <1>3, WholeFrame DEF StopDone, durable, tasks
<1>4. CASE Restart \/ Crash
  BY <1>0, <1>4, WholeLeave DEF Restart, Crash, Boot, IdleWorker, durable
<1>5. CASE \E x \in Runs : StopSweep(x)
  <2>1. PICK x \in Runs : StopSweep(x)
    BY <1>5
  <2>2. Saved(rows[x], Fail(mem[x])).state = "failed"
    BY <1>0 DEF Saved, Fail, Typed, MemOK, Status, Row
  <2>3. UNCHANGED rows \/ rows' = [rows EXCEPT ![x] = Saved(@, Fail(mem[x]))]
    BY <2>1 DEF StopSweep
  <2>4. UNCHANGED <<pts, w>>
    BY <2>1 DEF StopSweep, tasks
  <2>5. QED
    BY <1>0, <2>2, <2>3, <2>4, WholeFrame
<1>6. QED
  BY <1>1, <1>2, <1>3, <1>4, <1>5

\* Every step keeps the invariant.
LEMMA WholeStep == WholeInv /\ [Next]_vars => WholeInv'
<1>1. SUFFICES ASSUME WholeInv, [Next]_vars PROVE WholeInv'
  OBVIOUS
<1>2. Typed' /\ OthersWrite'
  BY <1>1, TypedStep, OthersWriteKept DEF WholeInv
<1>3. NoPurge' /\ ~(\E x \in Runs : DeletePoints(x)) /\ ~DeleteRow
  BY <1>1, PurgeStaysOut DEF WholeInv
<1>4. Settled' /\ Unfinished' /\ Carried'
  <2>1. CASE Next
    BY <1>1, <1>2, <1>3, <2>1, WholeRequests, WholeEnqueue, WholeWorker,
       WholeShutdown DEF Next
  <2>2. CASE UNCHANGED vars
    BY <1>1, <2>2, WholeFrame DEF vars, durable, tasks, WholeInv, Typed, WorkerOK
  <2>3. QED
    BY <1>1, <2>1, <2>2
<1>5. QED
  BY <1>2, <1>3, <1>4 DEF WholeInv

\* Where the mix has no purge, the initial states satisfy it.
LEMMA WholeInit ==
    ASSUME \A b \in Budgets : b["delete"] = 0, Init
    PROVE  WholeInv
<1>1. Settled
  BY DEF Init, Settled, NoRow
<1>2. NoPurge /\ OthersWrite
  BY DEF Init, NoPurge, OthersWrite, KillWritesFailed, IdleTask, IdleEnqueue
<1>3. Unfinished /\ Carried
  BY DEF Init, Unfinished, Carried, Before, After, Ending, Point, IdleWorker
<1>4. QED
  BY <1>1, <1>2, <1>3, InitTyped DEF WholeInv

\* While nobody purges, a row that says complete counts exactly the batches in
\* the index, whatever crashes, lapses, fails, is killed or queued again: the
\* order of _index_run is delete, write, count, and only then the last save.
THEOREM CompleteMeansWhole ==
    ASSUME \A b \in Budgets : b["delete"] = 0
    PROVE  Spec => []CompleteIsWhole
<1>1. Init => WholeInv
  BY WholeInit
<1>2. WholeInv /\ [Next]_vars => WholeInv'
  BY WholeStep
<1>3. WholeInv => CompleteIsWhole
  BY DEF WholeInv, Settled, Whole, CompleteIsWhole
<1>4. QED
  BY <1>1, <1>2, <1>3, PTL DEF Spec

-----------------------------------------------------------------------------
(* What a step may never do.                                                *)

\* A job another process leases is changed by this one only in a purge: every
\* update but those of time and of the purge has the owner, or a lease that has
\* run out, in its filter (claim, reacquire, heartbeat, save, release).
THEOREM OthersUntouched == Spec => OthersLeaseRespected
<1>1. ASSUME Typed, [Next]_vars, NEW r \in Runs,
             ActivelyLeased(rows[r]), rows[r].owner # me
      PROVE  rows'[r] \in {rows[r], Lapsed(rows[r]), NoRow}
  <2>1. Update(rows[r], rows'[r])
    BY <1>1, RowSteps
  <2>2. ~Claimable(rows[r], TRUE) /\ ~Claimable(rows[r], FALSE)
    BY <1>1 DEF ActivelyLeased, Claimable, IsActive, IsTerminal, Active, Terminal
  <2>3. ~Reacquirable(rows[r], me) /\ ~Renewable(rows[r], me) /\ ~Writable(rows[r], me)
    BY <1>1 DEF ActivelyLeased, Reacquirable, Renewable, Writable
  <2>4. Released(rows[r], me) = rows[r]
    BY <1>1 DEF Released
  <2>. QED
    BY <2>1, <2>2, <2>3, <2>4 DEF Update
<1>2. Typed /\ [Next]_vars =>
          [\A r \in Runs : ActivelyLeased(rows[r]) /\ rows[r].owner # me
              => rows'[r] \in {rows[r], Lapsed(rows[r]), NoRow}]_vars
  BY <1>1
<1>3. Typed /\ [Next]_vars => Typed'
  BY TypedStep
<1>. QED
  BY InitTyped, <1>2, <1>3, PTL DEF Spec, OthersLeaseRespected

-----------------------------------------------------------------------------
(* A result stands.                                                         *)
(*                                                                          *)
(* While nobody kills a job or stops the process and the store answers, only *)
(* the worker writes a terminal state, as its last save of a job, and a row   *)
(* that is terminal and still this process's own is the one it is about to    *)
(* release: whatever is saved late finds another state or another owner.     *)

Quiet ==
    /\ stage = "up" /\ k.pc = "idle"
    /\ left["kill"] = 0 /\ left["stop"] = 0 /\ left["storeFail"] = 0

\* What the worker is about to save at each point of a job.
Says ==
    /\ Before \/ After => w.obj.state = "running"
    /\ Ending => w.obj.state \in {"complete", "failed"}
    /\ w.pc = "save" /\ w.next = "release" => w.obj.state = "failed"
    /\ w.pc = "embed" => w.next \in {"loop", "finish"}

\* The worker's job is over, but for the frame and the lease.
Over == w.pc = "release" \/ (w.pc = "notify" /\ w.next \in {"done", "release"})

EndsInHand ==
    \A r \in Runs : IsTerminal(rows[r]) /\ rows[r].owner = me => w.run = r /\ Over

ResultInv == Typed /\ OwnersKnown /\ OthersWrite /\ Quiet /\ Says /\ EndsInHand

\* The steps of every coroutine but the worker, its heartbeat and a kill.
Elsewhere ==
    \/ \E x \in Runs : \/ Lapse(x) \/ GetRead(x) \/ DeletePoints(x)
                       \/ \E force \in BOOLEAN : EnqueueStart(x, force)
    \/ EnqueueStep \/ GetAct \/ DeleteRow \/ UNCHANGED vars

\* Where nobody kills or stops and the store answers, that stays so.
LEMMA QuietStays ==
    ASSUME Typed, Quiet, [Next]_vars
    PROVE  Quiet' /\ (Elsewhere \/ WorkerStep \/ Heartbeat \/ Crash)
<1>1. left["kill"] = 0 /\ left["stop"] = 0 /\ left["storeFail"] = 0 /\ stage = "up" /\ k.pc = "idle"
  BY DEF Quiet
<1>2. /\ \A op \in {"kill", "stop", "storeFail"} : ~Spend(op)
      /\ ~(\E x \in Runs : KillRead(x) \/ StopSweep(x)) /\ ~KillStep /\ ~HeartbeatGivesUp
      /\ ~StopBegin /\ ~StopDone /\ ~Restart
  BY <1>1 DEF Spend, KillRead, StopSweep, KillStep, KillAct, KillSave, KillNotify,
     HeartbeatGivesUp, StopBegin, StopDone, Restart
<1>3. Elsewhere \/ WorkerStep \/ Heartbeat \/ Crash
  BY <1>2 DEF Next, Elsewhere
<1>4. left' = left \/ \E op \in Ops \ {"kill", "stop", "storeFail"} : Spend(op)
  <2>1. CASE Elsewhere
    BY <1>2, <2>1 DEF Elsewhere, vars, Lapse, GetRead, DeletePoints, EnqueueStart,
       EnqueueStep, EnqueueClaim, EnqueueClaimFails, EnqueueReread, EnqueueRefused,
       EnqueueAccept, EnqueueSave, EnqueueNotify, GetAct, DeleteRow, Ops
  <2>2. CASE WorkerStep \/ Heartbeat \/ Crash
    BY <1>2, <2>2 DEF WorkerStep, WorkerTake, WorkerOwn, WorkerReacquire, WorkerStart,
       WorkerSave, WorkerNotify, WorkerLoad, WorkerPlan, WorkerWipe, WorkerLoop,
       WorkerEmbed, WorkerFinish, WorkerRaises, WorkerRelease, Heartbeat, Crash, Ops
  <2>. QED
    BY <1>3, <2>1, <2>2
<1>5. left'["kill"] = 0 /\ left'["stop"] = 0 /\ left'["storeFail"] = 0
  BY <1>1, <1>4 DEF Spend, Typed, LeftOK, Ops
<1>6. stage' = "up" /\ k'.pc = "idle"
  <2>1. CASE Elsewhere
    BY <1>1, <2>1 DEF Elsewhere, vars, tasks, Lapse, GetRead, DeletePoints, EnqueueStart,
       EnqueueStep, EnqueueClaim, EnqueueClaimFails, EnqueueReread, EnqueueRefused,
       EnqueueAccept, EnqueueSave, EnqueueNotify, GetAct, DeleteRow
  <2>2. CASE WorkerStep \/ Heartbeat
    BY <1>1, <2>2 DEF WorkerStep, WorkerTake, WorkerOwn, WorkerReacquire, WorkerStart,
       WorkerSave, WorkerNotify, WorkerLoad, WorkerPlan, WorkerWipe, WorkerLoop,
       WorkerEmbed, WorkerFinish, WorkerRaises, WorkerRelease, Heartbeat
  <2>3. CASE Crash
    BY <2>3 DEF Crash, Boot, IdleTask
  <2>. QED
    BY <1>3, <2>1, <2>2, <2>3
<1>. QED
  BY <1>3, <1>5, <1>6 DEF Quiet

\* The other coroutines leave the worker where it is, and its process what it is.
LEMMA ElsewhereIsElsewhere ==
    ASSUME Typed, OthersWrite, Elsewhere
    PROVE  /\ w'.pc = w.pc /\ w'.run = w.run /\ w'.obj = w.obj /\ w'.next = w.next
           /\ me' = me
           /\ \A r \in Runs : IsTerminal(rows'[r]) =>
                 IsTerminal(rows[r]) /\ rows'[r].owner = rows[r].owner
<1>0. rows \in [Runs -> Row] /\ w \in WorkerType /\ me \in Nat /\ NoRow \in Row
  BY NullsTyped DEF Typed, RowsOK, WorkerOK, MeOK
<1>1. me' = me /\ (w' = w \/ \E b : w' = [w EXCEPT !.alias = b])
  BY DEF Elsewhere, vars, tasks, Lapse, GetRead, DeletePoints, EnqueueStart,
     EnqueueStep, EnqueueClaim, EnqueueClaimFails, EnqueueReread, EnqueueRefused,
     EnqueueAccept, EnqueueSave, EnqueueNotify, GetAct, DeleteRow, Replace
<1>2. w'.pc = w.pc /\ w'.run = w.run /\ w'.obj = w.obj /\ w'.next = w.next
  BY <1>0, <1>1 DEF WorkerType
<1>3. ASSUME NEW x \in Runs, NEW y, rows' = [rows EXCEPT ![x] = y], NEW r \in Runs,
             y.state = "pending" \/ y = NoRow \/ y = Lapsed(rows[x]), IsTerminal(rows'[r])
      PROVE  IsTerminal(rows[r]) /\ rows'[r].owner = rows[r].owner
  <2>1. ~IsTerminal(NoRow) /\ (y.state = "pending" => ~IsTerminal(y))
    BY DEF NoRow, IsTerminal, Terminal
  <2>2. Lapsed(rows[x]).state = rows[x].state /\ Lapsed(rows[x]).owner = rows[x].owner
    BY <1>0 DEF Lapsed, Row
  <2>. QED
    BY <1>0, <1>3, <2>1, <2>2 DEF IsTerminal
<1>4. \/ UNCHANGED rows
      \/ \E x \in Runs : rows' = [rows EXCEPT ![x] = Lapsed(@)]
      \/ d.pc = "act" /\ rows' = [rows EXCEPT ![d.run] = NoRow]
      \/ e.pc = "claim" /\ rows' = [rows EXCEPT ![e.run] = Claimed(@, me)]
      \/ e.pc = "save" /\ rows' = [rows EXCEPT ![e.run] = Saved(@, e.obj)]
  BY DEF Elsewhere, vars, durable, Lapse, GetRead, DeletePoints, EnqueueStart,
     EnqueueStep, EnqueueClaim, EnqueueClaimFails, EnqueueReread, EnqueueRefused,
     EnqueueAccept, EnqueueSave, EnqueueNotify, GetAct, DeleteRow
<1>5. ASSUME NEW r \in Runs, IsTerminal(rows'[r])
      PROVE  IsTerminal(rows[r]) /\ rows'[r].owner = rows[r].owner
  <2>1. CASE UNCHANGED rows
    BY <1>5, <2>1
  <2>2. CASE \E x \in Runs : rows' = [rows EXCEPT ![x] = Lapsed(@)]
    BY <1>3, <1>5, <2>2
  <2>3. CASE d.pc = "act" /\ rows' = [rows EXCEPT ![d.run] = NoRow]
    BY <1>3, <1>5, <2>3 DEF Typed, PurgeOK
  <2>4. CASE e.pc = "claim" /\ rows' = [rows EXCEPT ![e.run] = Claimed(@, me)]
    <3>1. e.run \in Runs /\ Claimed(rows[e.run], me).state = "pending"
      BY <1>0, <2>4 DEF Typed, EnqueueOK, Claimed, Row
    <3>. QED
      BY <1>3, <1>5, <2>4, <3>1, ZenonT(40)
  <2>5. CASE e.pc = "save" /\ rows' = [rows EXCEPT ![e.run] = Saved(@, e.obj)]
    <3>1. e.run \in Runs /\ e.obj \in Status /\ e.obj.state = "pending"
      BY <2>5 DEF Typed, EnqueueOK, EnqueueType, OthersWrite
    <3>2. Saved(rows[e.run], e.obj).state = "pending"
      BY <1>0, <3>1 DEF Saved, Row
    <3>. DEFINE y == Saved(rows[e.run], e.obj)
    <3>3. rows' = [rows EXCEPT ![e.run] = y] /\ y.state = "pending" /\ e.run \in Runs
      BY <2>5, <3>1, <3>2
    <3>. HIDE DEF y
    <3>. QED
      BY <1>3, <1>5, <3>3, ZenonT(40)
  <2>. QED
    BY <1>4, <2>1, <2>2, <2>3, <2>4, <2>5
<1>. QED
  BY <1>1, <1>2, <1>5

\* What the worker writes at each point of a job.
LEMMA SaysAsItWrites ==
    ASSUME Typed, NEW s \in Status, NEW next \in Nexts \ {"release"}, WriteStatus(s, next),
           next = "done" => s.state \in {"complete", "failed"},
           next # "done" => s.state = "running"
    PROVE  Says'
<1>1. w'.pc = "save" /\ w'.next = next /\ w'.obj = s
  BY DEF WriteStatus, Typed, WorkerOK, WorkerType
<1>2. CASE next = "done"
  BY <1>1, <1>2 DEF Says, Before, After, Ending, Point
<1>3. CASE next # "done"
  BY <1>1, <1>3 DEF Says, Before, After, Ending, Point
<1>. QED
  BY <1>2, <1>3

\* The worker out of its job has nothing to say, and its handler a failure.
LEMMA SaysAtTheEnd ==
    ASSUME Typed, Finally \/ (Handler /\ w.run \in Runs)
                  \/ w'.pc \in {"idle", "dead", "own", "reacquire", "start", "release"}
    PROVE  Says'
<1>1. CASE w'.pc \in {"idle", "dead", "own", "reacquire", "start", "release"}
  BY <1>1 DEF Says, Before, After, Ending, Point
<1>2. CASE Finally
  BY <1>1, <1>2 DEF Finally, Typed, WorkerOK, WorkerType
<1>3. CASE Handler /\ w.run \in Runs /\ IsActive(mem[w.run])
  <2>1. w'.pc = "save" /\ w'.next = "release" /\ w'.obj = Fail(mem[w.run])
    BY <1>3 DEF Handler, Typed, WorkerOK, WorkerType
  <2>2. w'.obj.state = "failed"
    BY <1>3, <2>1 DEF Fail, Typed, MemOK, Status
  <2>. QED
    BY <2>1, <2>2 DEF Says, Before, After, Ending, Point
<1>. QED
  BY <1>1, <1>2, <1>3 DEF Handler

\* The worker keeps to what it may say.
LEMMA SaysKept ==
    ASSUME Typed, Says, WorkerStep
    PROVE  Says'
<1>0. /\ w \in WorkerType /\ w.obj \in Status
      /\ w.pc \notin {"idle", "dead"} => w.run \in Runs
  BY DEF Typed, WorkerOK, WorkerType
<1>1. /\ Fail(w.obj) \in Status /\ Fail(w.obj).state = "failed"
      /\ Complete(w.obj) \in Status /\ Complete(w.obj).state = "complete"
  BY <1>0, StatusUpdatesTyped DEF Fail, Complete, Status
<1>2. CASE WorkerTake \/ WorkerOwn \/ WorkerReacquire \/ WorkerRelease
  <2>1. CASE WorkerTake
    BY <2>1, SaysAtTheEnd DEF WorkerTake, IdleWorker
  <2>2. CASE WorkerRelease
    BY <2>2, SaysAtTheEnd DEF WorkerRelease, IdleWorker
  <2>3. CASE WorkerOwn \/ WorkerReacquire
    <3>1. w'.pc \in {"start", "reacquire"} \/ Finally
      BY <1>0, <2>3 DEF WorkerOwn, WorkerReacquire, WorkerType
    <3>. QED
      BY <3>1, SaysAtTheEnd
  <2>. QED
    BY <1>2, <2>1, <2>2, <2>3
<1>3. CASE WorkerStart
  <2>1. CASE w.run \in killed
    BY <1>0, <1>3, <2>1, SaysAtTheEnd DEF WorkerStart
  <2>2. CASE w.run \notin killed
    <3>1. /\ w'.pc = "save" /\ w'.next = "load"
          /\ w'.obj = [mem[w.run] EXCEPT !.state = "running", !.chunks = 0]
      BY <1>0, <1>3, <2>2 DEF WorkerStart, WorkerType
    <3>2. w'.obj.state = "running"
      BY <1>0, <1>3, <3>1 DEF WorkerStart, Typed, MemOK, Status
    <3>. QED
      BY <3>1, <3>2 DEF Says, Before, After, Ending, Point
  <2>. QED
    BY <2>1, <2>2
<1>4. CASE WorkerSave \/ WorkerNotify
  <2>1. Finally \/ /\ w'.obj = w.obj /\ w'.next = w.next
                   /\ w'.pc = "notify" \/ (w'.pc = w.next /\ w.next \notin {"done", "release"})
    BY <1>0, <1>4 DEF WorkerSave, WorkerNotify, Continue, WorkerType
  <2>2. CASE Finally
    BY <2>2, SaysAtTheEnd
  <2>3. CASE w'.obj = w.obj /\ w'.next = w.next /\ w'.pc = "notify"
    BY <1>4, <2>3 DEF WorkerSave, WorkerNotify, Says, Before, After, Ending, Point
  <2>4. CASE /\ w'.obj = w.obj /\ w'.next = w.next
             /\ w'.pc = w.next /\ w.next \notin {"done", "release"}
    <3>1. w.next \in {"load", "plan", "loop", "finish"}
      BY <1>0, <2>4 DEF WorkerType, Nexts
    <3>. QED
      BY <1>4, <2>4, <3>1 DEF WorkerSave, WorkerNotify, Says, Before, After, Ending, Point
  <2>. QED
    BY <2>1, <2>2, <2>3, <2>4
<1>5. CASE WorkerLoad
  <2>1. w.obj.state = "running"
    BY <1>5 DEF WorkerLoad, Says, Before, Point
  <2>. QED
    BY <1>0, <1>1, <1>5, <2>1, SaysAsItWrites DEF WorkerLoad, Nexts
<1>6. CASE WorkerPlan
  <2>1. w.obj.state = "running"
    BY <1>6 DEF WorkerPlan, Says, Before, Point
  <2>2. CASE \E next \in {"loop", "done"} : w' = [w EXCEPT !.pc = "wipe", !.next = next]
    <3>1. w'.pc = "wipe" /\ w'.obj = w.obj
      BY <1>0, <2>2 DEF WorkerType
    <3>. QED
      BY <2>1, <3>1 DEF Says, Before, After, Ending, Point
  <2>. QED
    BY <1>0, <1>1, <1>6, <2>1, <2>2, SaysAsItWrites DEF WorkerPlan, Nexts
<1>7. CASE WorkerWipe
  <2>1. w.obj.state = "running"
    BY <1>7 DEF WorkerWipe, Says, Before
  <2>2. CASE w' = [w EXCEPT !.pc = "loop"]
    <3>1. w'.pc = "loop" /\ w'.obj = w.obj
      BY <1>0, <2>2 DEF WorkerType
    <3>. QED
      BY <2>1, <3>1 DEF Says, Before, After, Ending, Point
  <2>. QED
    BY <1>0, <1>1, <1>7, <2>1, <2>2, SaysAsItWrites DEF WorkerWipe, Nexts
<1>8. CASE WorkerLoop
  <2>1. w.obj.state = "running" /\ w.run \in Runs
    BY <1>0, <1>8 DEF WorkerLoop, Says, After, Point
  <2>2. CASE \E next \in {"loop", "finish"} : w' = [w EXCEPT !.pc = "embed", !.next = next]
    <3>1. w'.pc = "embed" /\ w'.obj = w.obj /\ w'.next \in {"loop", "finish"}
      BY <1>0, <2>2 DEF WorkerType
    <3>. QED
      BY <2>1, <3>1 DEF Says, Before, After, Ending, Point
  <2>3. CASE Handler
    BY <2>1, <2>3, SaysAtTheEnd
  <2>4. CASE WriteStatus(Complete(w.obj), "done")
    BY <1>1, <2>4, SaysAsItWrites DEF Nexts
  <2>. QED
    BY <1>8, <2>2, <2>3, <2>4 DEF WorkerLoop
<1>9. CASE WorkerEmbed
  <2>1. w.obj.state = "running" /\ [w.obj EXCEPT !.chunks = @ + 1] \in Status
    BY <1>0, <1>9, StatusUpdatesTyped DEF WorkerEmbed, Says, After
  <2>2. CASE WriteStatus(Fail(w.obj), "done")
    BY <1>1, <2>2, SaysAsItWrites DEF Nexts
  <2>3. CASE WriteStatus([w.obj EXCEPT !.chunks = @ + 1], w.next)
    <3>. DEFINE s == [w.obj EXCEPT !.chunks = @ + 1]
    <3>1. s \in Status /\ s.state = "running"
      BY <1>0, <2>1 DEF Status
    <3>. HIDE DEF s
    <3>2. WriteStatus(s, w.next)
      BY <2>3 DEF s
    <3>3. w'.pc = "save" /\ w'.obj = s /\ w'.next \in {"loop", "finish"}
      BY <1>0, <1>9, <3>2 DEF WorkerEmbed, WriteStatus, WorkerType, Says
    <3>. QED
      BY <3>1, <3>3 DEF Says, Before, After, Ending, Point
  <2>. QED
    BY <1>9, <2>2, <2>3 DEF WorkerEmbed
<1>10. CASE WorkerFinish
  BY <1>1, <1>10, SaysAsItWrites DEF WorkerFinish, Nexts
<1>11. CASE WorkerRaises
  <2>1. CASE Handler
    BY <1>0, <1>11, <2>1, SaysAtTheEnd DEF WorkerRaises
  <2>2. CASE WriteStatus(Fail(w.obj), "done")
    BY <1>1, <2>2, SaysAsItWrites DEF Nexts
  <2>. QED
    BY <1>11, <2>1, <2>2 DEF WorkerRaises
<1>. QED
  BY <1>2, <1>3, <1>4, <1>5, <1>6, <1>7, <1>8, <1>9, <1>10, <1>11 DEF WorkerStep

\* A row that is terminal and this process's own is in the worker's hands until
\* its lease is released.
LEMMA EndsKept ==
    ASSUME ResultInv, [Next]_vars, Typed'
    PROVE  EndsInHand'
<1>0. /\ rows \in [Runs -> Row] /\ w \in WorkerType /\ me \in Nat \ {0}
      /\ w.pc \notin {"idle", "dead"} => w.run \in Runs
      /\ Typed /\ Quiet /\ Says /\ EndsInHand /\ OthersWrite /\ OwnersKnown
  BY DEF ResultInv, Typed, RowsOK, WorkerOK, MeOK
<1>. SUFFICES ASSUME NEW r \in Runs, IsTerminal(rows'[r]), rows'[r].owner = me'
              PROVE  w'.run = r /\ Over'
  BY DEF EndsInHand
<1>1. CASE Elsewhere
  <2>1. /\ w'.pc = w.pc /\ w'.run = w.run /\ w'.next = w.next
        /\ IsTerminal(rows[r]) /\ rows[r].owner = me
    BY <1>0, <1>1, ElsewhereIsElsewhere
  <2>. QED
    BY <1>0, <2>1 DEF EndsInHand, Over
<1>2. CASE Crash
  <2>1. rows' = rows /\ me' = me + 1
    BY <1>2 DEF Crash, Boot, durable
  <2>2. rows[r].owner \in Nat /\ rows[r].owner <= me
    BY <1>0 DEF Row, OwnersKnown
  <2>. QED
    BY <1>0, <2>1, <2>2
<1>3. CASE WorkerStep \/ Heartbeat
  <2>1. me' = me
    BY <1>3 DEF WorkerStep, WorkerTake, WorkerOwn, WorkerReacquire, WorkerStart,
       WorkerSave, WorkerNotify, WorkerLoad, WorkerPlan, WorkerWipe, WorkerLoop,
       WorkerEmbed, WorkerFinish, WorkerRaises, WorkerRelease, Heartbeat
  <2>2. CASE WorkerSave /\ rows' # rows
    <3>1. /\ w.pc = "save" /\ Writable(rows[w.run], me)
          /\ rows' = [rows EXCEPT ![w.run] = Saved(@, w.obj)]
          /\ IF w.next = "loop" THEN Continue ELSE w' = [w EXCEPT !.pc = "notify"]
      BY <1>0, <2>2 DEF WorkerSave, Quiet, Spend
    <3>2. ~IsTerminal(rows[r]) \/ rows[r].owner # me
      BY <1>0, <3>1 DEF EndsInHand, Over
    <3>3. r = w.run /\ rows'[r] = Saved(rows[r], w.obj) /\ rows'[r].state = w.obj.state
      BY <1>0, <2>1, <3>1, <3>2 DEF Saved, Row
    <3>4. w.next \in {"done", "release"}
      BY <1>0, <3>1, <3>3 DEF Says, Before, After, Point, IsTerminal, Terminal, WorkerType, Nexts
    <3>5. w'.pc = "notify" /\ w'.next = w.next /\ w'.run = w.run
      BY <1>0, <3>1, <3>4 DEF WorkerType
    <3>. QED
      BY <3>3, <3>4, <3>5 DEF Over
  <2>3. CASE ~WorkerSave \/ rows' = rows
    <3>1. IsTerminal(rows[r]) /\ rows[r].owner = me /\ (WorkerRelease => r # w.run)
      <4>1. CASE rows' = rows
        <5>1. WorkerRelease /\ r = w.run => rows'[r].owner # me \/ ~IsTerminal(rows[r])
          <6>1. ASSUME WorkerRelease, r = w.run, rows[r].owner = me, IsTerminal(rows[r])
                PROVE  FALSE
            <7>1. Released(rows[r], me).owner = NoOwner
              BY <6>1 DEF Released, IsTerminal, Terminal
            <7>. QED
              BY <6>1, <7>1, <1>0, <4>1 DEF WorkerRelease, NoOwner, Quiet, Spend
          <6>. QED
            BY <4>1, <6>1
        <5>. QED
          BY <2>1, <4>1, <5>1
      <4>2. CASE /\ WorkerReacquire \/ Heartbeat
                 /\ IsActive(rows[w.run]) /\ w.run \in Runs
                 /\ rows' = [rows EXCEPT ![w.run] = Reacquired(@, me)]
                    \/ rows' = [rows EXCEPT ![w.run] = Renewed(@)]
        <5>1. Reacquired(rows[w.run], me).state = rows[w.run].state
              /\ Renewed(rows[w.run]).state = rows[w.run].state
          BY <1>0, <4>2 DEF Reacquired, Renewed, Row
        <5>2. r # w.run
          BY <1>0, <4>2, <5>1 DEF IsActive, IsTerminal, Active, Terminal
        <5>. QED
          BY <1>0, <2>1, <4>2, <5>2
      <4>3. CASE /\ w.pc = "release" /\ w.run \in Runs
                 /\ rows' = [rows EXCEPT ![w.run] = Released(@, me)]
        <5>1. r # w.run
          <6>1. SUFFICES ASSUME r = w.run PROVE FALSE
            OBVIOUS
          <6>2. rows'[r] = Released(rows[r], me)
            BY <1>0, <4>3, <6>1
          <6>3. Released(rows[r], me).owner # me \/ rows[r].state = "absent"
            <7>1. rows[r] \in Row /\ me \in Nat /\ me # 0
              BY <1>0
            <7>. QED
              BY <7>1 DEF Released, NoOwner, Row
          <6>4. Released(rows[r], me).state = rows[r].state
            BY <1>0 DEF Released, Row
          <6>. QED
            BY <2>1, <6>2, <6>3, <6>4 DEF IsTerminal, Terminal
        <5>. QED
          BY <1>0, <2>1, <4>3, <5>1
      <4>4. \/ rows' = rows
            \/ /\ w.pc \notin {"idle", "dead"}
               /\ \/ /\ WorkerReacquire \/ Heartbeat
                     /\ IsActive(rows[w.run])
                     /\ rows' = [rows EXCEPT ![w.run] = Reacquired(@, me)]
                        \/ rows' = [rows EXCEPT ![w.run] = Renewed(@)]
                  \/ /\ w.pc = "release"
                     /\ rows' = [rows EXCEPT ![w.run] = Released(@, me)]
        <5>1. CASE Heartbeat
          BY <5>1 DEF Heartbeat, Heartbeating, Indexing, Renewable
        <5>2. CASE WorkerStep
          BY <2>3, <5>2 DEF WorkerStep, durable, WorkerTake, WorkerOwn, WorkerReacquire,
             WorkerStart, WorkerNotify, WorkerLoad, WorkerPlan, WorkerWipe, WorkerLoop,
             WorkerEmbed, WorkerFinish, WorkerRaises, WorkerRelease, Reacquirable
        <5>. QED
          BY <1>3, <5>1, <5>2
      <4>. QED
        BY <1>0, <4>1, <4>2, <4>3, <4>4
    <3>2. w.run = r /\ Over
      BY <1>0, <3>1 DEF EndsInHand
    <3>3. Finally => w'.run = r /\ Over'
      BY <1>0, <3>2 DEF Finally, Over, WorkerType
    <3>4. Heartbeat => Finally
      BY <3>1, <3>2 DEF Heartbeat, Renewable, IsActive, IsTerminal, Active, Terminal
    <3>5. WorkerStep => Finally
      BY <3>1, <3>2 DEF WorkerStep, WorkerTake, WorkerOwn, WorkerReacquire, WorkerStart,
         WorkerSave, WorkerNotify, WorkerLoad, WorkerPlan, WorkerWipe, WorkerLoop,
         WorkerEmbed, WorkerFinish, WorkerRaises, Over, Continue
    <3>. QED
      BY <1>3, <3>3, <3>4, <3>5
  <2>. QED
    BY <2>2, <2>3
<1>. QED
  BY <1>0, <1>1, <1>2, <1>3, QuietStays

\* Every step keeps what the results rest on.
LEMMA ResultStep == ResultInv /\ [Next]_vars => ResultInv'
<1>. SUFFICES ASSUME ResultInv, [Next]_vars PROVE ResultInv'
  OBVIOUS
<1>1. Typed' /\ OwnersKnown' /\ OthersWrite' /\ Quiet'
  BY TypedStep, OwnersStayKnown, OthersWriteKept, QuietStays DEF ResultInv
<1>2. EndsInHand'
  BY <1>1, EndsKept
<1>3. Says'
  <2>1. CASE WorkerStep
    BY <2>1, SaysKept DEF ResultInv
  <2>2. CASE Elsewhere
    <3>1. w'.pc = w.pc /\ w'.obj = w.obj /\ w'.next = w.next
      BY <2>2, ElsewhereIsElsewhere DEF ResultInv
    <3>. QED
      BY <3>1 DEF ResultInv, Says, Before, After, Ending, Point
  <2>3. CASE Crash
    BY <2>3, SaysAtTheEnd DEF Crash, Boot, IdleWorker, ResultInv
  <2>4. CASE Heartbeat
    <3>1. w' = w \/ Finally
      BY <2>4 DEF Heartbeat
    <3>2. CASE w' = w
      BY <3>2 DEF ResultInv, Says, Before, After, Ending, Point
    <3>. QED
      BY <3>1, <3>2, SaysAtTheEnd DEF ResultInv
  <2>. QED
    BY <2>1, <2>2, <2>3, <2>4, QuietStays DEF ResultInv
<1>. QED
  BY <1>1, <1>2, <1>3 DEF ResultInv

\* What the results rest on holds at the start.
LEMMA ResultInit ==
    ASSUME \A b \in Budgets : b["kill"] = 0 /\ b["stop"] = 0 /\ b["storeFail"] = 0
    PROVE  Init => ResultInv
<1>. SUFFICES ASSUME Init PROVE ResultInv
  OBVIOUS
<1>1. \A r \in Runs : rows[r].state = "absent" /\ rows[r].owner = 0
  BY DEF Init, NoRow, NoOwner
<1>2. OwnersKnown /\ EndsInHand
  BY <1>1 DEF Init, OwnersKnown, EndsInHand, IsTerminal, Terminal
<1>3. OthersWrite /\ Quiet
  BY DEF Init, OthersWrite, KillWritesFailed, Quiet, IdleTask, IdleEnqueue
<1>4. Says
  BY DEF Init, IdleWorker, Says, Before, After, Ending, Point
<1>. QED
  BY <1>2, <1>3, <1>4, InitTyped DEF ResultInv

\* While nobody kills a job or stops the process and the store answers, a result
\* stands until the run is queued again or purged, whatever is posted again,
\* lapses, crashes, fails to index or loses a frame meanwhile (claim, _persist,
\* the handlers of _worker_loop).
THEOREM ResultsStand ==
    ASSUME \A b \in Budgets : b["kill"] = 0 /\ b["stop"] = 0 /\ b["storeFail"] = 0
    PROVE  Spec => ResultStands
<1>1. Init => ResultInv
  BY ResultInit
<1>2. ASSUME ResultInv, [Next]_vars, NEW r \in Runs,
             IsTerminal(rows[r]), rows'[r].state # rows[r].state
      PROVE  rows'[r].state \in {"pending", "absent"}
  <2>0. /\ rows \in [Runs -> Row] /\ rows[r] \in Row /\ me \in Nat
        /\ Typed /\ Says /\ EndsInHand /\ OthersWrite /\ Quiet
    BY <1>2 DEF ResultInv, Typed, RowsOK, MeOK
  <2>4. /\ NoRow.state = "absent" /\ Claimed(rows[r], me).state = "pending"
        /\ Lapsed(rows[r]).state = rows[r].state /\ Renewed(rows[r]).state = rows[r].state
        /\ Reacquired(rows[r], me).state = rows[r].state
        /\ Released(rows[r], me).state = rows[r].state
    BY <2>0 DEF Lapsed, Released, Reacquired, Renewed, Claimed, NoRow, Row
  <2>1. CASE rows'[r] \in {NoRow, Claimed(rows[r], me)}
    BY <2>1, <2>4
  <2>2. CASE Writable(rows[r], me) /\ \E s \in Status : rows'[r] = Saved(rows[r], s)
    <3>1. w.run = r /\ Over
      BY <1>2, <2>0, <2>2 DEF EndsInHand, Writable
    <3>2. ~WorkerSave
      BY <3>1 DEF WorkerSave, Over
    <3>3. CASE Elsewhere
      <4>1. ~IsTerminal(rows'[r]) \/ rows'[r].owner = rows[r].owner
        BY <2>0, <3>3, ElsewhereIsElsewhere
      <4>2. \/ UNCHANGED rows
            \/ \E x \in Runs : rows' = [rows EXCEPT ![x] = Lapsed(@)]
            \/ d.pc = "act" /\ rows' = [rows EXCEPT ![d.run] = NoRow]
            \/ e.pc = "claim" /\ rows' = [rows EXCEPT ![e.run] = Claimed(@, me)]
            \/ e.pc = "save" /\ rows' = [rows EXCEPT ![e.run] = Saved(@, e.obj)]
        BY <3>3 DEF Elsewhere, vars, durable, Lapse, GetRead, DeletePoints, EnqueueStart,
           EnqueueStep, EnqueueClaim, EnqueueClaimFails, EnqueueReread, EnqueueRefused,
           EnqueueAccept, EnqueueSave, EnqueueNotify, GetAct, DeleteRow
      <4>3. rows'[r] \in {rows[r], Lapsed(rows[r]), NoRow, Claimed(rows[r], me)}
            \/ (e.pc = "save" /\ rows'[r] = Saved(rows[r], e.obj))
        BY <2>0, <4>2
      <4>4. e.pc = "save" => Saved(rows[r], e.obj).state = "pending"
        BY <2>0 DEF OthersWrite, Saved, Row, Typed, EnqueueOK, EnqueueType
      <4>. QED
        BY <1>2, <2>4, <4>3, <4>4
    <3>4. CASE WorkerStep \/ Heartbeat \/ Crash
      <4>1. \/ rows' = rows
            \/ rows' = [rows EXCEPT ![w.run] = Reacquired(@, me)]
            \/ rows' = [rows EXCEPT ![w.run] = Renewed(@)]
            \/ rows' = [rows EXCEPT ![w.run] = Released(@, me)]
        BY <3>2, <3>4 DEF WorkerStep, durable, WorkerTake, WorkerOwn, WorkerReacquire,
           WorkerStart, WorkerNotify, WorkerLoad, WorkerPlan, WorkerWipe, WorkerLoop,
           WorkerEmbed, WorkerFinish, WorkerRaises, WorkerRelease, Heartbeat, Crash
      <4>2. rows'[r] \in {rows[r], Reacquired(rows[r], me), Renewed(rows[r]), Released(rows[r], me)}
        BY <2>0, <4>1
      <4>. QED
        BY <1>2, <2>4, <4>2
    <3>. QED
      BY <1>2, <2>0, <3>3, <3>4, QuietStays
  <2>3. CASE rows'[r] \in {rows[r], Lapsed(rows[r]), Released(rows[r], me),
                           Reacquired(rows[r], me), Renewed(rows[r])}
    BY <1>2, <2>3, <2>4
  <2>. QED
    BY <1>2, <2>0, <2>1, <2>2, <2>3, RowSteps DEF Update
<1>3. ResultInv /\ [Next]_vars =>
          [\A r \in Runs : IsTerminal(rows[r]) /\ rows'[r].state # rows[r].state
              => rows'[r].state \in {"pending", "absent"}]_vars
  BY <1>2
<1>. QED
  BY <1>1, <1>3, ResultStep, PTL DEF Spec, ResultStands

-----------------------------------------------------------------------------
(* Rows and points implement JobLifecycle.                                  *)
(*                                                                          *)
(* The view is the state of each row and whether the index holds what the    *)
(* row counts.  A step of the worker changes it only for a run whose row is   *)
(* pending or running, which is what has to be invariant; a save makes it     *)
(* complete only with the points whole, which is CompleteMeansWhole's         *)
(* invariant; every other change queues the run.                            *)

ActiveWorker ==
    w.pc = "start" \/ Before \/ After \/ Ending => IsActive(rows[w.run])

LifecycleInv == ResultInv /\ WholeInv /\ ActiveWorker

\* Without purges, what the others do to a row leaves its state and count or
\* makes it pending.
LEMMA ElsewhereQueues ==
    ASSUME ResultInv, NoPurge, Elsewhere
    PROVE  /\ UNCHANGED pts
           /\ \/ \A r \in Runs : /\ rows'[r].state = rows[r].state
                                 /\ rows'[r].chunks = rows[r].chunks
              \/ \E x \in Runs : /\ rows'[x].state = "pending"
                                 /\ \A r \in Runs \ {x} : rows'[r] = rows[r]
<1>0. /\ rows \in [Runs -> Row] /\ me \in Nat /\ Typed /\ OthersWrite
  BY DEF ResultInv, Typed, RowsOK, MeOK
<1>1. ~DeleteRow /\ ~(\E x \in Runs : DeletePoints(x))
  BY DEF NoPurge, DeleteRow, DeletePoints, Spend
<1>2. UNCHANGED pts
  BY <1>1 DEF Elsewhere, vars, durable, Lapse, GetRead, EnqueueStart,
     EnqueueStep, EnqueueClaim, EnqueueClaimFails, EnqueueReread, EnqueueRefused,
     EnqueueAccept, EnqueueSave, EnqueueNotify, GetAct
<1>3. \/ UNCHANGED rows
      \/ \E x \in Runs : rows' = [rows EXCEPT ![x] = Lapsed(@)]
      \/ e.pc = "claim" /\ rows' = [rows EXCEPT ![e.run] = Claimed(@, me)]
      \/ e.pc = "save" /\ rows' = [rows EXCEPT ![e.run] = Saved(@, e.obj)]
  BY <1>1 DEF Elsewhere, vars, durable, Lapse, GetRead, EnqueueStart,
     EnqueueStep, EnqueueClaim, EnqueueClaimFails, EnqueueReread, EnqueueRefused,
     EnqueueAccept, EnqueueSave, EnqueueNotify, GetAct
<1>4. CASE UNCHANGED rows
  BY <1>2, <1>4
<1>5. CASE \E x \in Runs : rows' = [rows EXCEPT ![x] = Lapsed(@)]
  <2>1. PICK x \in Runs : rows' = [rows EXCEPT ![x] = Lapsed(@)]
    BY <1>5
  <2>2. Lapsed(rows[x]).state = rows[x].state /\ Lapsed(rows[x]).chunks = rows[x].chunks
    BY <1>0 DEF Lapsed, Row
  <2>3. rows'[x] = Lapsed(rows[x]) /\ \A r \in Runs \ {x} : rows'[r] = rows[r]
    BY <1>0, <2>1
  <2>. QED
    BY <1>2, <2>2, <2>3
<1>6. CASE e.pc = "claim" /\ rows' = [rows EXCEPT ![e.run] = Claimed(@, me)]
  <2>1. e.run \in Runs
    BY <1>0, <1>6 DEF Typed, EnqueueOK
  <2>2. Claimed(rows[e.run], me).state = "pending"
    BY <1>0, <2>1 DEF Claimed, Row
  <2>3. rows'[e.run] = Claimed(rows[e.run], me) /\ \A r \in Runs \ {e.run} : rows'[r] = rows[r]
    BY <1>0, <1>6, <2>1
  <2>. QED
    BY <1>2, <2>1, <2>2, <2>3
<1>7. CASE e.pc = "save" /\ rows' = [rows EXCEPT ![e.run] = Saved(@, e.obj)]
  <2>1. e.run \in Runs /\ e.obj.state = "pending"
    BY <1>0, <1>7 DEF Typed, EnqueueOK, OthersWrite
  <2>2. Saved(rows[e.run], e.obj).state = "pending"
    BY <1>0, <2>1 DEF Saved, Row
  <2>3. rows'[e.run] = Saved(rows[e.run], e.obj) /\ \A r \in Runs \ {e.run} : rows'[r] = rows[r]
    BY <1>0, <1>7, <2>1
  <2>. QED
    BY <1>2, <2>1, <2>2, <2>3
<1>. QED
  BY <1>3, <1>4, <1>5, <1>6, <1>7

\* What a worker's save can do to its row.
LEMMA WorkerSaves ==
    ASSUME LifecycleInv, WorkerSave
    PROVE  /\ w.pc = "save" /\ w.run \in Runs /\ UNCHANGED pts
           /\ \/ UNCHANGED rows
              \/ /\ IsActive(rows[w.run])
                 /\ rows'[w.run].state = w.obj.state /\ rows'[w.run].chunks = w.obj.chunks
                 /\ \A r \in Runs \ {w.run} : rows'[r] = rows[r]
                 /\ \/ w.obj.state \in {"running", "failed"}
                    \/ w.obj.state = "complete" /\ Counted
                 /\ w.next \in {"load", "plan", "loop", "finish"} => w.obj.state = "running"
<1>0. /\ rows \in [Runs -> Row] /\ me \in Nat /\ w \in WorkerType /\ w.obj \in Status
      /\ Typed /\ Says /\ EndsInHand /\ Quiet /\ Carried /\ ActiveWorker
  BY DEF LifecycleInv, ResultInv, WholeInv, Typed, RowsOK, MeOK, WorkerOK, WorkerType
<1>1. /\ w.pc = "save" /\ w.run \in Runs /\ UNCHANGED pts
      /\ \/ UNCHANGED rows
         \/ Writable(rows[w.run], me) /\ rows' = [rows EXCEPT ![w.run] = Saved(@, w.obj)]
  BY <1>0 DEF WorkerSave, Typed, WorkerOK
<1>2. w.next \in {"load", "plan", "loop", "finish", "done", "release"}
  BY <1>0 DEF WorkerType, Nexts
<1>3. Writable(rows[w.run], me) => IsActive(rows[w.run])
  <2>1. CASE w.next = "release"
    <3>1. IsTerminal(rows[w.run]) /\ rows[w.run].owner = me => FALSE
      BY <1>0, <1>1 DEF EndsInHand, Over
    <3>2. rows[w.run].state \in States \cup {"absent"}
      BY <1>0, <1>1 DEF Row
    <3>. QED
      BY <3>1, <3>2 DEF Writable, IsActive, IsTerminal, States
  <2>2. CASE w.next # "release"
    BY <1>0, <1>1, <1>2, <2>2 DEF ActiveWorker, Before, After, Ending, Point
  <2>. QED
    BY <2>1, <2>2
<1>4. /\ Saved(rows[w.run], w.obj).state = w.obj.state
      /\ Saved(rows[w.run], w.obj).chunks = w.obj.chunks
  BY <1>0, <1>1 DEF Saved, Row
<1>5. /\ w.obj.state \in {"running", "failed"} \/ (w.obj.state = "complete" /\ Counted)
      /\ w.next \in {"load", "plan", "loop", "finish"} => w.obj.state = "running"
  BY <1>0, <1>1, <1>2 DEF Says, Carried, Before, After, Ending, Point
<1>6. CASE Writable(rows[w.run], me) /\ rows' = [rows EXCEPT ![w.run] = Saved(@, w.obj)]
  <2>1. rows'[w.run] = Saved(rows[w.run], w.obj) /\ \A r \in Runs \ {w.run} : rows'[r] = rows[r]
    BY <1>0, <1>1, <1>6
  <2>. QED
    BY <1>1, <1>3, <1>4, <1>5, <1>6, <2>1
<1>. QED
  BY <1>1, <1>6

\* What the worker and its heartbeat do to a row besides: lease fields only.
LEMMA WorkerLeases ==
    ASSUME Typed, (WorkerStep /\ ~WorkerSave) \/ Heartbeat
    PROVE  \A r \in Runs : rows'[r].state = rows[r].state /\ rows'[r].chunks = rows[r].chunks
<1>0. rows \in [Runs -> Row] /\ me \in Nat /\ (w.pc \notin {"idle", "dead"} => w.run \in Runs)
  BY DEF Typed, RowsOK, MeOK, WorkerOK
<1>1. \/ UNCHANGED rows
      \/ /\ w.pc \notin {"idle", "dead"}
         /\ \/ rows' = [rows EXCEPT ![w.run] = Reacquired(@, me)]
            \/ rows' = [rows EXCEPT ![w.run] = Released(@, me)]
            \/ rows' = [rows EXCEPT ![w.run] = Renewed(@)]
  <2>1. CASE WorkerStep /\ ~WorkerSave
    BY <2>1 DEF WorkerStep, durable, WorkerTake, WorkerOwn, WorkerReacquire,
       WorkerStart, WorkerNotify, WorkerLoad, WorkerPlan, WorkerWipe, WorkerLoop,
       WorkerEmbed, WorkerFinish, WorkerRaises, WorkerRelease
  <2>2. CASE Heartbeat
    BY <2>2 DEF Heartbeat, Heartbeating, Indexing
  <2>. QED
    BY <2>1, <2>2
<1>2. CASE UNCHANGED rows
  BY <1>2
<1>3. CASE ~UNCHANGED rows
  <2>1. w.run \in Runs /\ rows'[w.run] \in {Reacquired(rows[w.run], me), Released(rows[w.run], me),
                                            Renewed(rows[w.run])}
        /\ \A r \in Runs \ {w.run} : rows'[r] = rows[r]
    BY <1>0, <1>1, <1>3
  <2>2. \A row \in {Reacquired(rows[w.run], me), Released(rows[w.run], me), Renewed(rows[w.run])} :
            row.state = rows[w.run].state /\ row.chunks = rows[w.run].chunks
    <3>1. rows[w.run] \in Row /\ me \in Nat /\ NoStatus \in Status
      BY <1>0, <2>1, NullsTyped
    <3>. QED
      BY <3>1, CompleteFacts
  <2>. QED
    BY <2>1, <2>2
<1>. QED
  BY <1>2, <1>3

\* A row is pending or running while the worker indexes its run.
LEMMA ActiveKept ==
    ASSUME LifecycleInv, [Next]_vars, Typed'
    PROVE  ActiveWorker'
<1>0. /\ rows \in [Runs -> Row] /\ me \in Nat /\ w \in WorkerType
      /\ w.pc \notin {"idle", "dead"} => w.run \in Runs
      /\ Typed /\ ResultInv /\ NoPurge /\ Quiet /\ ActiveWorker
  BY DEF LifecycleInv, ResultInv, WholeInv, Typed, RowsOK, MeOK, WorkerOK
<1>. DEFINE Phase == w.pc = "start" \/ Before \/ After \/ Ending
<1>1. Phase => w.run \in Runs /\ IsActive(rows[w.run])
  BY <1>0 DEF ActiveWorker, Before, After, Ending, Point
<1>2. w'.pc \in {"idle", "dead", "own", "reacquire", "release"} => ~Phase'
  BY DEF Before, After, Ending, Point
<1>3. Finally => ~Phase'
  BY <1>0, <1>2 DEF Finally, WorkerType
<1>4. Handler => ~Phase'
  <2>1. CASE IsActive(mem[w.run])
    <3>1. Handler => w'.pc = "save" /\ w'.next = "release"
      BY <1>0, <2>1 DEF Handler, WorkerType
    <3>. QED
      BY <3>1 DEF Before, After, Ending, Point
  <2>2. CASE ~IsActive(mem[w.run])
    BY <1>3, <2>2 DEF Handler
  <2>. QED
    BY <2>1, <2>2
<1>5. CASE Elsewhere
  <2>1. w'.pc = w.pc /\ w'.run = w.run /\ w'.next = w.next
    BY <1>0, <1>5, ElsewhereIsElsewhere DEF ResultInv
  <2>2. Phase' => Phase
    BY <2>1 DEF Before, After, Ending, Point
  <2>3. \A r \in Runs : rows'[r].state \in {rows[r].state, "pending"}
    BY <1>0, <1>5, ElsewhereQueues
  <2>. QED
    BY <1>1, <2>1, <2>2, <2>3 DEF ActiveWorker, IsActive, Active
<1>6. CASE Crash
  BY <1>2, <1>6 DEF Crash, Boot, IdleWorker, ActiveWorker
<1>7. CASE WorkerSave
  <2>1. /\ w.pc = "save" /\ w.run \in Runs
        /\ IsActive(rows[w.run]) /\ w.next \in {"load", "plan", "loop", "finish"}
              => IsActive(rows'[w.run])
    BY <1>0, <1>7, WorkerSaves DEF IsActive, Active
  <2>2. Finally \/ /\ w'.run = w.run /\ w'.next = w.next
                   /\ w'.pc = "notify" \/ (w'.pc = w.next /\ w.next \notin {"done", "release"})
    BY <1>0, <1>7 DEF WorkerSave, Continue, WorkerType
  <2>3. Phase' => w.next \in {"load", "plan", "loop", "finish"} /\ w'.run = w.run
    BY <1>0, <1>3, <2>2 DEF Before, After, Ending, Point, WorkerType, Nexts
  <2>4. w.next \in {"load", "plan", "loop", "finish"} => Phase
    BY <2>1 DEF Before, After, Point
  <2>. QED
    BY <1>1, <2>1, <2>3, <2>4 DEF ActiveWorker
<1>8. CASE Heartbeat
  <2>1. \A r \in Runs : rows'[r].state = rows[r].state
    BY <1>0, <1>8, WorkerLeases
  <2>2. w' = w \/ Finally
    BY <1>8 DEF Heartbeat
  <2>3. w' = w => (Phase' => Phase)
    BY DEF Before, After, Ending, Point
  <2>. QED
    BY <1>1, <1>3, <2>1, <2>2, <2>3 DEF ActiveWorker, IsActive
<1>9. CASE WorkerStep /\ ~WorkerSave
  <2>1. \A r \in Runs : rows'[r].state = rows[r].state
    BY <1>0, <1>9, WorkerLeases
  <2>2. CASE WorkerOwn \/ WorkerReacquire
    <3>1. w'.pc \in {"reacquire", "release"} \/ (w'.run = w.run /\ w.run \in Runs /\ IsActive(rows[w.run]))
      BY <1>0, <2>2 DEF WorkerOwn, WorkerReacquire, Finally, OwnedBy, Reacquirable, WorkerType
    <3>. QED
      BY <1>2, <2>1, <3>1 DEF ActiveWorker, IsActive
  <2>3. CASE WorkerTake \/ WorkerRelease
    <3>1. w'.pc \in {"release", "own", "idle", "dead"}
      <4>1. CASE WorkerTake
        BY <4>1 DEF WorkerTake, IdleWorker
      <4>2. CASE WorkerRelease
        BY <4>2 DEF WorkerRelease, IdleWorker
      <4>. QED
        BY <2>3, <4>1, <4>2
    <3>. QED
      BY <1>2, <3>1 DEF ActiveWorker
  <2>4. CASE WorkerRaises
    <3>1. Handler \/ (w.pc = "loop" /\ w'.run = w.run)
      BY <1>0, <2>4 DEF WorkerRaises, WriteStatus, WorkerType
    <3>2. w.pc = "loop" => Phase
      BY DEF After, Point
    <3>. QED
      BY <1>1, <1>4, <2>1, <3>1, <3>2 DEF ActiveWorker, IsActive
  <2>5. CASE WorkerNotify
    <3>1. Finally \/ (w'.run = w.run /\ w'.pc = w.next /\ w.next \notin {"done", "release"})
      BY <1>0, <2>5 DEF WorkerNotify, Continue, WorkerType
    <3>2. Finally \/ (w'.run = w.run /\ Phase)
      BY <1>0, <2>5, <3>1 DEF WorkerNotify, Before, After, Point, WorkerType, Nexts
    <3>. QED
      BY <1>1, <1>3, <2>1, <3>2 DEF ActiveWorker, IsActive
  <2>6. CASE \/ WorkerStart \/ WorkerLoad \/ WorkerPlan \/ WorkerWipe \/ WorkerLoop
             \/ WorkerEmbed \/ WorkerFinish
    <3>1. Phase
      BY <2>6 DEF WorkerStart, WorkerLoad, WorkerPlan, WorkerWipe, WorkerLoop,
         WorkerEmbed, WorkerFinish, Before, After, Point
    <3>2. Handler \/ w'.run = w.run
      BY <1>0, <2>6 DEF WorkerStart, WorkerLoad, WorkerPlan, WorkerWipe, WorkerLoop,
         WorkerEmbed, WorkerFinish, WriteStatus, WorkerType
    <3>. QED
      BY <1>1, <1>4, <2>1, <3>1, <3>2 DEF ActiveWorker, IsActive
  <2>. QED
    BY <1>9, <2>2, <2>3, <2>4, <2>5, <2>6 DEF WorkerStep
<1>. QED
  BY <1>0, <1>5, <1>6, <1>7, <1>8, <1>9, QuietStays

\* Steps that change the view of one run.
LEMMA OneRun ==
    ASSUME NEW x \in Runs,
           \A r \in Runs \ {x} : rows'[r].state = rows[r].state /\ (Whole(r)' <=> Whole(r)),
           \/ rows'[x].state = "pending"
           \/ IsActive(rows[x]) /\ rows'[x].state = rows[x].state
           \/ rows[x].state = "pending" /\ rows'[x].state = "running"
           \/ IsActive(rows[x]) /\ rows'[x].state = "complete" /\ Whole(x)'
           \/ IsActive(rows[x]) /\ rows'[x].state = "failed"
    PROVE  Lifecycle!Next
<1>. DEFINE view == [r \in Runs |-> rows[r].state]
<1>1. view' = [view EXCEPT ![x] = rows'[x].state]
  OBVIOUS
<1>2. whole' = [whole EXCEPT ![x] = Whole(x)']
  <2>1. \A r \in Runs \ {x} : (pts[r] = [fresh |-> rows[r].chunks, stale |-> FALSE])'
                                  = (pts[r] = [fresh |-> rows[r].chunks, stale |-> FALSE])
    BY DEF Whole
  <2>. QED
    BY <2>1 DEF whole, Whole
<1>3. \E b \in BOOLEAN : whole' = [whole EXCEPT ![x] = b]
  <2>1. Whole(x)' \in BOOLEAN
    BY DEF Whole
  <2>. QED
    BY <1>2, <2>1
<1>4. CASE rows'[x].state = "pending"
  <2>1. Lifecycle!Accept(x)
    BY <1>1, <1>3, <1>4 DEF Lifecycle!Accept
  <2>. QED
    BY <2>1 DEF Lifecycle!Next
<1>5. CASE IsActive(rows[x]) /\ rows'[x].state = rows[x].state
  <2>1. view[x] \in {"pending", "running"}
    BY <1>5 DEF IsActive, Active
  <2>2. view' = view
    BY <1>1, <1>5
  <2>3. Lifecycle!Write(x)
    BY <1>3, <2>1, <2>2 DEF Lifecycle!Write
  <2>. QED
    BY <2>3 DEF Lifecycle!Next
<1>6. CASE rows[x].state = "pending" /\ rows'[x].state = "running"
  <2>1. view[x] = "pending"
    BY <1>6
  <2>2. Lifecycle!Start(x)
    BY <1>1, <1>3, <1>6, <2>1 DEF Lifecycle!Start
  <2>. QED
    BY <2>2 DEF Lifecycle!Next
<1>7. CASE IsActive(rows[x]) /\ rows'[x].state = "complete" /\ Whole(x)'
  <2>1. view[x] \in {"pending", "running"}
    BY <1>7 DEF IsActive, Active
  <2>2. whole' = [whole EXCEPT ![x] = TRUE]
    <3>1. Whole(x)' = TRUE
      BY <1>7 DEF Whole
    <3>. QED
      BY <1>2, <3>1
  <2>3. Lifecycle!Finish(x)
    BY <1>1, <1>7, <2>1, <2>2 DEF Lifecycle!Finish
  <2>. QED
    BY <2>3 DEF Lifecycle!Next
<1>8. CASE IsActive(rows[x]) /\ rows'[x].state = "failed"
  <2>1. view[x] \in {"pending", "running"}
    BY <1>8 DEF IsActive, Active
  <2>2. Lifecycle!Abort(x)
    BY <1>1, <1>3, <1>8, <2>1 DEF Lifecycle!Abort
  <2>. QED
    BY <2>2 DEF Lifecycle!Next
<1>. QED
  BY <1>4, <1>5, <1>6, <1>7, <1>8

\* Steps that change no run's view.
LEMMA NoRunMoves ==
    ASSUME \A r \in Runs : rows'[r].state = rows[r].state /\ rows'[r].chunks = rows[r].chunks,
           UNCHANGED pts
    PROVE  UNCHANGED Lifecycle!vars
BY DEF Lifecycle!vars, whole

\* The initial states are initial states.
LEMMA LifecycleStarts == Init => Lifecycle!Init
<1>1. ASSUME Init
      PROVE  \A r \in Runs : /\ rows[r].state = "absent"
                            /\ (pts[r] = [fresh |-> rows[r].chunks, stale |-> FALSE]) = TRUE
  BY <1>1 DEF Init, NoRow, NoPoints
<1>2. Init => whole = [r \in Runs |-> TRUE]
  BY <1>1 DEF whole
<1>3. Init => [r \in Runs |-> rows[r].state] = [r \in Runs |-> "absent"]
  BY <1>1
<1>. QED
  BY <1>2, <1>3 DEF Lifecycle!Init

\* Every step is a step of JobLifecycle or leaves its view alone.
LEMMA LifecycleStep ==
    ASSUME LifecycleInv, LifecycleInv', [Next]_vars
    PROVE  [Lifecycle!Next]_(Lifecycle!vars)
<1>0. /\ rows \in [Runs -> Row]
      /\ w.pc \notin {"idle", "dead"} => w.run \in Runs
      /\ pts \in [Runs -> [fresh : Nat, stale : BOOLEAN]]
      /\ Typed /\ ResultInv /\ NoPurge /\ Quiet /\ ActiveWorker
      /\ Settled'
  BY DEF LifecycleInv, ResultInv, WholeInv, Typed, RowsOK, PtsOK, WorkerOK
<1>1. CASE Elsewhere
  <2>1. UNCHANGED pts
    BY <1>0, <1>1, ElsewhereQueues
  <2>2. CASE \A r \in Runs : rows'[r].state = rows[r].state /\ rows'[r].chunks = rows[r].chunks
    BY <2>1, <2>2, NoRunMoves
  <2>3. CASE \E x \in Runs : /\ rows'[x].state = "pending"
                             /\ \A r \in Runs \ {x} : rows'[r] = rows[r]
    <3>1. PICK x \in Runs : /\ rows'[x].state = "pending"
                            /\ \A r \in Runs \ {x} : rows'[r] = rows[r]
      BY <2>3
    <3>2. \A r \in Runs \ {x} : rows'[r].state = rows[r].state /\ (Whole(r)' <=> Whole(r))
      BY <2>1, <3>1 DEF Whole
    <3>. QED
      BY <3>1, <3>2, OneRun
  <2>. QED
    BY <1>0, <1>1, <2>2, <2>3, ElsewhereQueues
<1>2. CASE Crash
  BY <1>2, NoRunMoves DEF Crash, durable
<1>3. CASE Heartbeat
  <2>1. UNCHANGED pts
    BY <1>3 DEF Heartbeat
  <2>. QED
    BY <1>0, <1>3, <2>1, WorkerLeases, NoRunMoves
<1>4. CASE WorkerSave
  <2>1. CASE UNCHANGED rows
    BY <1>4, <2>1, WorkerSaves, NoRunMoves
  <2>2. CASE ~UNCHANGED rows
    <3>. PICK x \in Runs : x = w.run
      BY <1>4, WorkerSaves
    <3>1. /\ UNCHANGED pts /\ IsActive(rows[x]) /\ rows'[x].state = w.obj.state
          /\ \A r \in Runs \ {x} : rows'[r] = rows[r]
          /\ w.obj.state \in {"running", "failed", "complete"}
      BY <1>4, <2>2, WorkerSaves
    <3>2. \A r \in Runs \ {x} : rows'[r].state = rows[r].state /\ (Whole(r)' <=> Whole(r))
      BY <3>1 DEF Whole
    <3>3. w.obj.state = "complete" => Whole(x)'
      BY <1>0, <3>1 DEF Settled
    <3>4. rows[x].state \in {"pending", "running"}
      BY <3>1 DEF IsActive, Active
    <3>5. \/ rows'[x].state = "pending"
          \/ IsActive(rows[x]) /\ rows'[x].state = rows[x].state
          \/ rows[x].state = "pending" /\ rows'[x].state = "running"
          \/ IsActive(rows[x]) /\ rows'[x].state = "complete" /\ Whole(x)'
          \/ IsActive(rows[x]) /\ rows'[x].state = "failed"
      BY <3>1, <3>3, <3>4
    <3>. QED
      BY <3>2, <3>5, OneRun
  <2>. QED
    BY <2>1, <2>2
<1>5. CASE WorkerStep /\ ~WorkerSave
  <2>1. \A r \in Runs : rows'[r].state = rows[r].state /\ rows'[r].chunks = rows[r].chunks
    BY <1>0, <1>5, WorkerLeases
  <2>2. CASE UNCHANGED pts
    BY <2>1, <2>2, NoRunMoves
  <2>3. CASE ~UNCHANGED pts
    <3>1. WorkerStart \/ WorkerWipe \/ WorkerEmbed
      BY <1>5, <2>3 DEF WorkerStep, durable, WorkerTake, WorkerOwn, WorkerReacquire,
         WorkerNotify, WorkerLoad, WorkerPlan, WorkerLoop, WorkerFinish, WorkerRaises,
         WorkerRelease
    <3>2. w.pc \in {"start", "wipe", "embed"}
      BY <3>1 DEF WorkerStart, WorkerWipe, WorkerEmbed
    <3>3. w.run \in Runs /\ IsActive(rows[w.run])
      BY <1>0, <3>2 DEF ActiveWorker, Before, After
    <3>. PICK x \in Runs : x = w.run
      BY <3>3
    <3>4. \A r \in Runs \ {x} : pts'[r] = pts[r]
      BY <1>0, <3>1, <3>3 DEF WorkerStart, WorkerWipe, WorkerEmbed
    <3>5. \A r \in Runs \ {x} : rows'[r].state = rows[r].state /\ (Whole(r)' <=> Whole(r))
      BY <2>1, <3>4 DEF Whole
    <3>. QED
      BY <2>1, <3>3, <3>5, OneRun
  <2>. QED
    BY <2>2, <2>3
<1>. QED
  BY <1>0, <1>1, <1>2, <1>3, <1>4, <1>5, QuietStays

\* Rows and points together go only through the steps of JobLifecycle: a job is
\* queued, started, written, and ends complete with its index whole or failed,
\* and nothing moves it after that but being queued again.  A kill, a stop, a
\* write that fails unseen or a purge can break each of these on its own
\* (ResultStands, CompleteIsWhole), so the mix has none of the four; crashes,
\* lapsed leases, failing batches and frames, and reads stay.
THEOREM LifecycleImplemented ==
    ASSUME \A b \in Budgets : /\ b["kill"] = 0 /\ b["stop"] = 0
                              /\ b["storeFail"] = 0 /\ b["delete"] = 0
    PROVE  Spec => ImplementsLifecycle
<1>1. Init => LifecycleInv
  <2>1. Init => ActiveWorker
    BY DEF Init, IdleWorker, ActiveWorker, Before, After, Ending, Point
  <2>. QED
    BY <2>1, ResultInit, WholeInit DEF LifecycleInv
<1>2. LifecycleInv /\ [Next]_vars => LifecycleInv'
  <2>1. SUFFICES ASSUME LifecycleInv, [Next]_vars PROVE LifecycleInv'
    OBVIOUS
  <2>2. ResultInv' /\ WholeInv'
    BY <2>1, ResultStep, WholeStep DEF LifecycleInv
  <2>3. ActiveWorker'
    BY <2>1, <2>2, ActiveKept DEF WholeInv
  <2>. QED
    BY <2>2, <2>3 DEF LifecycleInv
<1>3. LifecycleInv /\ LifecycleInv' /\ [Next]_vars => [Lifecycle!Next]_(Lifecycle!vars)
  BY LifecycleStep
<1>4. QED
  BY <1>1, <1>2, <1>3, LifecycleStarts, PTL DEF Spec, ImplementsLifecycle, Lifecycle!Spec

-----------------------------------------------------------------------------
(* The lease against the clock.  The invariant says, of each process, how   *)
(* old its last success can be at each point of the heartbeat loop, and how *)
(* that age and the lease add up.                                           *)

\* A process that is not in _index_run makes no calls and overruns nothing.
Resting(p) == pc[p] # "running" => call[p] = "none" /\ over[p] = 0

\* The age of the last success: an error was forgiven only below failure_limit,
\* and one sleep and one call can follow.
LastSuccess(p) ==
    pc[p] = "running" =>
        IF call[p] = "none" THEN since[p] + beat[p] < Lease
        ELSE since[p] < Lease + age[p]

\* The overrun began after the last success, and ends with a renewal.
Overrun(p) ==
    pc[p] = "running" => IF Held(p) THEN over[p] = 0 ELSE over[p] < since[p]

\* A renewal holds from the moment its call was sent.
RenewalInTime(p) == call[p] = "renewed" => Held(p) /\ remaining + age[p] >= Lease

\* The lease of a firm execution is at most one call older than its last success.
FirmLease(p) ==
    pc[p] = "running" /\ firm[p] =>
        IF Held(p) THEN remaining + since[p] + Delay >= Lease
        ELSE over[p] + Lease <= since[p] + Delay

ProcInv(p) ==
    Resting(p) /\ LastSuccess(p) /\ Overrun(p) /\ RenewalInTime(p) /\ FirmLease(p)

IInv == TimerTypeOK /\ \A p \in Procs : ProcInv(p)

-----------------------------------------------------------------------------
(* Types.                                                                   *)

\* How long renewals may fail.
LEMMA LimitIs == FailureLimit = Lease - Beat
BY LeaseAssumption DEF FailureLimit

\* The types hold at the start.
LEMMA TimerInitTyped == TimerInit => TimerTypeOK
<1>1. 0 \in 0..Lease /\ 0 \in 0..Beat /\ 0 \in 0..Delay /\ 0 \in Nat
  BY LeaseAssumption
<1>. QED
  BY <1>1 DEF TimerInit, TimerTypeOK, Calls

\* Every step keeps the types.
LEMMA TypeStep ==
    ASSUME IInv, [TimerNext]_timerVars
    PROVE  TimerTypeOK'
<1>. USE LeaseAssumption DEF IInv, TimerTypeOK, Calls
<1>1. CASE UNCHANGED timerVars
  BY <1>1 DEF timerVars, jobRow, heart
<1>2. CASE Tick
  <2>1. remaining' \in 0..Lease
    BY <1>2 DEF Tick
  <2>2. beat' \in [Procs -> 0..Beat]
    BY <1>2 DEF Tick
  <2>3. ASSUME NEW p \in Procs, call[p] # "none"
        PROVE  age[p] + 1 \in 0..Delay
    <3>1. pc[p] = "running"
      BY <2>3 DEF ProcInv, Resting
    <3>2. age[p] # Delay
      BY <1>2, <2>3, <3>1 DEF Tick, Due
    <3>. QED
      BY <3>2
  <2>4. age' \in [Procs -> 0..Delay]
    BY <1>2, <2>3 DEF Tick
  <2>5. since' \in [Procs -> Nat] /\ over' \in [Procs -> Nat]
    BY <1>2 DEF Tick
  <2>. QED
    BY <1>2, <2>1, <2>2, <2>4, <2>5 DEF Tick
<1>3. ASSUME NEW p \in Procs, Claim(p)
      PROVE  TimerTypeOK'
  BY <1>3 DEF Claim, heart
<1>0. Beat \in 0..Beat /\ 0 \in 0..Delay /\ Lease \in 0..Lease
  OBVIOUS
<1>4. ASSUME NEW p \in Procs, StartOwned(p) \/ StartReacquired(p)
      PROVE  TimerTypeOK'
  <2>1. /\ pc' \in [Procs -> {"out", "queued", "running"}] /\ beat' \in [Procs -> 0..Beat]
        /\ call' \in [Procs -> Calls] /\ age' \in [Procs -> 0..Delay]
        /\ since' \in [Procs -> Nat] /\ over' \in [Procs -> Nat]
    BY <1>0, <1>4 DEF StartOwned, StartReacquired, Run
  <2>2. owner' \in Procs \cup {Nobody} /\ remaining' \in 0..Lease /\ active' \in BOOLEAN
    BY <1>0, <1>4 DEF StartOwned, StartReacquired, jobRow
  <2>3. firm' \in [Procs -> BOOLEAN]
    BY <1>4 DEF StartOwned, StartReacquired
  <2>. QED
    BY <2>1, <2>2, <2>3
<1>5. ASSUME NEW p \in Procs, StartRefused(p) \/ Finish(p) \/ ProcessDies(p) \/ BeatLost(p)
      PROVE  TimerTypeOK'
  <2>1. Leave(p) /\ (Release(p) \/ UNCHANGED jobRow) /\ active' \in BOOLEAN
    BY <1>5 DEF StartRefused, Finish, ProcessDies, BeatLost, jobRow
  <2>. QED
    BY <2>1 DEF Leave, Release, jobRow
<1>6. ASSUME NEW p \in Procs, SendBeat(p) \/ RaiseBeat(p)
      PROVE  TimerTypeOK'
  BY <1>6 DEF SendBeat, RaiseBeat, jobRow
<1>7. ASSUME NEW p \in Procs, ApplyBeat(p)
      PROVE  TimerTypeOK'
  BY <1>7 DEF ApplyBeat
<1>8. ASSUME NEW p \in Procs, BeatRenewed(p) \/ BeatRetried(p)
      PROVE  TimerTypeOK'
  <2>1. Sleep(p)
    BY <1>8 DEF BeatRenewed, BeatRetried
  <2>2. call' \in [Procs -> Calls] /\ age' \in [Procs -> 0..Delay]
        /\ beat' \in [Procs -> 0..Beat]
    BY <1>0, <2>1 DEF Sleep
  <2>3. since' \in [Procs -> Nat] /\ firm' \in [Procs -> BOOLEAN]
    <3>1. CASE BeatRenewed(p)
      BY <3>1 DEF BeatRenewed
    <3>2. CASE BeatRetried(p)
      BY <3>2 DEF BeatRetried
    <3>. QED
      BY <1>8, <3>1, <3>2
  <2>4. UNCHANGED <<owner, remaining, active, pc, over>>
    BY <1>8 DEF BeatRenewed, BeatRetried, jobRow
  <2>. QED
    BY <2>2, <2>3, <2>4
<1>. QED
  BY <1>1, <1>2, <1>3, <1>4, <1>5, <1>6, <1>7, <1>8 DEF TimerNext

-----------------------------------------------------------------------------
(* The clocks of one process.                                               *)

\* A step that leaves a process, and a lease it holds, as they are.
LEMMA Untouched ==
    ASSUME NEW q \in Procs, ProcInv(q),
           pc'[q] = pc[q], beat'[q] = beat[q], call'[q] = call[q],
           age'[q] = age[q], since'[q] = since[q], firm'[q] = firm[q],
           over'[q] = over[q], Held(q)' <=> Held(q), Held(q) => remaining' = remaining
    PROVE  ProcInv(q)'
BY DEF ProcInv, Resting, LastSuccess, Overrun, RenewalInTime, FirmLease

\* Nobody takes a lease that is held, or releases one that is not theirs.
LEMMA OthersKeep ==
    ASSUME TimerTypeOK, NEW p \in Procs, NEW q \in Procs, q # p,
           \/ UNCHANGED <<owner, remaining>>
           \/ Release(p)
           \/ remaining = 0 /\ owner' = p
           \/ owner = p /\ UNCHANGED owner
    PROVE  /\ Held(q)' <=> Held(q)
           /\ Held(q) => remaining' = remaining
BY OwnerAssumption DEF TimerTypeOK, Held, Release

\* What is left of a lease.
LEMMA Left ==
    ASSUME TimerTypeOK, NEW p \in Procs, Leave(p)
    PROVE  ProcInv(p)'
BY DEF Leave, TimerTypeOK, ProcInv, Resting, LastSuccess, Overrun, RenewalInTime, FirmLease

\* Time keeps the invariant.
LEMMA TickKeeps ==
    ASSUME IInv, Tick, NEW q \in Procs
    PROVE  ProcInv(q)'
<1>. USE LeaseAssumption DEF TimerTypeOK, IInv
<1>0. ProcInv(q)
  OBVIOUS
<1>1. Resting(q)'
  BY <1>0 DEF Tick, ProcInv, Resting
<1>2. LastSuccess(q)'
  <2>1. CASE call[q] = "none" /\ pc[q] = "running"
    <3>1. beat[q] > 0
      BY <2>1 DEF Tick, Due
    <3>. QED
      BY <1>0, <2>1, <3>1 DEF Tick, ProcInv, LastSuccess
  <2>2. CASE call[q] # "none" /\ pc[q] = "running"
    BY <1>0, <2>2 DEF Tick, ProcInv, LastSuccess
  <2>. QED
    BY <2>1, <2>2 DEF Tick, LastSuccess
<1>3. Overrun(q)'
  BY <1>0 DEF Tick, ProcInv, Overrun, Held
<1>4. RenewalInTime(q)'
  <2>. SUFFICES ASSUME call[q] = "renewed" PROVE RenewalInTime(q)'
    BY DEF Tick, RenewalInTime
  <2>1. pc[q] = "running" /\ Held(q) /\ remaining + age[q] >= Lease
    BY <1>0 DEF ProcInv, Resting, RenewalInTime
  <2>2. age[q] < Delay
    BY <2>1 DEF Tick, Due
  <2>. QED
    BY <2>1, <2>2 DEF Tick, RenewalInTime, Held
<1>5. FirmLease(q)'
  BY <1>0 DEF Tick, ProcInv, Overrun, FirmLease, Held
<1>. QED
  BY <1>1, <1>2, <1>3, <1>4, <1>5 DEF ProcInv

\* Every step keeps the invariant.
LEMMA StepKeeps ==
    ASSUME IInv, [TimerNext]_timerVars, NEW q \in Procs
    PROVE  ProcInv(q)'
<1>. USE LeaseAssumption DEF TimerTypeOK, IInv
<1>0. ProcInv(q)
  OBVIOUS
<1>1. CASE UNCHANGED timerVars
  BY <1>0, <1>1, Untouched DEF timerVars, jobRow, heart, Held
<1>2. CASE Tick
  BY <1>2, TickKeeps
<1>3. ASSUME NEW p \in Procs, Claim(p)
      PROVE  ProcInv(q)'
  <2>1. CASE q # p
    BY <1>0, <1>3, <2>1, Untouched, OthersKeep DEF Claim, heart
  <2>2. CASE q = p
    BY <1>0, <1>3, <2>2
       DEF Claim, heart, ProcInv, Resting, LastSuccess, Overrun, RenewalInTime, FirmLease
  <2>. QED
    BY <2>1, <2>2
<1>4. ASSUME NEW p \in Procs, StartOwned(p) \/ StartReacquired(p)
      PROVE  ProcInv(q)'
  <2>1. CASE q # p
    BY <1>0, <1>4, <2>1, Untouched, OthersKeep
       DEF StartOwned, StartReacquired, Run, jobRow
  <2>2. CASE q = p
    BY <1>4, <2>2 DEF StartOwned, StartReacquired, Run, jobRow, Owned, Held, ProcInv,
       Resting, LastSuccess, Overrun, RenewalInTime, FirmLease
  <2>. QED
    BY <2>1, <2>2
<1>5. ASSUME NEW p \in Procs, StartRefused(p) \/ Finish(p) \/ ProcessDies(p) \/ BeatLost(p)
      PROVE  ProcInv(q)'
  <2>1. Leave(p) /\ (Release(p) \/ UNCHANGED <<owner, remaining>>)
    BY <1>5 DEF StartRefused, Finish, ProcessDies, BeatLost, jobRow
  <2>2. CASE q # p
    BY <1>0, <2>1, <2>2, Untouched, OthersKeep DEF Leave
  <2>3. CASE q = p
    BY <2>1, <2>3, Left
  <2>. QED
    BY <2>2, <2>3
<1>6. ASSUME NEW p \in Procs, SendBeat(p) \/ RaiseBeat(p)
      PROVE  ProcInv(q)'
  <2>1. CASE q # p
    BY <1>0, <1>6, <2>1, Untouched, OthersKeep DEF SendBeat, RaiseBeat, jobRow
  <2>2. CASE q = p
    BY <1>0, <1>6, <2>2 DEF SendBeat, RaiseBeat, jobRow, Held, ProcInv,
       Resting, LastSuccess, Overrun, RenewalInTime, FirmLease
  <2>. QED
    BY <2>1, <2>2
<1>7. ASSUME NEW p \in Procs, ApplyBeat(p)
      PROVE  ProcInv(q)'
  <2>1. CASE q # p
    BY <1>0, <1>7, <2>1, Untouched, OthersKeep DEF ApplyBeat
  <2>2. CASE q = p
    BY <1>0, <1>7, <2>2 DEF ApplyBeat, Held, ProcInv,
       Resting, LastSuccess, Overrun, RenewalInTime, FirmLease
  <2>. QED
    BY <2>1, <2>2
<1>8. ASSUME NEW p \in Procs, BeatRenewed(p) \/ BeatRetried(p)
      PROVE  ProcInv(q)'
  <2>1. CASE q # p
    BY <1>0, <1>8, <2>1, Untouched, OthersKeep DEF BeatRenewed, BeatRetried, Sleep, jobRow
  <2>2. CASE q = p
    BY <1>0, <1>8, <2>2, LimitIs DEF BeatRenewed, BeatRetried, Sleep, jobRow, Held, ProcInv,
       Resting, LastSuccess, Overrun, RenewalInTime, FirmLease
  <2>. QED
    BY <2>1, <2>2
<1>. QED
  BY <1>1, <1>2, <1>3, <1>4, <1>5, <1>6, <1>7, <1>8 DEF TimerNext

-----------------------------------------------------------------------------
\* Whatever the lease, the heartbeat and the delay: the clocks of every process
\* stand to each other as the heartbeat loop leaves them (_heartbeat_loop).
THEOREM ClocksAgree == TimerSpec => []IInv
<1>1. TimerInit => IInv
  BY TimerInitTyped DEF TimerInit, IInv, ProcInv, Resting, LastSuccess, Overrun, RenewalInTime, FirmLease
<1>2. IInv /\ [TimerNext]_timerVars => IInv'
  BY TypeStep, StepKeeps DEF IInv
<1>. QED
  BY <1>1, <1>2, PTL DEF TimerSpec

\* A job that took or renewed its lease while it ran gives up less than two
\* heartbeat calls after the lease has run out (_heartbeat_loop).
THEOREM FirmJobsGiveUp == TimerSpec => []GivesUpInTime
<1>1. IInv => GivesUpInTime
  <2>. SUFFICES ASSUME IInv, NEW p \in Procs, pc[p] = "running", firm[p], ~Held(p)
                PROVE  over[p] < 2 * Delay
    BY DEF GivesUpInTime
  <2>1. over[p] + Lease <= since[p] + Delay
    BY DEF IInv, ProcInv, FirmLease
  <2>2. since[p] < Lease + Delay
    BY LeaseAssumption DEF IInv, TimerTypeOK, ProcInv, LastSuccess
  <2>. QED
    BY <2>1, <2>2, LeaseAssumption DEF IInv, TimerTypeOK
<1>. QED
  BY <1>1, ClocksAgree, PTL

\* No job runs on without its lease for as long as another lease and a call, even
\* one that started on the last moment of what it had claimed
\* (_run_claimed_job, _heartbeat_loop).
THEOREM OverrunsEnd == TimerSpec => []OverrunIsBounded
<1>1. IInv => OverrunIsBounded
  <2>. SUFFICES ASSUME IInv, NEW p \in Procs
                PROVE  over[p] + 1 < Lease + Delay
    BY DEF OverrunIsBounded
  <2>1. over[p] = 0 \/ (pc[p] = "running" /\ over[p] < since[p])
    BY DEF IInv, ProcInv, Resting, Overrun
  <2>2. pc[p] = "running" => since[p] < Lease + Delay
    BY LeaseAssumption DEF IInv, TimerTypeOK, ProcInv, LastSuccess
  <2>. QED
    BY <2>1, <2>2, LeaseAssumption DEF IInv, TimerTypeOK
<1>. QED
  BY <1>1, ClocksAgree, PTL
=============================================================================
