------------------------ MODULE IndexScheduler_proofs ------------------------
(***************************************************************************)
(* What the scheduler keeps for every set of runs and processes, interval, *)
(* lease and mix of disturbances: its types, one tick at a time, one       *)
(* scheduled job at a time and the cadence.  The last three suppose        *)
(* TicksFit, the one thing the code leaves to its configuration.           *)
(***************************************************************************)
EXTENDS IndexScheduler, TLAPS

TickType == [pc : TickPcs, not : SUBSET Runs, run : SUBSET Runs]

DueOK     == due \in 0..Interval /\ since \in 0..Interval
LeaseOK   == lease \in [owner : Procs \cup {NoOwner, Gone}, time : 0..LeaseTime]
FlagsOK   == paused \in BOOLEAN /\ intake \in BOOLEAN
RowsOK    == rows \in [Runs -> Row] /\ byTick \in SUBSET Runs
ReadyOK   == ready \in Seq(Runs)
TickOK    == tick \in [Procs -> TickType]
PostOK    == post \in [Procs -> SUBSET Runs]
LeftOK    == left \in [Ops -> Nat]

Typed == DueOK /\ LeaseOK /\ FlagsOK /\ RowsOK /\ ReadyOK /\ TickOK /\ PostOK /\ LeftOK

\* The type invariant, one conjunct a variable.
LEMMA TypedIsTypeOK == Typed <=> TypeOK
BY DEF Typed, TypeOK, DueOK, LeaseOK, FlagsOK, RowsOK, ReadyOK, TickOK, PostOK,
       LeftOK, TickType

-----------------------------------------------------------------------------
(* Typing of the helpers that several actions share. *)

\* What the assumptions say of the constants.
LEMMA ConstantsTyped ==
    /\ Interval \in Nat /\ Interval > 0 /\ LeaseTime \in Nat /\ LeaseTime > 0
    /\ Gone \in Nat /\ Gone # NoOwner /\ Gone \notin Procs
    /\ \A p \in Procs : p \in Nat /\ p # NoOwner
BY OwnersAssumption, TimesAssumption

\* Spending a bound leaves a bound.
LEMMA SpendTyped ==
    ASSUME LeftOK, NEW op \in Ops, Spend(op)
    PROVE  LeftOK'
BY DEF LeftOK, Spend

\* A tick that moves on is a tick.
LEMMA GotoTyped ==
    ASSUME TickOK, NEW p \in Procs, NEW pc \in TickPcs, Goto(p, pc)
    PROVE  TickOK'
BY DEF TickOK, TickType, Goto

\* A tick that is over is a tick.
LEMMA IdleTyped ==
    ASSUME TickOK, NEW p \in Procs, tick' = [tick EXCEPT ![p] = IdleTick]
    PROVE  TickOK'
<1>1. IdleTick \in TickType
  BY DEF IdleTick, TickType, TickPcs
<1>2. QED
  BY <1>1 DEF TickOK

\* A claimed row is a row.
LEMMA ClaimTyped ==
    ASSUME RowsOK, NEW p \in Procs, NEW r \in Runs, NEW force \in BOOLEAN,
           ClaimJob(p, r, force)
    PROVE  RowsOK'
<1>1. Claimed(rows[r], p) \in Row
  <2>1. rows[r] \in Row /\ rows[r].attempt + 1 \in Nat
    BY DEF RowsOK, Row
  <2>2. QED
    BY <2>1, ConstantsTyped DEF Claimed, Row, States, Active, Terminal
<1>2. rows' = [rows EXCEPT ![r] = Claimed(rows[r], p)]
  BY DEF ClaimJob
<1>3. rows' \in [Runs -> Row]
  BY <1>1, <1>2 DEF RowsOK
<1>4. byTick' = byTick \ {r} \/ byTick' = byTick \cup {r}
  BY DEF ClaimJob
<1>5. byTick' \in SUBSET Runs
  BY <1>4 DEF RowsOK
<1>6. QED
  BY <1>3, <1>5 DEF RowsOK

-----------------------------------------------------------------------------
(* Every action keeps the types. *)

\* The types hold at the start.
LEMMA InitTyped == Init => Typed
<1>. SUFFICES ASSUME Init PROVE Typed
  OBVIOUS
<1>1. DueOK /\ LeaseOK
  BY ConstantsTyped DEF Init, DueOK, LeaseOK
<1>2. FlagsOK
  BY DEF Init, FlagsOK
<1>3. NoRow \in Row
  BY DEF NoRow, Row, NoOwner
<1>4. RowsOK
  BY <1>3 DEF Init, RowsOK
<1>5. IdleTick \in TickType
  BY DEF IdleTick, TickType, TickPcs
<1>6. ReadyOK /\ TickOK /\ PostOK
  BY <1>5 DEF Init, ReadyOK, TickOK, PostOK
<1>7. LeftOK
  BY LimitsAssumption DEF Init, LeftOK
<1>8. QED
  BY <1>1, <1>2, <1>4, <1>6, <1>7 DEF Typed

\* The steps of a tick keep the types.
LEMMA TickTyped ==
    ASSUME Typed, NEW p \in Procs, TickStep(p)
    PROVE  Typed'
<1>. USE DEF Typed, settings, jobs
<1>1. CASE TickPoll(p)
  <2>1. TickOK'
    BY <1>1, GotoTyped DEF TickPoll, TickPcs
  <2>2. QED
    BY <1>1, <2>1 DEF TickPoll, DueOK, LeaseOK, FlagsOK, RowsOK, ReadyOK, PostOK, LeftOK
<1>2. CASE TickClaim(p)
  <2>1. TickOK'
    BY <1>2, GotoTyped DEF TickClaim, TickPcs
  <2>2. LeaseOK'
    BY <1>2, ConstantsTyped DEF TickClaim, LeaseOK
  <2>3. DueOK'
    BY <1>2, ConstantsTyped DEF TickClaim, DueOK
  <2>4. QED
    BY <1>2, <2>1, <2>2, <2>3 DEF TickClaim, FlagsOK, RowsOK, ReadyOK, PostOK, LeftOK
<1>3. CASE TickActive(p)
  <2>1. TickOK'
    BY <1>3, GotoTyped DEF TickActive, TickPcs
  <2>2. QED
    BY <1>3, <2>1 DEF TickActive, DueOK, LeaseOK, FlagsOK, RowsOK, ReadyOK, PostOK, LeftOK
<1>4. CASE TickExclude(p)
  <2>1. TickOK'
    BY <1>4 DEF TickExclude, TickOK, TickType, TickPcs
  <2>2. QED
    BY <1>4, <2>1 DEF TickExclude, DueOK, LeaseOK, FlagsOK, RowsOK, ReadyOK, PostOK, LeftOK
<1>5. CASE TickScan(p)
  <2>1. TickOK'
    <3>1. \A i \in 1..Len(ready) : ready[i] \in Runs
      BY DEF ReadyOK
    <3>2. CASE Goto(p, "complete")
      BY <3>2, GotoTyped DEF TickPcs
    <3>3. ASSUME NEW i \in 1..Len(ready),
                 tick' = [tick EXCEPT ![p].pc = "gate", ![p].run = {ready[i]}]
          PROVE  TickOK'
      BY <3>1, <3>3, ZenonT(60) DEF TickOK, TickType, TickPcs
    <3>4. QED
      BY <1>5, <3>2, <3>3 DEF TickScan
  <2>2. QED
    BY <1>5, <2>1 DEF TickScan, DueOK, LeaseOK, FlagsOK, RowsOK, ReadyOK, PostOK, LeftOK
<1>6. CASE TickGate(p)
  <2>1. TickOK'
    BY <1>6, GotoTyped DEF TickGate, TickPcs
  <2>2. QED
    BY <1>6, <2>1 DEF TickGate, DueOK, LeaseOK, FlagsOK, RowsOK, ReadyOK, PostOK, LeftOK
<1>7. CASE TickEnqueue(p)
  <2>1. TickOK'
    BY <1>7, GotoTyped DEF TickEnqueue, TickPcs
  <2>2. PICK r \in tick[p].run :
            \/ ClaimJob(p, r, FALSE) /\ since' = 0
            \/ UNCHANGED <<jobs, since>>
    BY <1>7 DEF TickEnqueue
  <2>3. r \in Runs
    BY <2>2 DEF TickOK, TickType
  <2>4. RowsOK'
    BY <2>2, <2>3, ClaimTyped DEF RowsOK
  <2>5. due' = due /\ (since' = 0 \/ since' = since)
    BY <1>7, <2>2 DEF TickEnqueue
  <2>6. DueOK'
    BY <2>5, ConstantsTyped DEF DueOK
  <2>7. QED
    BY <1>7, <2>1, <2>4, <2>6 DEF TickEnqueue, LeaseOK, FlagsOK, ReadyOK, PostOK, LeftOK
<1>8. CASE TickFails(p)
  <2>1. TickOK'
    BY <1>8, GotoTyped DEF TickFails, TickPcs
  <2>2. LeftOK'
    BY <1>8, SpendTyped DEF TickFails, Ops
  <2>3. QED
    BY <1>8, <2>1, <2>2 DEF TickFails, DueOK, LeaseOK, FlagsOK, RowsOK, ReadyOK, PostOK
<1>9. CASE TickComplete(p)
  <2>1. TickOK'
    BY <1>9, IdleTyped DEF TickComplete
  <2>2. DueOK' /\ LeaseOK'
    BY <1>9, ConstantsTyped DEF TickComplete, DueOK, LeaseOK
  <2>3. QED
    BY <1>9, <2>1, <2>2 DEF TickComplete, FlagsOK, RowsOK, ReadyOK, PostOK, LeftOK
<1>10. CASE TickCompleteFails(p)
  <2>1. TickOK'
    BY <1>10, IdleTyped DEF TickCompleteFails
  <2>2. LeftOK'
    BY <1>10, SpendTyped DEF TickCompleteFails, Ops
  <2>3. QED
    BY <1>10, <2>1, <2>2 DEF TickCompleteFails, DueOK, LeaseOK, FlagsOK, RowsOK, ReadyOK, PostOK
<1>11. QED
  BY <1>1, <1>2, <1>3, <1>4, <1>5, <1>6, <1>7, <1>8, <1>9, <1>10 DEF TickStep

\* So do posts and crashes.
LEMMA PostsAndCrashTyped ==
    ASSUME Typed, NEW p \in Procs,
           PostClaim(p) \/ Crash(p) \/ \E r \in Runs : PostGate(p, r)
    PROVE  Typed'
<1>. USE DEF Typed, settings, jobs
<1>1. CASE PostClaim(p)
  <2>1. RowsOK'
    <3>1. PICK q \in post[p] : ClaimJob(p, q, TRUE) \/ UNCHANGED jobs
      BY <1>1 DEF PostClaim
    <3>2. q \in Runs
      BY <3>1 DEF PostOK
    <3>3. QED
      BY <3>1, <3>2, ClaimTyped DEF RowsOK
  <2>2. PostOK'
    BY <1>1 DEF PostClaim, PostOK
  <2>3. QED
    BY <1>1, <2>1, <2>2 DEF PostClaim, DueOK, LeaseOK, FlagsOK, ReadyOK, TickOK, LeftOK
<1>2. CASE Crash(p)
  <2>1. ASSUME NEW s \in Runs
        PROVE  [rows[s] EXCEPT !.owner = IF @ = p THEN Gone ELSE @] \in Row
    <3>1. rows[s] \in Row
      BY DEF RowsOK
    <3>2. QED
      BY <3>1, ConstantsTyped DEF Row
  <2>2. RowsOK'
    BY <1>2, <2>1 DEF Crash, RowsOK
  <2>3. LeaseOK'
    BY <1>2 DEF Crash, LeaseOK
  <2>4. TickOK'
    BY <1>2, IdleTyped DEF Crash
  <2>5. PostOK'
    BY <1>2 DEF Crash, PostOK
  <2>6. LeftOK'
    BY <1>2, SpendTyped DEF Crash, Ops
  <2>7. QED
    BY <1>2, <2>2, <2>3, <2>4, <2>5, <2>6 DEF Crash, DueOK, FlagsOK, ReadyOK
<1>3. ASSUME NEW r \in Runs, PostGate(p, r) PROVE Typed'
  <2>1. PostOK'
    BY <1>3 DEF PostGate, PostOK
  <2>2. LeftOK'
    BY <1>3, SpendTyped DEF PostGate, Ops
  <2>3. QED
    BY <1>3, <2>1, <2>2 DEF PostGate, DueOK, LeaseOK, FlagsOK, RowsOK, ReadyOK, TickOK
<1>4. QED
  BY <1>1, <1>2, <1>3

\* So do the steps of jobs.
LEMMA JobsTyped ==
    ASSUME Typed, NEW r \in Runs,
           MakeReady(r) \/ JobEnds(r) \/ JobAbandoned(r) \/ JobLapses(r)
    PROVE  Typed'
<1>. USE DEF Typed, settings, jobs
<1>0. rows[r] \in Row
  BY DEF RowsOK
<1>1. CASE MakeReady(r)
  <2>1. ReadyOK'
    BY <1>1 DEF MakeReady, ReadyOK
  <2>2. QED
    BY <1>1, <2>1 DEF MakeReady, DueOK, LeaseOK, FlagsOK, RowsOK, TickOK, PostOK, LeftOK
<1>2. CASE JobEnds(r)
  <2>1. PICK s \in {"complete", "failed"} :
            rows' = [rows EXCEPT ![r].state = s, ![r].owner = NoOwner, ![r].live = FALSE]
    BY <1>2 DEF JobEnds
  <2>2. RowsOK'
    BY <1>0, <1>2, <2>1 DEF JobEnds, RowsOK, Row, States, Terminal, NoOwner
  <2>3. QED
    BY <1>2, <2>2 DEF JobEnds, DueOK, LeaseOK, FlagsOK, ReadyOK, TickOK, PostOK, LeftOK
<1>3. CASE JobAbandoned(r)
  <2>1. RowsOK'
    BY <1>0, <1>3 DEF JobAbandoned, RowsOK, Row, NoOwner
  <2>2. LeftOK'
    BY <1>3, SpendTyped DEF JobAbandoned, Ops
  <2>3. QED
    BY <1>3, <2>1, <2>2 DEF JobAbandoned, DueOK, LeaseOK, FlagsOK, ReadyOK, TickOK, PostOK
<1>4. CASE JobLapses(r)
  <2>1. RowsOK'
    BY <1>0, <1>4 DEF JobLapses, RowsOK, Row, Lapsed
  <2>2. QED
    BY <1>4, <2>1 DEF JobLapses, DueOK, LeaseOK, FlagsOK, ReadyOK, TickOK, PostOK, LeftOK
<1>5. QED
  BY <1>1, <1>2, <1>3, <1>4

\* Every step keeps the types.
LEMMA NextTyped == Typed /\ [Next]_vars => Typed'
<1>. SUFFICES ASSUME Typed, [Next]_vars PROVE Typed'
  OBVIOUS
<1>. USE DEF Typed, settings, jobs
<1>1. ASSUME NEW p \in Procs, TickStep(p) PROVE Typed'
  BY <1>1, TickTyped
<1>2. ASSUME NEW p \in Procs,
             PostClaim(p) \/ Crash(p) \/ \E r \in Runs : PostGate(p, r)
      PROVE  Typed'
  BY <1>2, PostsAndCrashTyped
<1>3. ASSUME NEW r \in Runs,
             MakeReady(r) \/ JobEnds(r) \/ JobAbandoned(r) \/ JobLapses(r)
      PROVE  Typed'
  BY <1>3, JobsTyped
<1>4. CASE SetPaused \/ SetIntake
  <2>1. FlagsOK'
    BY <1>4 DEF SetPaused, SetIntake, FlagsOK
  <2>2. QED
    BY <1>4, <2>1 DEF SetPaused, SetIntake, DueOK, LeaseOK, RowsOK, ReadyOK, TickOK, PostOK, LeftOK
<1>5. CASE Clock
  <2>1. DueOK'
    BY <1>5, ConstantsTyped DEF Clock, Minus1, DueOK
  <2>2. LeaseOK'
    BY <1>5, ConstantsTyped DEF Clock, Minus1, LeaseOK
  <2>3. QED
    BY <1>5, <2>1, <2>2 DEF Clock, FlagsOK, RowsOK, ReadyOK, TickOK, PostOK, LeftOK
<1>6. CASE UNCHANGED vars
  BY <1>6 DEF vars, DueOK, LeaseOK, FlagsOK, RowsOK, ReadyOK, TickOK, PostOK, LeftOK
<1>7. QED
  BY <1>1, <1>2, <1>3, <1>4, <1>5, <1>6 DEF Next

\* Every variable of the scheduler keeps its type.
THEOREM SchedulerTypeCorrect == Spec => []TypeOK
<1>1. Typed /\ [Next]_vars => Typed'
  BY NextTyped
<1>2. QED
  BY InitTyped, <1>1, TypedIsTypeOK, PTL DEF Spec

-----------------------------------------------------------------------------
(* One tick at a time: whoever is inside a due tick still holds its lease. *)

TickInv ==
    \A p \in Procs : InTick(p) => lease.owner = p /\ lease.time > 0

\* Whoever is in a due tick holds the one lease.
LEMMA TickInvIsOneTick ==
    ASSUME TickInv
    PROVE  OneTickAtATime
BY DEF TickInv, OneTickAtATime

\* What a step of p's tick does to the ticks and the lease.
LEMMA OtherTicks ==
    ASSUME Typed, NEW p \in Procs, NEW q \in Procs, p # q,
           TickStep(p) \/ Crash(p)
    PROVE  tick'[q] = tick[q]
<1>1. CASE Crash(p)
  BY <1>1 DEF Crash, Typed, TickOK
<1>2. CASE TickStep(p)
  BY <1>2 DEF TickStep, TickPoll, TickClaim, TickActive, TickExclude, TickScan, TickGate,
     TickEnqueue, TickFails, TickComplete, TickCompleteFails, Goto, Typed, TickOK
<1>3. QED
  BY <1>1, <1>2

\* Steps that touch neither tick nor lease.
LEMMA Bystanders ==
    ASSUME Next,
           ~(\E p \in Procs : TickStep(p) \/ Crash(p)), ~Clock
    PROVE  UNCHANGED <<tick, lease, since>> /\ UNCHANGED due
BY DEF Next, PostClaim, PostGate, MakeReady, JobEnds, JobAbandoned, JobLapses,
   SetPaused, SetIntake

\* Every step keeps the holder of the lease.
LEMMA TickInvInductive ==
    ASSUME TicksFit = TRUE, Typed, TickInv, [Next]_vars
    PROVE  TickInv'
<1>. SUFFICES ASSUME NEW q \in Procs, InTick(q)'
              PROVE  (lease.owner = q /\ lease.time > 0)'
  BY DEF TickInv
<1>0. tick \in [Procs -> TickType]
  BY DEF Typed, TickOK
<1>1. ASSUME NEW p \in Procs, TickStep(p)
      PROVE  (lease.owner = q /\ lease.time > 0)'
  <2>1. CASE TickClaim(p)
    <3>1. CASE p = q
      <4>1. tick'[p].pc # "idle"
        BY <3>1 DEF InTick
      <4>2. ~Goto(p, "idle")
        BY <1>0, <4>1 DEF Goto, TickType
      <4>3. lease' = [owner |-> p, time |-> LeaseTime]
        BY <2>1, <4>2 DEF TickClaim
      <4>4. QED
        BY <3>1, <4>3, ConstantsTyped
    <3>2. CASE p # q
      <4>1. InTick(q)
        BY <1>1, <3>2, OtherTicks DEF InTick
      <4>2. lease.time # 0
        BY <4>1 DEF TickInv
      <4>3. lease' = lease
        BY <2>1, <4>2 DEF TickClaim
      <4>4. QED
        BY <4>1, <4>3 DEF TickInv
    <3>3. QED
      BY <3>1, <3>2
  <2>2. CASE TickComplete(p)
    <3>1. p # q
      BY <1>0, <2>2 DEF TickComplete, InTick, IdleTick
    <3>2. InTick(q)
      BY <1>1, <3>1, OtherTicks DEF InTick
    <3>3. lease.owner = q /\ lease.time > 0
      BY <3>2 DEF TickInv
    <3>4. lease' = lease
      BY <2>2, <3>1, <3>3 DEF TickComplete
    <3>5. QED
      BY <3>3, <3>4
  <2>3. CASE \/ TickPoll(p) \/ TickActive(p) \/ TickExclude(p) \/ TickScan(p) \/ TickGate(p)
             \/ TickEnqueue(p) \/ TickFails(p) \/ TickCompleteFails(p)
    <3>1. lease' = lease
      BY <2>3 DEF TickPoll, TickActive, TickExclude, TickScan, TickGate,
         TickEnqueue, TickFails, TickCompleteFails
    <3>2. InTick(q)
      <4>1. CASE p = q
        <5>1. ~TickPoll(p)
          BY <1>0, <4>1 DEF TickPoll, Goto, InTick, TickType
        <5>2. QED
          BY <2>3, <4>1, <5>1 DEF TickActive, TickExclude, TickScan, TickGate,
             TickEnqueue, TickFails, TickCompleteFails, InTick
      <4>2. CASE p # q
        BY <1>1, <4>2, OtherTicks DEF InTick
      <4>3. QED
        BY <4>1, <4>2
    <3>3. QED
      BY <3>1, <3>2 DEF TickInv
  <2>4. QED
    BY <1>1, <2>1, <2>2, <2>3 DEF TickStep
<1>2. ASSUME NEW p \in Procs, Crash(p)
      PROVE  (lease.owner = q /\ lease.time > 0)'
  <2>1. p # q
    BY <1>0, <1>2 DEF Crash, InTick, IdleTick
  <2>2. InTick(q)
    BY <1>2, <2>1, OtherTicks DEF InTick
  <2>3. lease.owner = q /\ lease.time > 0
    BY <2>2 DEF TickInv
  <2>4. QED
    BY <1>2, <2>1, <2>3 DEF Crash, Typed, LeaseOK
<1>3. CASE Clock
  <2>1. InTick(q)
    BY <1>3 DEF Clock, InTick
  <2>2. lease.owner = q /\ q \in Waiting
    BY <2>1 DEF TickInv, Waiting
  <2>3. lease.time > 1 /\ lease' = [lease EXCEPT !.time = Minus1(@)]
    BY <1>3, <2>2 DEF Clock
  <2>4. lease.time \in Nat
    BY ConstantsTyped DEF Typed, LeaseOK
  <2>5. QED
    BY <2>2, <2>3, <2>4 DEF Minus1, Typed, LeaseOK
<1>4. CASE Next /\ ~(\E p \in Procs : TickStep(p) \/ Crash(p)) /\ ~Clock
  <2>1. UNCHANGED <<tick, lease>>
    BY <1>4, Bystanders
  <2>2. QED
    BY <2>1 DEF InTick, TickInv
<1>5. CASE UNCHANGED vars
  BY <1>5 DEF vars, InTick, TickInv
<1>6. QED
  BY <1>1, <1>2, <1>3, <1>4, <1>5

\* If no tick outlasts its lease, two processes are never in a due tick together.
THEOREM OneTick ==
    ASSUME TicksFit = TRUE
    PROVE  Spec => []OneTickAtATime
<1>1. Init => TickInv
  BY DEF Init, TickInv, InTick, IdleTick
<1>2. Typed /\ TickInv /\ [Next]_vars => Typed' /\ TickInv'
  BY NextTyped, TickInvInductive
<1>3. TickInv => OneTickAtATime
  BY TickInvIsOneTick
<1>4. QED
  BY InitTyped, <1>1, <1>2, <1>3, PTL DEF Spec

-----------------------------------------------------------------------------
(* The cadence: due and since together never fall short of an interval unless *)
(* a tick is under way or was never completed.                                *)

Choosing(p) == tick[p].pc \in {"active", "exclude", "scan", "gate", "enqueue"}

CadenceInv ==
    /\ lease.owner = NoOwner => due + since >= Interval
    /\ \A p \in Procs : Choosing(p) => since = Interval

\* Every step keeps the cadence of claims.
LEMMA CadenceInductive ==
    ASSUME TicksFit = TRUE, Typed, TickInv, CadenceInv, [Next]_vars
    PROVE  CadenceInv'
<1>0. /\ tick \in [Procs -> TickType]
      /\ due \in Nat /\ since \in Nat /\ due <= Interval /\ since <= Interval
  BY ConstantsTyped DEF Typed, TickOK, DueOK
<1>1. ASSUME NEW p \in Procs, TickStep(p) PROVE CadenceInv'
  <2>0. ASSUME NEW q \in Procs, q # p, Choosing(q)' PROVE Choosing(q) /\ InTick(q)
    BY <1>1, <2>0, OtherTicks DEF Choosing, InTick
  <2>1. CASE TickPoll(p)
    <3>1. ~Choosing(p)'
      BY <1>0, <2>1 DEF TickPoll, Goto, Choosing, TickType
    <3>2. UNCHANGED <<due, lease, since>>
      BY <2>1 DEF TickPoll
    <3>3. QED
      BY <2>0, <3>1, <3>2 DEF CadenceInv
  <2>2. CASE TickClaim(p) /\ lease' = [owner |-> p, time |-> LeaseTime]
                          /\ ~paused /\ due = 0 /\ lease.time = 0
    <3>1. lease'.owner # NoOwner
      BY <2>2, ConstantsTyped
    <3>2. since' = Interval
      <4>1. CASE lease.owner = NoOwner
        <5>1. due + since >= Interval
          BY <4>1 DEF CadenceInv
        <5>2. since = Interval
          BY <1>0, <2>2, <5>1, ConstantsTyped
        <5>3. QED
          BY <2>2, <4>1, <5>2 DEF TickClaim
      <4>2. CASE lease.owner # NoOwner
        BY <2>2, <4>2 DEF TickClaim
      <4>3. QED
        BY <4>1, <4>2
    <3>3. QED
      BY <3>1, <3>2 DEF CadenceInv
  <2>3. CASE TickClaim(p) /\ ~(~paused /\ due = 0 /\ lease.time = 0)
    <3>1. Goto(p, "idle") /\ UNCHANGED <<due, lease, since>>
      BY <2>3 DEF TickClaim
    <3>2. ~Choosing(p)'
      BY <1>0, <3>1 DEF Goto, Choosing, TickType
    <3>3. QED
      BY <2>0, <3>1, <3>2 DEF CadenceInv
  <2>4. CASE \/ TickActive(p) \/ TickExclude(p) \/ TickScan(p) \/ TickGate(p) \/ TickFails(p)
    <3>1. Choosing(p) /\ UNCHANGED <<due, lease, since>>
      BY <2>4 DEF TickActive, TickExclude, TickScan, TickGate, TickFails, Choosing
    <3>2. QED
      BY <2>0, <3>1 DEF CadenceInv
  <2>5. CASE TickEnqueue(p)
    <3>1. InTick(p)
      BY <2>5 DEF TickEnqueue, InTick
    <3>2. lease' = lease /\ due' = due /\ lease.owner = p
      BY <2>5, <3>1 DEF TickEnqueue, TickInv
    <3>3. ~Choosing(p)'
      BY <1>0, <2>5 DEF TickEnqueue, Goto, Choosing, TickType
    <3>4. ASSUME NEW q \in Procs PROVE ~Choosing(q)'
      BY <2>0, <3>2, <3>3 DEF TickInv
    <3>5. QED
      BY <3>2, <3>4, ConstantsTyped DEF CadenceInv
  <2>6. CASE TickComplete(p)
    <3>1. InTick(p) /\ lease.owner = p
      BY <2>6 DEF TickComplete, InTick, TickInv
    <3>2. due' = Interval /\ since' = since
      BY <2>6, <3>1 DEF TickComplete
    <3>3. ~Choosing(p)'
      BY <1>0, <2>6 DEF TickComplete, IdleTick, Choosing
    <3>4. QED
      BY <1>0, <2>0, <3>2, <3>3, ConstantsTyped DEF CadenceInv
  <2>7. CASE TickCompleteFails(p)
    <3>1. ~Choosing(p)'
      BY <1>0, <2>7 DEF TickCompleteFails, IdleTick, Choosing
    <3>2. UNCHANGED <<due, lease, since>>
      BY <2>7 DEF TickCompleteFails
    <3>3. QED
      BY <2>0, <3>1, <3>2 DEF CadenceInv
  <2>8. TickClaim(p) => \/ ~(~paused /\ due = 0 /\ lease.time = 0)
                        \/ lease' = [owner |-> p, time |-> LeaseTime]
    BY DEF TickClaim
  <2>9. QED
    BY <1>1, <2>1, <2>2, <2>3, <2>4, <2>5, <2>6, <2>7, <2>8 DEF TickStep
<1>2. ASSUME NEW p \in Procs, Crash(p) PROVE CadenceInv'
  <2>1. lease'.owner = NoOwner => lease.owner = NoOwner
    BY <1>2, ConstantsTyped DEF Crash, Typed, LeaseOK
  <2>2. \A q \in Procs : Choosing(q)' => Choosing(q)
    BY <1>0, <1>2 DEF Crash, Choosing, IdleTick
  <2>3. UNCHANGED <<due, since>>
    BY <1>2 DEF Crash
  <2>4. QED
    BY <2>1, <2>2, <2>3 DEF CadenceInv
<1>3. CASE Clock
  <2>1. lease'.owner = lease.owner /\ tick' = tick
    BY <1>3 DEF Clock, Typed, LeaseOK
  <2>2. due + since >= Interval => due' + since' >= Interval
    BY <1>0, <1>3, ConstantsTyped DEF Clock, Minus1
  <2>3. since = Interval => since' = Interval
    BY <1>3, ConstantsTyped DEF Clock
  <2>4. QED
    BY <2>1, <2>2, <2>3 DEF CadenceInv, Choosing
<1>4. CASE Next /\ ~(\E p \in Procs : TickStep(p) \/ Crash(p)) /\ ~Clock
  <2>1. UNCHANGED <<tick, lease, since>> /\ UNCHANGED due
    BY <1>4, Bystanders
  <2>2. QED
    BY <2>1 DEF CadenceInv, Choosing
<1>5. CASE UNCHANGED vars
  BY <1>5 DEF vars, CadenceInv, Choosing
<1>6. QED
  BY <1>1, <1>2, <1>3, <1>4, <1>5

\* If no tick outlasts its lease, two scheduled claims are an interval apart,
\* whatever is paused, resumed, refused or failing between them.
THEOREM CadenceKept ==
    ASSUME TicksFit = TRUE
    PROVE  Spec => Cadence
<1>1. Init => TickInv /\ CadenceInv
  BY ConstantsTyped DEF Init, TickInv, InTick, IdleTick, CadenceInv, Choosing
<1>2. Typed /\ TickInv /\ CadenceInv /\ [Next]_vars => Typed' /\ TickInv' /\ CadenceInv'
  BY NextTyped, TickInvInductive, CadenceInductive
<1>3. CadenceInv /\ [Next]_vars =>
        [\A p \in Procs, r \in Runs : TicksFit /\ Schedules(p, r) => since = Interval]_vars
  BY DEF CadenceInv, Choosing, Schedules
<1>4. QED
  BY InitTyped, <1>1, <1>2, <1>3, PTL DEF Spec, Cadence

-----------------------------------------------------------------------------
(* One scheduled job: a tick that found no active job finds none of its own   *)
(* until it claims one, because nobody else schedules meanwhile.              *)

Found(p) == tick[p].pc \in {"exclude", "scan", "gate", "enqueue"}

Scheduled(r) == r \in byTick /\ ActivelyLeased(rows[r])

JobInv ==
    /\ \A r, s \in Runs : Scheduled(r) /\ Scheduled(s) => r = s
    /\ \A p \in Procs : Found(p) => \A r \in Runs : ~Scheduled(r)

\* A step that makes no run scheduled and takes no tick past its check.
LEMMA JobInvKept ==
    ASSUME JobInv,
           \A r \in Runs : Scheduled(r)' => Scheduled(r),
           \A p \in Procs : Found(p)' => Found(p)
    PROVE  JobInv'
BY DEF JobInv

\* Every step keeps the one scheduled job.
LEMMA JobInvInductive ==
    ASSUME TicksFit = TRUE, Typed, TickInv, JobInv, [Next]_vars
    PROVE  JobInv'
<1>0. tick \in [Procs -> TickType] /\ rows \in [Runs -> Row] /\ byTick \subseteq Runs
  BY DEF Typed, TickOK, RowsOK
<1>1. ASSUME NEW p \in Procs, TickStep(p) PROVE JobInv'
  <2>0. ASSUME NEW q \in Procs, q # p, Found(q)' PROVE Found(q) /\ InTick(q)
    BY <1>1, <2>0, OtherTicks DEF Found, InTick
  <2>1. CASE TickActive(p)
    <3>1. UNCHANGED <<rows, byTick>>
      BY <2>1 DEF TickActive, jobs
    <3>2. CASE \E r \in Runs : ActivelyLeased(rows[r])
      <4>1. ~Found(p)'
        BY <1>0, <2>1, <3>2 DEF TickActive, Goto, Found, TickType
      <4>2. QED
        BY <2>0, <3>1, <4>1, JobInvKept DEF Scheduled
    <3>3. CASE ~\E r \in Runs : ActivelyLeased(rows[r])
      BY <3>1, <3>3 DEF JobInv, Scheduled
    <3>4. QED
      BY <3>2, <3>3
  <2>2. CASE TickEnqueue(p)
    <3>1. InTick(p) /\ Found(p)
      BY <2>2 DEF TickEnqueue, InTick, Found
    <3>2. ~Found(p)'
      BY <1>0, <2>2 DEF TickEnqueue, Goto, Found, TickType
    <3>3. ASSUME NEW q \in Procs PROVE ~Found(q)'
      BY <2>0, <3>1, <3>2 DEF TickInv
    <3>4. PICK r \in tick[p].run : ClaimJob(p, r, FALSE) \/ UNCHANGED jobs
      BY <2>2 DEF TickEnqueue
    <3>5. ASSUME NEW s \in Runs, s # r PROVE ~Scheduled(s)'
      <4>1. ~Scheduled(s)
        BY <3>1 DEF JobInv
      <4>2. CASE UNCHANGED jobs
        BY <4>1, <4>2 DEF jobs, Scheduled
      <4>3. CASE ClaimJob(p, r, FALSE)
        <5>1. rows'[s] = rows[s] /\ byTick' = byTick \cup {r}
          BY <1>0, <3>5, <4>3 DEF ClaimJob
        <5>2. QED
          BY <3>5, <4>1, <5>1 DEF Scheduled
      <4>4. QED
        BY <3>4, <4>2, <4>3
    <3>6. QED
      BY <3>3, <3>5 DEF JobInv
  <2>3. CASE \/ TickPoll(p) \/ TickClaim(p) \/ TickExclude(p) \/ TickScan(p) \/ TickGate(p)
             \/ TickFails(p) \/ TickComplete(p) \/ TickCompleteFails(p)
    <3>1. UNCHANGED <<rows, byTick>>
      BY <2>3 DEF TickPoll, TickClaim, TickExclude, TickScan, TickGate, TickFails,
         TickComplete, TickCompleteFails, jobs
    <3>2. Found(p)' => Found(p)
      <4>1. CASE TickPoll(p) \/ TickClaim(p) \/ TickFails(p)
        BY <1>0, <4>1 DEF TickPoll, TickClaim, TickFails, Goto, Found, TickType
      <4>2. CASE TickExclude(p) \/ TickScan(p) \/ TickGate(p)
        BY <4>2 DEF TickExclude, TickScan, TickGate, Found
      <4>3. CASE TickComplete(p) \/ TickCompleteFails(p)
        BY <1>0, <4>3 DEF TickComplete, TickCompleteFails, IdleTick, Found
      <4>4. QED
        BY <2>3, <4>1, <4>2, <4>3
    <3>3. \A q \in Procs : Found(q)' => Found(q)
      BY <2>0, <3>2
    <3>4. \A r \in Runs : Scheduled(r)' => Scheduled(r)
      BY <3>1 DEF Scheduled
    <3>5. QED
      BY <3>3, <3>4, JobInvKept
  <2>4. QED
    BY <1>1, <2>1, <2>2, <2>3 DEF TickStep
<1>2. ASSUME NEW p \in Procs, PostClaim(p) PROVE JobInv'
  <2>1. tick' = tick
    BY <1>2 DEF PostClaim
  <2>2. PICK q \in post[p] : ClaimJob(p, q, TRUE) \/ UNCHANGED jobs
    BY <1>2 DEF PostClaim
  <2>3. ASSUME NEW r \in Runs, Scheduled(r)' PROVE Scheduled(r)
    <3>1. CASE UNCHANGED jobs
      BY <2>3, <3>1 DEF jobs, Scheduled
    <3>2. CASE ClaimJob(p, q, TRUE)
      <4>1. r # q /\ r \in byTick
        BY <2>3, <3>2 DEF ClaimJob, Scheduled
      <4>2. rows'[r] = rows[r]
        BY <1>0, <3>2, <4>1 DEF ClaimJob
      <4>3. QED
        BY <2>3, <4>1, <4>2 DEF Scheduled
    <3>3. QED
      BY <2>2, <3>1, <3>2
  <2>4. QED
    BY <2>1, <2>3, JobInvKept DEF Found
<1>3. ASSUME NEW p \in Procs, Crash(p) PROVE JobInv'
  <2>1. \A q \in Procs : Found(q)' => Found(q)
    BY <1>0, <1>3 DEF Crash, Found, IdleTick
  <2>2. \A r \in Runs : rows'[r].state = rows[r].state /\ rows'[r].live = rows[r].live
    BY <1>0, <1>3 DEF Crash, Row
  <2>3. \A r \in Runs : Scheduled(r)' => Scheduled(r)
    BY <1>3, <2>2 DEF Crash, Scheduled, ActivelyLeased, IsActive
  <2>4. QED
    BY <2>1, <2>3, JobInvKept
<1>4. ASSUME NEW q \in Runs, JobEnds(q) \/ JobAbandoned(q) \/ JobLapses(q)
      PROVE  JobInv'
  <2>1. tick' = tick /\ byTick' = byTick
    BY <1>4 DEF JobEnds, JobAbandoned, JobLapses
  <2>2. rows'[q].live = FALSE
    BY <1>0, <1>4 DEF JobEnds, JobAbandoned, JobLapses, Lapsed, Row
  <2>3. \A r \in Runs : r # q => rows'[r] = rows[r]
    BY <1>0, <1>4 DEF JobEnds, JobAbandoned, JobLapses
  <2>4. \A r \in Runs : Scheduled(r)' => Scheduled(r)
    BY <2>1, <2>2, <2>3 DEF Scheduled, ActivelyLeased
  <2>5. QED
    BY <2>1, <2>4, JobInvKept DEF Found
<1>5. CASE \/ \E p \in Procs, r \in Runs : PostGate(p, r)
           \/ \E r \in Runs : MakeReady(r)
           \/ SetPaused \/ SetIntake \/ Clock \/ UNCHANGED vars
  <2>1. UNCHANGED <<tick, rows, byTick>>
    BY <1>5 DEF PostGate, MakeReady, SetPaused, SetIntake, Clock, vars, jobs
  <2>2. QED
    BY <2>1, JobInvKept DEF Found, Scheduled
<1>6. QED
  BY <1>1, <1>2, <1>3, <1>4, <1>5 DEF Next

\* If no tick outlasts its lease, the scheduler never has two jobs of its own
\* under live leases, whatever is posted by hand.
THEOREM OneJob ==
    ASSUME TicksFit = TRUE
    PROVE  Spec => []OneScheduledJob
<1>1. Init => TickInv /\ JobInv
  BY DEF Init, TickInv, InTick, IdleTick, JobInv, Found, Scheduled
<1>2. Typed /\ TickInv /\ JobInv /\ [Next]_vars => Typed' /\ TickInv' /\ JobInv'
  BY NextTyped, TickInvInductive, JobInvInductive
<1>3. Typed /\ JobInv => OneScheduledJob
  BY DEF Typed, RowsOK, JobInv, Scheduled, OneScheduledJob
<1>4. QED
  BY InitTyped, <1>1, <1>2, <1>3, PTL DEF Spec

-----------------------------------------------------------------------------
(* What the scheduler may choose: a run that was never indexed to its end, in  *)
(* the order in which the runs became ready.  Neither needs the ticks to be    *)
(* alone.                                                                      *)

\* What a step does to a job row: it never goes away, and only a scheduled claim
\* that the filter let through adds an attempt to a run marked as scheduled.
LEMMA JobsMove ==
    ASSUME Typed, [Next]_vars, NEW r \in Runs
    PROVE  /\ rows[r].state # "absent" => rows'[r].state # "absent"
           /\ rows'[r].attempt > rows[r].attempt /\ r \in byTick' =>
                 \E q \in Procs : /\ tick[q].pc = "enqueue" /\ r \in tick[q].run
                                  /\ Claimable(rows[r], FALSE)
<1>0. /\ rows \in [Runs -> Row] /\ tick \in [Procs -> TickType]
      /\ post \in [Procs -> SUBSET Runs] /\ rows[r] \in Row
      /\ rows[r].attempt \in Nat
  BY DEF Typed, RowsOK, TickOK, PostOK, Row
<1>1. ASSUME NEW p \in Procs, NEW x \in Runs, NEW force \in BOOLEAN, ClaimJob(p, x, force)
      PROVE  /\ rows'[r] = rows[r] \/ (r = x /\ rows'[r] = Claimed(rows[r], p))
             /\ Claimable(rows[x], force)
             /\ force => x \notin byTick'
  BY <1>0, <1>1 DEF ClaimJob
<1>2. \A p \in Procs : Claimed(rows[r], p).state = "pending"
  BY <1>0 DEF Claimed, Row
<1>a. rows'[r].attempt = rows[r].attempt => ~(rows'[r].attempt > rows[r].attempt)
  BY <1>0
<1>3. CASE rows'[r] = rows[r]
  BY <1>a, <1>3
<1>4. ASSUME NEW p \in Procs, TickStep(p), rows' # rows
      PROVE  \E x \in tick[p].run : tick[p].pc = "enqueue" /\ ClaimJob(p, x, FALSE)
  BY <1>4 DEF TickStep, TickPoll, TickClaim, TickActive, TickExclude, TickScan, TickGate,
     TickEnqueue, TickFails, TickComplete, TickCompleteFails, jobs
<1>5. CASE \E p \in Procs : TickStep(p)
  <2>1. PICK p \in Procs : TickStep(p)
    BY <1>5
  <2>2. CASE rows' # rows
    <3>1. PICK x \in tick[p].run : tick[p].pc = "enqueue" /\ ClaimJob(p, x, FALSE)
      BY <1>4, <2>1, <2>2
    <3>2. x \in Runs
      BY <1>0, <3>1 DEF TickType
    <3>3. /\ rows'[r] = rows[r] \/ (r = x /\ rows'[r] = Claimed(rows[r], p))
          /\ Claimable(rows[x], FALSE)
      BY <1>1, <3>1, <3>2
    <3>. QED
      BY <1>2, <1>3, <3>1, <3>3
  <2>. QED
    BY <1>3, <2>2
<1>6. CASE \E p \in Procs : PostClaim(p)
  <2>1. PICK p \in Procs : PostClaim(p)
    BY <1>6
  <2>2. PICK x \in post[p] : ClaimJob(p, x, TRUE) \/ UNCHANGED jobs
    BY <2>1 DEF PostClaim
  <2>3. CASE ClaimJob(p, x, TRUE)
    <3>1. x \in Runs
      BY <1>0, <2>2
    <3>2. /\ rows'[r] = rows[r] \/ (r = x /\ rows'[r] = Claimed(rows[r], p))
          /\ x \notin byTick'
      BY <1>1, <2>3, <3>1
    <3>. QED
      BY <1>2, <1>3, <3>2
  <2>. QED
    BY <1>3, <2>2, <2>3 DEF jobs
<1>7. CASE \/ \E p \in Procs : Crash(p)
           \/ \E x \in Runs : JobEnds(x) \/ JobAbandoned(x) \/ JobLapses(x)
  <2>1. ASSUME NEW p \in Procs, Crash(p)
        PROVE  rows'[r].attempt = rows[r].attempt /\ rows'[r].state = rows[r].state
    BY <1>0, <2>1 DEF Crash, Row
  <2>2. ASSUME NEW x \in Runs, JobEnds(x) \/ JobAbandoned(x) \/ JobLapses(x)
        PROVE  /\ rows'[r].attempt = rows[r].attempt
               /\ rows'[r].state \in {rows[r].state, "complete", "failed"}
    <3>1. CASE r # x
      BY <1>0, <2>2, <3>1 DEF JobEnds, JobAbandoned, JobLapses
    <3>2. CASE r = x
      BY <1>0, <2>2, <3>2 DEF JobEnds, JobAbandoned, JobLapses, Lapsed, Row
    <3>. QED
      BY <3>1, <3>2
  <2>. QED
    BY <1>a, <1>7, <2>1, <2>2
<1>8. CASE \/ \E p \in Procs, x \in Runs : PostGate(p, x)
           \/ \E x \in Runs : MakeReady(x)
           \/ SetPaused \/ SetIntake \/ Clock \/ UNCHANGED vars
  BY <1>3, <1>8 DEF PostGate, MakeReady, SetPaused, SetIntake, Clock, vars, jobs
<1>. QED
  BY <1>5, <1>6, <1>7, <1>8 DEF Next

\* A scheduled claim is not forced, so its filter refuses a run that finished
\* between the scan and the claim, whoever indexed it and whoever's tick claims.
THEOREM FinishedStaysFinished == Spec => NeverReruns
<1>1. ASSUME Typed, [Next]_vars, NEW p \in Procs, NEW r \in Runs, Schedules(p, r)
      PROVE  ~IsTerminal(rows[r])
  <2>1. Claimable(rows[r], FALSE)
    BY <1>1, JobsMove DEF Schedules
  <2>. QED
    BY <2>1 DEF Claimable, IsTerminal, IsActive, Active, Terminal
<1>2. Typed /\ [Next]_vars =>
        [\A p \in Procs, r \in Runs : Schedules(p, r) => ~IsTerminal(rows[r])]_vars
  BY <1>1
<1>. QED
  BY InitTyped, NextTyped, <1>2, PTL DEF Spec, NeverReruns

\* The tick's choice: what it excludes has a row, and so has every run that was
\* ready before the one it took.
OrderInv ==
    /\ \A i, j \in 1..Len(ready) : ready[i] = ready[j] => i = j
    /\ \A p \in Procs : tick[p].pc = "scan" =>
           \A r \in tick[p].not : rows[r].state # "absent"
    /\ \A p \in Procs : tick[p].pc \in {"gate", "enqueue"} =>
           \A r \in tick[p].run : \E i \in 1..Len(ready) :
               /\ ready[i] = r
               /\ \A j \in 1..(i - 1) : rows[ready[j]].state # "absent"

\* Steps that leave a tick where it was, or end it.
LEMMA OrderKept ==
    ASSUME Typed, OrderInv, [Next]_vars, UNCHANGED ready,
           \A p \in Procs : \/ tick'[p] = tick[p]
                            \/ tick'[p].pc \notin {"scan", "gate", "enqueue"}
    PROVE  OrderInv'
<1>0. ready \in Seq(Runs) /\ tick \in [Procs -> TickType]
  BY DEF Typed, ReadyOK, TickOK
<1>1. \A i \in 1..Len(ready) : ready[i] \in Runs
  BY <1>0
<1>2. \A r \in Runs : rows[r].state # "absent" => rows'[r].state # "absent"
  BY JobsMove
<1>3. ASSUME NEW p \in Procs, tick'[p].pc = "scan", NEW r \in tick'[p].not
      PROVE  rows'[r].state # "absent"
  BY <1>0, <1>2, <1>3 DEF OrderInv, TickType
<1>4. ASSUME NEW p \in Procs, tick'[p].pc \in {"gate", "enqueue"}, NEW r \in tick'[p].run
      PROVE  \E i \in 1..Len(ready) : /\ ready[i] = r
                                      /\ \A j \in 1..(i - 1) : rows'[ready[j]].state # "absent"
  <2>1. tick'[p] = tick[p]
    BY <1>4
  <2>2. PICK i \in 1..Len(ready) : /\ ready[i] = r
                                   /\ \A j \in 1..(i - 1) : rows[ready[j]].state # "absent"
    BY <1>4, <2>1 DEF OrderInv
  <2>3. \A j \in 1..(i - 1) : ready[j] \in Runs
    BY <1>0, <1>1
  <2>. QED
    BY <1>2, <2>2, <2>3
<1>. QED
  BY <1>3, <1>4 DEF OrderInv

\* Every step keeps the order of the choice.
LEMMA OrderInductive ==
    ASSUME Typed, OrderInv, [Next]_vars
    PROVE  OrderInv'
<1>0. /\ tick \in [Procs -> TickType] /\ ready \in Seq(Runs)
      /\ \A i \in 1..Len(ready) : ready[i] \in Runs
  BY DEF Typed, TickOK, ReadyOK
<1>1. \A r \in Runs : rows[r].state # "absent" => rows'[r].state # "absent"
  BY JobsMove
<1>2. ASSUME NEW p \in Procs, TickStep(p) PROVE OrderInv'
  <2>1. UNCHANGED ready
    BY <1>2 DEF TickStep, TickPoll, TickClaim, TickActive, TickExclude, TickScan, TickGate,
       TickEnqueue, TickFails, TickComplete, TickCompleteFails
  <2>2. \A q \in Procs \ {p} : tick'[q] = tick[q]
    BY <1>2, OtherTicks
  <2>3. CASE tick'[p].pc \notin {"scan", "gate", "enqueue"}
    BY <2>1, <2>2, <2>3, OrderKept
  <2>4. CASE tick'[p].pc \in {"scan", "gate", "enqueue"}
    <3>1. /\ TickPoll(p) => tick'[p].pc = "claim"
          /\ TickClaim(p) => tick'[p].pc \in {"active", "idle"}
          /\ TickActive(p) => tick'[p].pc \in {"complete", "exclude"}
          /\ TickEnqueue(p) \/ TickFails(p) => tick'[p].pc = "complete"
          /\ TickComplete(p) \/ TickCompleteFails(p) => tick'[p].pc = "idle"
      <4>1. \A pc \in TickPcs : Goto(p, pc) => tick'[p].pc = pc
        BY <1>0 DEF Goto, TickType
      <4>2. tick' = [tick EXCEPT ![p] = IdleTick] => tick'[p].pc = "idle"
        BY <1>0 DEF IdleTick
      <4>3. /\ TickPoll(p) => Goto(p, "claim")
            /\ TickClaim(p) => Goto(p, "active") \/ Goto(p, "idle")
            /\ TickActive(p) => Goto(p, "complete") \/ Goto(p, "exclude")
            /\ TickEnqueue(p) \/ TickFails(p) => Goto(p, "complete")
            /\ TickComplete(p) \/ TickCompleteFails(p) => tick' = [tick EXCEPT ![p] = IdleTick]
        BY DEF TickPoll, TickClaim, TickActive, TickEnqueue, TickFails, TickComplete,
           TickCompleteFails
      <4>. QED
        BY <4>1, <4>2, <4>3 DEF TickPcs
    <3>2. TickExclude(p) \/ TickScan(p) \/ TickGate(p)
      BY <1>2, <2>4, <3>1 DEF TickStep
    <3>3. UNCHANGED rows
      BY <3>2 DEF TickExclude, TickScan, TickGate, jobs
    <3>4. ASSUME NEW r \in tick'[p].not, tick'[p].pc = "scan" PROVE rows[r].state # "absent"
      <4>1. ~TickScan(p) /\ ~TickGate(p)
        BY <1>0, <3>4 DEF TickScan, TickGate, Goto, TickType
      <4>2. tick'[p].not = {x \in Runs : Excluded(rows[x], MaxAttempts)}
        BY <1>0, <3>2, <4>1 DEF TickExclude, TickType
      <4>. QED
        BY <3>4, <4>2 DEF Excluded
    <3>5. ASSUME NEW r \in tick'[p].run, tick'[p].pc \in {"gate", "enqueue"}
          PROVE  \E i \in 1..Len(ready) : /\ ready[i] = r
                                          /\ \A j \in 1..(i - 1) : rows[ready[j]].state # "absent"
      <4>1. CASE TickExclude(p)
        <5>1. tick'[p].pc = "scan"
          BY <1>0, <4>1 DEF TickExclude, TickType
        <5>. QED
          BY <3>5, <5>1
      <4>2. CASE TickScan(p)
        <5>1. ~Goto(p, "complete")
          BY <1>0, <3>5 DEF Goto, TickType
        <5>2. PICK i \in 1..Len(ready) :
                 /\ \A j \in 1..(i - 1) : ready[j] \in tick[p].not
                 /\ tick' = [tick EXCEPT ![p].pc = "gate", ![p].run = {ready[i]}]
          BY <4>2, <5>1 DEF TickScan
        <5>3. tick'[p].run = {ready[i]}
          BY <1>0, <5>2 DEF TickType
        <5>4. tick[p].pc = "scan"
          BY <4>2 DEF TickScan
        <5>. QED
          BY <3>5, <5>2, <5>3, <5>4 DEF OrderInv
      <4>3. CASE TickGate(p)
        <5>1. tick'[p].run = tick[p].run /\ tick[p].pc = "gate"
          BY <1>0, <4>3 DEF TickGate, Goto, TickType
        <5>. QED
          BY <3>5, <5>1 DEF OrderInv
      <4>. QED
        BY <3>2, <4>1, <4>2, <4>3
    <3>. QED
      BY <2>1, <2>2, <3>3, <3>4, <3>5 DEF OrderInv
  <2>. QED
    BY <2>3, <2>4
<1>3. ASSUME NEW p \in Procs, Crash(p) PROVE OrderInv'
  <2>1. UNCHANGED ready /\ tick'[p].pc = "idle" /\ \A q \in Procs \ {p} : tick'[q] = tick[q]
    BY <1>0, <1>3 DEF Crash, IdleTick
  <2>. QED
    BY <2>1, OrderKept
<1>4. ASSUME NEW r \in Runs, MakeReady(r) PROVE OrderInv'
  <2>1. /\ r \notin Ready /\ ready' = Append(ready, r) /\ UNCHANGED <<tick, rows>>
    BY <1>4 DEF MakeReady, jobs
  <2>2. /\ Len(ready) \in Nat /\ Len(ready') = Len(ready) + 1
        /\ ready'[Len(ready) + 1] = r
        /\ \A i \in 1..Len(ready) : ready'[i] = ready[i] /\ ready[i] # r
    BY <1>0, <2>1 DEF Ready
  <2>3. ASSUME NEW i \in 1..Len(ready'), NEW j \in 1..Len(ready'), ready'[i] = ready'[j]
        PROVE  i = j
    <3>1. (i \in 1..Len(ready) \/ i = Len(ready) + 1) /\ (j \in 1..Len(ready) \/ j = Len(ready) + 1)
      BY <2>2
    <3>. QED
      BY <2>2, <2>3, <3>1 DEF OrderInv
  <2>4. ASSUME NEW p \in Procs, tick[p].pc \in {"gate", "enqueue"}, NEW x \in tick[p].run
        PROVE  \E i \in 1..Len(ready') : /\ ready'[i] = x
                                         /\ \A j \in 1..(i - 1) : rows[ready'[j]].state # "absent"
    <3>1. PICK i \in 1..Len(ready) : /\ ready[i] = x
                                     /\ \A j \in 1..(i - 1) : rows[ready[j]].state # "absent"
      BY <2>4 DEF OrderInv
    <3>2. i \in 1..Len(ready') /\ \A j \in 1..(i - 1) : j \in 1..Len(ready)
      BY <2>2
    <3>. QED
      BY <2>2, <3>1, <3>2
  <2>. QED
    BY <2>1, <2>3, <2>4 DEF OrderInv
<1>5. CASE \/ \E p \in Procs : PostClaim(p) \/ \E r \in Runs : PostGate(p, r)
           \/ \E r \in Runs : JobEnds(r) \/ JobAbandoned(r) \/ JobLapses(r)
           \/ SetPaused \/ SetIntake \/ Clock \/ UNCHANGED vars
  <2>1. UNCHANGED <<tick, ready>>
    BY <1>5 DEF PostClaim, PostGate, JobEnds, JobAbandoned, JobLapses, SetPaused, SetIntake,
       Clock, vars
  <2>. QED
    BY <2>1, OrderKept
<1>. QED
  BY <1>2, <1>3, <1>4, <1>5 DEF Next

\* The run a tick schedules has none before it in the order of readiness that
\* never had a job, though rows are claimed and finished between the scan that
\* chose it and its claim: a row, once there, stays.
THEOREM OldestGoesFirst == Spec => OldestFirst
<1>1. ASSUME Typed, OrderInv, [Next]_vars, NEW p \in Procs,
             NEW i \in 1..Len(ready), NEW j \in 1..Len(ready), j < i, Schedules(p, ready[i])
      PROVE  rows[ready[j]].state # "absent"
  <2>0. ready \in Seq(Runs) /\ ready[i] \in Runs
    BY <1>1 DEF Typed, ReadyOK
  <2>1. PICK q \in Procs : tick[q].pc = "enqueue" /\ ready[i] \in tick[q].run
    BY <1>1, <2>0, JobsMove DEF Schedules
  <2>2. PICK n \in 1..Len(ready) : /\ ready[n] = ready[i]
                                   /\ \A m \in 1..(n - 1) : rows[ready[m]].state # "absent"
    BY <1>1, <2>1 DEF OrderInv
  <2>3. n = i
    BY <1>1, <2>2 DEF OrderInv
  <2>4. j \in 1..(n - 1)
    BY <1>1, <2>0, <2>3
  <2>. QED
    BY <2>2, <2>4
<1>2. Typed /\ OrderInv /\ [Next]_vars =>
        [\A i, j \in 1..Len(ready) : \A p \in Procs :
            j < i /\ Schedules(p, ready[i]) => rows[ready[j]].state # "absent"]_vars
  BY <1>1
<1>3. Init => OrderInv
  BY DEF Init, OrderInv, IdleTick
<1>4. Typed /\ OrderInv /\ [Next]_vars => Typed' /\ OrderInv'
  BY NextTyped, OrderInductive
<1>. QED
  BY InitTyped, <1>2, <1>3, <1>4, PTL DEF Spec, OldestFirst
=============================================================================
