------------------------ MODULE CorpusCleanup_proofs ------------------------
(***************************************************************************)
(* What the scripts that delete crawl data leave behind, for every corpus, *)
(* every command line and however often they die and are run again, beside *)
(* a service that goes on indexing.                                        *)
(***************************************************************************)
EXTENDS CorpusCleanup, FiniteSetTheorems, TLAPS

\* No point is left of p, unless the indexer would read p again.
Unquotable(p) == Classify(kind[p]) # "usable" => p \notin points

\* What an index job holds passed the classifier.
HeldIsUsable ==
    /\ held = [r \in Runs |-> held[r]]
    /\ \A r \in Runs : \A p \in held[r] : Classify(kind[p]) = "usable"

\* The batch of a cleanup loses its points, then its links, then its rows.
BatchInOrder ==
    /\ pc \in {"purge", "rows"} => \A p \in batch \ unpurged : Unquotable(p)
    /\ pc = "rows" => /\ unpurged = {}
                      /\ Cleaning /\ script.links => batch \cap links = {}

CleanedIsGone == \A p \in cleaned : Unquotable(p)

PurgeSteps == {"check", "jobs", "purge_links", "purge_pages", "purge_runs"}

\* A purge has taken the links of the doomed runs, and then their pages.
PurgeInOrder ==
    /\ pc \in PurgeSteps => ~Cleaning
    /\ pc \in {"purge_pages", "purge_runs"} => \A p \in links : ~Doomed(p)
    /\ pc = "purge_runs" => \A p \in rows : ~Doomed(p)

\* Rows and links name a run that is there.
RunsAreThere == \A p \in rows \cup links : RunOf[p] \in runs

IInv == HeldIsUsable /\ BatchInOrder /\ CleanedIsGone /\ PurgeInOrder /\ RunsAreThere


-----------------------------------------------------------------------------
\* The invariant holds at the start.
LEMMA InitHolds == Init => IInv
BY CommandsAssumption
   DEF Init, IInv, HeldIsUsable, BatchInOrder, CleanedIsGone, PurgeInOrder, PurgeSteps,
       RunsAreThere, Cleaning, NoScript

\* The steps that choose what comes next and delete nothing.
LEMMA PlanKeeps ==
    ASSUME IInv, UNCHANGED <<kind, corpus, worker, cleaned>>,
           pc' \notin {"rows", "purge_links", "purge_pages", "purge_runs"},
           pc' = "purge" => unpurged' = batch',
           pc' \in PurgeSteps => ~Cleaning'
    PROVE  IInv'
BY DEF IInv, HeldIsUsable, BatchInOrder, CleanedIsGone, PurgeInOrder, RunsAreThere,
       corpus, worker, Unquotable

\* The steps of the script keep it.
LEMMA CleanupKeeps ==
    ASSUME IInv,
           \/ \E c \in Cleanups : GiveCleanup(c)
           \/ CountFast \/ FindBatch \/ NextStep \/ OpenScan \/ FlushPending \/ EndScan
           \/ \E p \in Pages : ScanPage(p)
           \/ ScriptEnds
    PROVE  IInv'
<1>. USE DEF cursor, noted, PurgeSteps
<1>1. ASSUME NEW c \in Cleanups, GiveCleanup(c) PROVE IInv'
  BY <1>1, PlanKeeps DEF GiveCleanup
<1>2. CASE CountFast \/ FindBatch \/ NextStep \/ OpenScan \/ EndScan \/ ScriptEnds
  BY <1>2, PlanKeeps DEF CountFast, FindBatch, NextStep, OpenScan, EndScan, ScriptEnds
<1>3. CASE FlushPending
  BY <1>3, PlanKeeps DEF FlushPending
<1>4. ASSUME NEW p \in Pages, ScanPage(p) PROVE IInv'
  BY <1>4, PlanKeeps DEF ScanPage
<1>. QED
  BY <1>1, <1>2, <1>3, <1>4

\* So do the steps of a DELETE.
LEMMA DeleteKeeps ==
    ASSUME IInv, (\E p \in Pages : PurgeVectors(p)) \/ DeleteLinks \/ DeleteRows
    PROVE  IInv'
<1>. USE DEF IInv, HeldIsUsable, BatchInOrder, CleanedIsGone, PurgeInOrder, PurgeSteps,
             RunsAreThere, Unquotable, Cleaning, worker, cursor, noted, Doomed
<1>1. ASSUME NEW p \in Pages, PurgeVectors(p) PROVE IInv'
  BY <1>1 DEF PurgeVectors
<1>2. CASE DeleteLinks
  BY <1>2 DEF DeleteLinks, AllArePurged
<1>3. CASE DeleteRows
  <2>1. pc = "rows" /\ pc' \in {"fast", "scan"}
    BY <1>3 DEF DeleteRows
  <2>. QED
    BY <1>3, <2>1 DEF DeleteRows
<1>. QED
  BY <1>1, <1>2, <1>3

\* So do the steps of a purge.
LEMMA PurgeKeeps ==
    ASSUME IInv,
           \/ \E c \in Purges : GivePurge(c)
           \/ CheckJobs \/ PurgeJobs \/ PurgeLinks \/ PurgePages \/ PurgeRuns
    PROVE  IInv'
<1>. USE DEF cursor, noted, PurgeSteps
<1>1. ASSUME NEW c \in Purges, GivePurge(c) PROVE IInv'
  BY <1>1, PlanKeeps DEF GivePurge, Purges, Cleaning
<1>2. CASE CheckJobs
  BY <1>2, PlanKeeps DEF CheckJobs, IInv, PurgeInOrder, Cleaning
<1>. USE DEF IInv, HeldIsUsable, BatchInOrder, CleanedIsGone, PurgeInOrder,
             RunsAreThere, Unquotable, Cleaning, worker, corpus, Doomed
<1>3. CASE PurgeJobs
  BY <1>3 DEF PurgeJobs
<1>4. CASE PurgeLinks
  BY <1>4 DEF PurgeLinks
<1>5. CASE PurgePages
  BY <1>5 DEF PurgePages
<1>6. CASE PurgeRuns
  BY <1>6 DEF PurgeRuns
<1>. QED
  BY <1>1, <1>2, <1>3, <1>4, <1>5, <1>6

\* So do the steps of the service.
LEMMA ServiceKeeps ==
    ASSUME IInv,
           \/ \E p \in Pages : ReadPage(p)
           \/ \E r \in Runs : Post(r) \/ Upsert(r) \/ JobEnds(r)
    PROVE  IInv'
<1>. USE DEF IInv, HeldIsUsable, BatchInOrder, CleanedIsGone, PurgeInOrder, PurgeSteps,
             RunsAreThere, Unquotable, Cleaning, corpus, cursor, noted, Doomed
<1>1. ASSUME NEW p \in Pages, ReadPage(p) PROVE IInv'
  <2>1. \A r \in Runs : \A q \in held'[r] : Classify(kind[q]) = "usable"
    BY <1>1 DEF ReadPage
  <2>. QED
    BY <1>1, <2>1 DEF ReadPage
<1>2. ASSUME NEW r \in Runs, Upsert(r) PROVE IInv'
  BY <1>2 DEF Upsert
<1>3. ASSUME NEW r \in Runs, Post(r) \/ JobEnds(r) PROVE IInv'
  BY <1>3 DEF Post, JobEnds
<1>. QED
  BY <1>1, <1>2, <1>3

\* Every step keeps the invariant.
LEMMA StepKeeps == IInv /\ [Next]_vars => IInv'
<1>1. IInv /\ UNCHANGED vars => IInv'
  BY DEF vars, corpus, worker, cursor, noted, IInv, HeldIsUsable, BatchInOrder,
         CleanedIsGone, PurgeInOrder, RunsAreThere, Unquotable, Cleaning, Doomed
<1>. QED
  BY <1>1, CleanupKeeps, DeleteKeeps, PurgeKeeps, ServiceKeeps DEF Next

-----------------------------------------------------------------------------
\* When a cleanup has deleted a page that the indexer rejects, none of its points
\* is left, and no job of its run ever writes one again (_delete_ids).
THEOREM RejectsAreGone == Spec => []RejectsStayGone
<1>1. IInv => RejectsStayGone
  BY DEF IInv, CleanedIsGone, Unquotable, RejectsStayGone
<1>. QED
  BY <1>1, InitHolds, StepKeeps, PTL DEF Spec

\* A row that a cleanup deletes leaves no link, unless links were to be left, and
\* no row or link ever names a run that is gone (_delete_ids, purge_runs_except).
THEOREM NoOrphans == Spec => ChildrenGoFirst
<1>1. IInv /\ IInv' /\ [Next]_vars =>
          [/\ \A p \in rows \ rows' : Cleaning /\ script.links => p \notin links'
           /\ \A p \in rows' \cup links' : RunOf[p] \in runs']_vars
  <2>. SUFFICES ASSUME IInv, IInv', [Next]_vars
                PROVE  \A p \in rows \ rows' : Cleaning /\ script.links => p \notin links'
    BY DEF IInv, RunsAreThere
  <2>1. CASE UNCHANGED rows
    BY <2>1
  <2>2. CASE DeleteRows
    BY <2>2 DEF DeleteRows, IInv, BatchInOrder
  <2>3. CASE PurgePages
    BY <2>3 DEF PurgePages, IInv, PurgeInOrder, PurgeSteps
  <2>4. UNCHANGED rows \/ DeleteRows \/ PurgePages
    BY DEF Next, vars, corpus, GiveCleanup, CountFast, FindBatch, NextStep, PurgeVectors,
           DeleteLinks, OpenScan, ScanPage, FlushPending, EndScan, GivePurge, CheckJobs,
           PurgeJobs, PurgeLinks, PurgeRuns, ScriptEnds, Post, ReadPage, Upsert, JobEnds
  <2>. QED
    BY <2>1, <2>2, <2>3, <2>4
<1>. QED
  BY <1>1, InitHolds, StepKeeps, PTL DEF Spec, ChildrenGoFirst

-----------------------------------------------------------------------------
(* A cleanup is exact.                                                      *)
(*                                                                          *)
(* While a cleanup runs nothing else takes or adds a row, so that what it   *)
(* has deleted is what was there and is there no more, and each of its      *)
(* calls can be held against where it is in its steps.                      *)

\* The least of two numbers is one of them, and no more than either.
LEMMA MinOfTwo ==
    ASSUME NEW a \in Nat, NEW b \in Nat
    PROVE  Min({a, b}) \in {a, b} /\ Min({a, b}) <= a /\ Min({a, b}) <= b
<1>1. \E x \in {a, b} : \A y \in {a, b} : x <= y
  <2>1. CASE a <= b
    BY <2>1
  <2>2. CASE b <= a
    BY <2>2
  <2>. QED
    BY <2>1, <2>2
<1>. QED
  BY <1>1 DEF Min

\* What the classifier says, as far as the queries are concerned: a locale comes
\* first, a failed page or error page is one that a query finds, and what a query
\* finds is not usable, unless its reason is blank.
LEMMA ClassifierAndQueries ==
    ASSUME NEW k \in Kinds
    PROVE  /\ Classify(k) = "locale" <=> k.locale
           /\ Classify(k) \in {"failure", "http_error"} => Fast(k)
           /\ Fast(k) \/ k.locale => MayGo(k)
<1>. DEFINE verdicts == <<<<k.locale, "locale">>, <<k.error, "http_error">>,
                          <<k.sitemap, "sitemap">>, <<k.denied, "failure">>,
                          <<k.reason = "text", "failure">>, <<~k.blocks, "no_content">>>>
            given == {i \in DOMAIN verdicts : verdicts[i][1]}
<1>1. DOMAIN verdicts = 1..6 /\ given \subseteq 1..6
  OBVIOUS
<1>2. /\ 1 \in given <=> k.locale
      /\ 2 \in given <=> k.error
      /\ 3 \in given <=> k.sitemap
      /\ 4 \in given <=> k.denied
      /\ 5 \in given <=> k.reason = "text"
      /\ 6 \in given <=> ~k.blocks
  <2>1. \A i \in 1..6 : i \in given <=> verdicts[i][1]
    BY <1>1
  <2>2. 1 \in given <=> k.locale
    BY <2>1
  <2>3. 2 \in given <=> k.error
    BY <2>1
  <2>4. 3 \in given <=> k.sitemap
    BY <2>1
  <2>5. 4 \in given <=> k.denied
    BY <2>1
  <2>6. 5 \in given <=> k.reason = "text"
    <3>1. verdicts[5] = <<k.reason = "text", "failure">>
      OBVIOUS
    <3>2. verdicts[5][1] = (k.reason = "text")
      BY <3>1
    <3>. HIDE DEF verdicts, given
    <3>3. 5 \in given <=> verdicts[5][1]
      BY <2>1
    <3>. QED
      BY <3>2, <3>3, Zenon
  <2>7. 6 \in given <=> ~k.blocks
    <3>1. verdicts[6] = <<~k.blocks, "no_content">>
      OBVIOUS
    <3>2. verdicts[6][1] = ~k.blocks
      BY <3>1
    <3>. HIDE DEF verdicts, given
    <3>3. 6 \in given <=> verdicts[6][1]
      BY <2>1
    <3>. QED
      BY <3>2, <3>3, Zenon
  <2>. QED
    BY <2>2, <2>3, <2>4, <2>5, <2>6, <2>7
<1>3. /\ verdicts[1][2] = "locale" /\ verdicts[2][2] = "http_error"
      /\ verdicts[3][2] = "sitemap" /\ verdicts[4][2] = "failure"
      /\ verdicts[5][2] = "failure" /\ verdicts[6][2] = "no_content"
  OBVIOUS
<1>4. Classify(k) = IF given = {} THEN "usable" ELSE verdicts[Min(given)][2]
  BY DEF Classify
<1>5. Fast(k) <=> k.reason # "none" \/ k.denied \/ k.error
  <2>1. DOMAIN FastSteps = 1..3
    BY DEF FastSteps
  <2>2. Fast(k) <=> \E i \in 1..3 : Matches(i, k)
    BY <2>1 DEF Fast
  <2>. QED
    BY <2>2 DEF Matches
<1>. HIDE DEF verdicts, given
<1>6. given # {} => Min(given) \in given /\ \A i \in given : Min(given) <= i
  <2>1. \A n \in given : \A i \in given : n \in 1..6 /\ i \in 1..6
    BY <1>1
  <2>2. given # {} => \E x \in given : \A y \in given : x <= y
    <3>1. CASE 1 \in given
      BY <1>1, <3>1
    <3>2. CASE 1 \notin given /\ 2 \in given
      BY <1>1, <3>2
    <3>3. CASE 1 \notin given /\ 2 \notin given /\ 3 \in given
      BY <1>1, <3>3
    <3>4. CASE given \subseteq {4, 5, 6}
      <4>1. CASE 4 \in given
        BY <3>4, <4>1
      <4>2. CASE 4 \notin given /\ 5 \in given
        BY <3>4, <4>2
      <4>3. CASE given = {6}
        BY <4>3
      <4>4. CASE given = {}
        BY <4>4
      <4>. QED
        BY <3>4, <4>1, <4>2, <4>3, <4>4
    <3>. QED
      BY <1>1, <3>1, <3>2, <3>3, <3>4
  <2>. QED
    BY <2>2 DEF Min
<1>7. CASE given = {}
  BY <1>2, <1>4, <1>5, <1>7 DEF MayGo, Kinds
<1>8. CASE given # {}
  <2>. PICK m \in 1..6 : m = Min(given)
    BY <1>1, <1>6, <1>8
  <2>1. m \in given /\ \A i \in given : m <= i
    BY <1>6, <1>8
  <2>2. Classify(k) = verdicts[m][2]
    BY <1>4, <1>8
  <2>3. k.locale => m = 1
    BY <1>2, <2>1
  <2>4. k.denied \/ k.error \/ k.reason = "text" => m \in 1..5
    BY <1>2, <2>1
  <2>5. m \in {1, 2, 3, 4, 5, 6}
    OBVIOUS
  <2>6. Classify(k) = "locale" <=> k.locale
    BY <1>2, <1>3, <2>1, <2>2, <2>3, <2>5
  <2>7. Classify(k) \in {"failure", "http_error"} => Fast(k)
    BY <1>2, <1>3, <1>5, <2>1, <2>2, <2>5
  <2>8. Fast(k) \/ k.locale => MayGo(k)
    <3>1. k.reason \in {"none", "blank", "text"}
      BY DEF Kinds
    <3>2. m \in 1..5 => Classify(k) \notin {"usable", "no_content"}
      BY <1>3, <2>2, <2>5
    <3>. QED
      BY <1>5, <2>3, <2>4, <3>1, <3>2 DEF MayGo
  <2>. QED
    BY <2>6, <2>7, <2>8
<1>. QED
  BY <1>7, <1>8

-----------------------------------------------------------------------------
\* The values the proof goes by.
CorpusTypes ==
    /\ kind \in [Pages -> Kinds]
    /\ rows \subseteq Pages /\ pending \subseteq Pages
    /\ script \in Commands \cup {NoScript}
    /\ step \in 1..4
    /\ counts = [scanned |-> counts.scanned, deleted |-> counts.deleted,
                 would |-> counts.would, purged |-> counts.purged,
                 reasons |-> counts.reasons]
    /\ counts.deleted \in Nat /\ counts.would \in Nat
    /\ pc = "idle" => step = 1 /\ batch = {} /\ todo = {} /\ pending = {}

\* What a cleanup has in hand, at each of its calls.
InHand ==
    Cleaning =>
        /\ pc \in {"fast", "purge", "rows"} => script.write
        /\ pc = "count" => ~script.write
        /\ pc \in {"count", "fast", "open"} => step # 4
        /\ pc \in {"scan", "done"} => step = 4
        /\ pc \notin {"purge", "rows"} => batch = {}
        /\ pc \in {"purge", "rows", "done"} => pending = {}
        /\ step # 4 \/ pc = "done" => todo = {} /\ pending = {}
        /\ batch \cup todo \cup pending \subseteq InScope
        /\ todo \cap (batch \cup pending) = {}
        /\ \A p \in batch : MayGo(kind[p])
        /\ \A p \in pending : kind[p].locale

Busy == Cleaning /\ pc # "idle"

\* What is gone was there, could go, and is counted.
TakenIsCounted ==
    Busy => /\ InScope \subseteq before /\ before \subseteq Pages
            /\ \A p \in before \ rows : MayGo(kind[p])
            /\ counts.deleted = Cardinality(before \ rows)

\* What is gone and what is in hand to go stay within the limit.
WithinLimit ==
    Busy /\ script.write =>
        /\ counts.would = 0
        /\ script.limit # NoLimit =>
               counts.deleted + Cardinality(batch) + Cardinality(pending) <= script.limit

\* No row is left that a step already taken asks for, unless the budget is spent ...
FastIsDone ==
    Busy /\ script.write /\ ~Spent(0) =>
        \A p \in InScope : \A i \in 1..3 :
            i < step \/ pc = "open" => ~Matches(i, kind[p])

\* ... nor one of another locale that the scan has not in hand or still to read.
ScanIsDone ==
    Busy /\ script.write /\ script.scan /\ step = 4 /\ ~Spent(0) =>
        \A p \in InScope : kind[p].locale => p \in todo \cup pending \cup batch

\* What a write would take.
Target(k) == Fast(k) \/ (script.scan /\ k.locale)

\* A dry run without a limit has counted, or has still to count, each of them once.
DryRunCounts ==
    Busy /\ ~script.write =>
        /\ before = InScope
        /\ script.limit = NoLimit =>
            /\ pc = "open" => counts.would = Cardinality({p \in before : Fast(kind[p])})
            /\ pc \in {"scan", "done"} =>
                   counts.would + Cardinality(pending)
                                + Cardinality({p \in todo : kind[p].locale})
                       = Cardinality({p \in before : Target(kind[p])})

CleanupInv == /\ CorpusTypes /\ InHand /\ TakenIsCounted
              /\ WithinLimit /\ FastIsDone /\ ScanIsDone /\ DryRunCounts

-----------------------------------------------------------------------------
\* A set of pages is finite.
LEMMA PagesAreFinite ==
    ASSUME NEW S, S \subseteq Pages
    PROVE  IsFiniteSet(S) /\ Cardinality(S) \in Nat
BY CommandsAssumption, FS_Subset, FS_CardinalityType

\* Of a cleanup under way, its limit and its batch size.
LEMMA CleanupIsGiven ==
    ASSUME CorpusTypes, Cleaning
    PROVE  script \in Cleanups /\ script.limit \in Nat /\ script.batch \in Nat \ {0}
BY CommandsAssumption DEF CorpusTypes, Cleaning, Cleanups, NoScript

\* The invariant holds at the start.
LEMMA CleanupStarts == Init => CleanupInv
BY CommandsAssumption
   DEF Init, CleanupInv, CorpusTypes, InHand, TakenIsCounted, WithinLimit, FastIsDone,
       ScanIsDone, DryRunCounts, Busy, Cleaning, NoScript, Nothing

\* It says of every cleanup that is over that it was exact.
LEMMA CleanupInvGoal == CleanupInv => CleanupIsExact
<1>. SUFFICES ASSUME CleanupInv, Over PROVE CleanupIsExact
  BY DEF CleanupIsExact
<1>. USE DEF CleanupInv
<1>1. Busy /\ Cleaning /\ step = 4 /\ todo = {} /\ pending = {} /\ batch = {}
  BY DEF Over, Busy, InHand
<1>2. script.limit \in Nat /\ counts.deleted \in Nat /\ counts.would \in Nat
  BY <1>1, CleanupIsGiven DEF CorpusTypes
<1>3. Cardinality({}) = 0
  BY FS_EmptySet
<1>4. \A p \in InScope : kind[p] \in Kinds
  BY DEF CorpusTypes, InScope
<1>5. ASSUME script.write PROVE CleanupIsExact
  <2>1. /\ \A p \in before \ rows : MayGo(kind[p])
        /\ counts.deleted = Cardinality(before \ rows)
    BY <1>1 DEF TakenIsCounted
  <2>2. script.limit # NoLimit => counts.deleted <= script.limit
    BY <1>1, <1>2, <1>3, <1>5 DEF WithinLimit
  <2>3. ASSUME ~Spent(0), NEW p \in InScope PROVE ~Rejected(kind[p])
    <3>1. ~Fast(kind[p])
      <4>1. \A i \in 1..3 : ~Matches(i, kind[p])
        BY <1>1, <1>5, <2>3 DEF FastIsDone
      <4>. QED
        BY <4>1 DEF Fast, FastSteps
    <3>2. script.scan => ~kind[p].locale
      BY <1>1, <1>5, <2>3 DEF ScanIsDone
    <3>. QED
      BY <1>4, <3>1, <3>2, ClassifierAndQueries DEF Rejected
  <2>. QED
    BY <1>5, <2>1, <2>2, <2>3 DEF CleanupIsExact
<1>6. ASSUME ~script.write PROVE CleanupIsExact
  <2>. SUFFICES ASSUME script.limit = NoLimit
                PROVE  counts.would = Cardinality({p \in before :
                           Fast(kind[p]) \/ (script.scan /\ Classify(kind[p]) = "locale")})
    BY <1>6 DEF CleanupIsExact
  <2>1. /\ before = InScope
        /\ counts.would + Cardinality(pending) + Cardinality({p \in todo : kind[p].locale})
               = Cardinality({p \in before : Target(kind[p])})
    BY <1>1, <1>6 DEF DryRunCounts, Over
  <2>2. {p \in before : Target(kind[p])} = {p \in before :
            Fast(kind[p]) \/ (script.scan /\ Classify(kind[p]) = "locale")}
    BY <1>4, <2>1, ClassifierAndQueries DEF Target
  <2>3. {p \in todo : kind[p].locale} = {}
    BY <1>1
  <2>4. Cardinality(pending) = 0 /\ Cardinality({p \in todo : kind[p].locale}) = 0
    BY <1>1, <1>3, <2>3
  <2>5. counts.would = Cardinality({p \in before : Target(kind[p])})
    BY <1>2, <2>1, <2>4
  <2>. QED
    BY <2>2, <2>5
<1>. QED
  BY <1>5, <1>6

-----------------------------------------------------------------------------
\* Where no cleanup is under way there is nothing to show but the types.
LEMMA NoCleanup == ASSUME CorpusTypes', ~Cleaning' PROVE CleanupInv'
BY DEF CleanupInv, InHand, TakenIsCounted, WithinLimit, FastIsDone, ScanIsDone,
       DryRunCounts, Busy

\* A step that leaves the rows, the command and what it has in hand alone keeps the
\* invariant.
LEMMA OthersKeep ==
    ASSUME CleanupInv,
           UNCHANGED <<kind, rows, script, pc, step, batch, todo, pending, counts, before>>
    PROVE  CleanupInv'
BY DEF CleanupInv, CorpusTypes, InHand, TakenIsCounted, WithinLimit, FastIsDone,
       ScanIsDone, DryRunCounts, Busy, Cleaning, InScope, Spent, budget_used, Target

\* A command is given.
LEMMA GivenKeeps ==
    ASSUME CleanupInv, NEW c \in Cleanups, GiveCleanup(c)
    PROVE  CleanupInv'
<1>. USE DEF GiveCleanup, corpus, Cleanups
<1>1. CorpusTypes'
  BY DEF CleanupInv, CorpusTypes, Nothing
<1>2. /\ pc' \in {"fast", "count"} /\ step' = 1 /\ rows' = rows /\ kind' = kind
      /\ batch' = {} /\ todo' = {} /\ pending' = {}
      /\ pc' = "fast" <=> script'.write
  BY DEF CleanupInv, CorpusTypes
<1>3. before' = InScope' /\ before' \subseteq Pages /\ before' \ rows' = {}
  BY DEF InScope, CleanupInv, CorpusTypes
<1>4. InHand'
  BY <1>2 DEF InHand, Cleaning
<1>5. counts'.deleted = 0 /\ counts'.would = 0
  BY DEF Nothing
<1>6. Cardinality({}) = 0
  BY FS_EmptySet
<1>7. script'.limit \in Nat
  BY CommandsAssumption
<1>8. TakenIsCounted'
  BY <1>3, <1>5, <1>6 DEF TakenIsCounted
<1>9. WithinLimit'
  BY <1>2, <1>5, <1>6, <1>7 DEF WithinLimit
<1>10. FastIsDone' /\ ScanIsDone'
  BY <1>2 DEF FastIsDone, ScanIsDone
<1>11. DryRunCounts'
  BY <1>2, <1>3 DEF DryRunCounts
<1>. QED
  BY <1>1, <1>4, <1>8, <1>9, <1>10, <1>11 DEF CleanupInv

\* A dry run counts the rows that a fast step would take.
LEMMA CountKeeps == ASSUME CleanupInv, CountFast PROVE CleanupInv'
<1>. USE DEF CountFast, corpus, cursor, noted
<1>1. DistinctRows(InScope) \in Nat
  <2>1. {p \in InScope : Fast(kind[p])} \subseteq Pages
    BY DEF CleanupInv, CorpusTypes, InScope
  <2>. QED
    BY <2>1, PagesAreFinite DEF DistinctRows
<1>2. CorpusTypes' /\ counts'.deleted = counts.deleted /\ counts'.would = DistinctRows(InScope)
  BY <1>1 DEF CleanupInv, CorpusTypes
<1>3. InScope' = InScope /\ Cleaning' = Cleaning
  BY DEF InScope, Cleaning
<1>4. Cleaning => ~script.write /\ Busy
  BY DEF CleanupInv, InHand, Busy
<1>5. InHand'
  BY <1>3 DEF CleanupInv, InHand
<1>6. TakenIsCounted'
  BY <1>2, <1>3, <1>4 DEF CleanupInv, TakenIsCounted, Busy
<1>7. WithinLimit' /\ FastIsDone' /\ ScanIsDone'
  BY <1>3, <1>4 DEF WithinLimit, FastIsDone, ScanIsDone, Busy
<1>8. DryRunCounts'
  BY <1>2, <1>3, <1>4 DEF CleanupInv, DryRunCounts, Busy, DistinctRows
<1>. QED
  BY <1>2, <1>5, <1>6, <1>7, <1>8 DEF CleanupInv

\* A batch is found: no more than the limit leaves room for, and of what may go.
LEMMA FoundKeeps == ASSUME CleanupInv, FindBatch PROVE CleanupInv'
<1>. USE DEF FindBatch, corpus, cursor, noted
<1>1. CorpusTypes'
  BY DEF CleanupInv, CorpusTypes
<1>. SUFFICES ASSUME Cleaning PROVE CleanupInv'
  BY <1>1, NoCleanup DEF Cleaning
<1>2. /\ script.limit \in Nat /\ script.batch \in Nat \ {0} /\ script.write /\ Busy
      /\ todo = {} /\ pending = {} /\ step \in 1..3
      /\ counts.deleted \in Nat /\ counts.would = 0
  BY CleanupIsGiven DEF CleanupInv, InHand, Busy, CorpusTypes, WithinLimit
<1>3. /\ counts'.deleted = counts.deleted /\ counts'.would = counts.would
      /\ InScope' = InScope /\ Cleaning' /\ Busy' /\ budget_used' = budget_used
      /\ Spent(0)' = Spent(0)
  BY <1>2 DEF CleanupInv, CorpusTypes, InScope, Cleaning, Busy, budget_used, Spent
<1>4. /\ batch' \subseteq InScope
      /\ \A p \in batch' : MayGo(kind[p])
  <2>1. \A p \in Found : Fast(kind[p])
    BY <1>2 DEF Found, Fast, FastSteps
  <2>2. \A p \in Found : kind[p] \in Kinds
    BY DEF Found, InScope, CleanupInv, CorpusTypes
  <2>3. \A p \in Found : MayGo(kind[p])
    BY <2>1, <2>2, ClassifierAndQueries
  <2>. QED
    BY <2>3 DEF Found
<1>5. script.limit # NoLimit => counts.deleted + Cardinality(batch') <= script.limit
  <2>. SUFFICES ASSUME script.limit # NoLimit
                PROVE  counts.deleted + Cardinality(batch') <= script.limit
    OBVIOUS
  <2>1. script.limit - budget_used \in Nat /\ budget_used = counts.deleted
    BY <1>2 DEF Spent, budget_used, NoLimit
  <2>2. Take \in Nat /\ Take <= script.limit - budget_used
    <3>1. Take = Min({script.batch, script.limit - budget_used})
      BY DEF Take
    <3>. QED
      BY <1>2, <2>1, <3>1, MinOfTwo
  <2>3. Cardinality(Found) \in Nat
    <3>1. Found \subseteq Pages
      BY DEF Found, InScope, CleanupInv, CorpusTypes
    <3>. QED
      BY <3>1, PagesAreFinite
  <2>4. Cardinality(batch') = Min({Take, Cardinality(Found)})
    OBVIOUS
  <2>5. Cardinality(batch') \in Nat /\ Cardinality(batch') <= Take
    BY <2>2, <2>3, <2>4, MinOfTwo
  <2>. QED
    BY <1>2, <2>1, <2>2, <2>5
<1>6. InHand'
  BY <1>2, <1>3, <1>4 DEF InHand
<1>7. TakenIsCounted'
  BY <1>2, <1>3 DEF CleanupInv, TakenIsCounted
<1>8. WithinLimit'
  <2>1. pending' = {} /\ Cardinality({}) = 0
    BY <1>2, FS_EmptySet
  <2>2. script.limit # NoLimit => Cardinality(batch') \in Nat
    <3>1. batch' \subseteq Pages
      BY <1>4 DEF InScope, CleanupInv, CorpusTypes
    <3>. QED
      BY <3>1, PagesAreFinite
  <2>. QED
    BY <1>2, <1>3, <1>5, <2>1, <2>2 DEF WithinLimit
<1>9. FastIsDone' /\ ScanIsDone'
  BY <1>2, <1>3 DEF CleanupInv, FastIsDone, ScanIsDone
<1>10. DryRunCounts'
  BY <1>2 DEF DryRunCounts
<1>. QED
  BY <1>1, <1>6, <1>7, <1>8, <1>9, <1>10 DEF CleanupInv

\* A step is through when it finds nothing, or nothing is left to spend.
LEMMA NextStepKeeps == ASSUME CleanupInv, NextStep PROVE CleanupInv'
<1>. USE DEF NextStep, corpus, cursor, noted
<1>1. Len(FastSteps) = 3
  BY DEF FastSteps
<1>2. CorpusTypes' /\ counts'.deleted = counts.deleted /\ counts'.would = counts.would
  BY <1>1 DEF CleanupInv, CorpusTypes
<1>. SUFFICES ASSUME Cleaning PROVE CleanupInv'
  BY <1>2, NoCleanup DEF Cleaning
<1>3. /\ script.write /\ Busy /\ step \in 1..3
      /\ todo = {} /\ pending = {} /\ batch = {}
  BY DEF CleanupInv, InHand, Busy, CorpusTypes
<1>4. /\ InScope' = InScope /\ Cleaning' /\ Busy' /\ Spent(0)' = Spent(0)
      /\ todo' = {} /\ pending' = {} /\ batch' = {}
      /\ \/ pc' = "fast" /\ step' = step + 1 /\ step' \in 1..3
         \/ pc' = "open" /\ step' = step /\ step = 3
  <2>1. CASE step < 3
    BY <1>1, <1>2, <1>3, <2>1 DEF InScope, Cleaning, Busy, budget_used, Spent
  <2>2. CASE step = 3
    BY <1>1, <1>2, <1>3, <2>2 DEF InScope, Cleaning, Busy, budget_used, Spent
  <2>. QED
    BY <1>3, <2>1, <2>2
<1>5. InHand'
  BY <1>3, <1>4 DEF InHand
<1>6. TakenIsCounted' /\ WithinLimit'
  BY <1>2, <1>3, <1>4 DEF CleanupInv, TakenIsCounted, WithinLimit
<1>7. FastIsDone'
  <2>. SUFFICES ASSUME ~Spent(0), NEW p \in InScope, NEW i \in 1..3,
                       i < step' \/ pc' = "open"
                PROVE  ~Matches(i, kind[p])
    BY <1>4 DEF FastIsDone
  <2>1. CASE i < step
    BY <1>3, <2>1 DEF CleanupInv, FastIsDone
  <2>2. CASE i = step
    BY <2>2 DEF Found
  <2>. QED
    BY <1>3, <1>4, <2>1, <2>2
<1>8. ScanIsDone'
  BY <1>4 DEF ScanIsDone
<1>9. DryRunCounts'
  BY <1>3 DEF DryRunCounts
<1>. QED
  BY <1>2, <1>5, <1>6, <1>7, <1>8, <1>9 DEF CleanupInv

\* Of two sets of pages that are apart, the sizes add up.
LEMMA ApartAddUp ==
    ASSUME NEW S, S \subseteq Pages, NEW T, T \subseteq Pages, S \cap T = {}
    PROVE  Cardinality(S \cup T) = Cardinality(S) + Cardinality(T)
<1>1. /\ IsFiniteSet(S) /\ Cardinality(S) \in Nat
      /\ IsFiniteSet(T) /\ Cardinality(T) \in Nat
  BY PagesAreFinite
<1>2. Cardinality(S \cup T) = Cardinality(S) + Cardinality(T) - Cardinality(S \cap T)
  BY <1>1, FS_Union
<1>3. Cardinality(S \cap T) = 0
  BY FS_EmptySet
<1>. QED
  BY <1>1, <1>2, <1>3

\* The rows of a batch go: each was there, and is counted once.
LEMMA RowsKeep == ASSUME CleanupInv, DeleteRows PROVE CleanupInv'
<1>. USE DEF DeleteRows
<1>1. CorpusTypes' /\ counts'.deleted = counts.deleted + Cardinality(batch \cap rows)
      /\ counts'.would = counts.would
  <2>1. Cardinality(batch \cap rows) \in Nat
    <3>1. batch \cap rows \subseteq Pages
      BY DEF CleanupInv, CorpusTypes
    <3>. QED
      BY <3>1, PagesAreFinite
  <2>2. rows' \subseteq Pages /\ pc' # "idle"
    BY DEF CleanupInv, CorpusTypes
  <2>3. /\ counts' = [scanned |-> counts'.scanned, deleted |-> counts'.deleted,
                      would |-> counts'.would, purged |-> counts'.purged,
                      reasons |-> counts'.reasons]
        /\ counts'.deleted = counts.deleted + Cardinality(batch \cap rows)
        /\ counts'.would = counts.would
    BY DEF CleanupInv, CorpusTypes
  <2>4. counts'.deleted \in Nat
    BY <2>1, <2>3 DEF CleanupInv, CorpusTypes
  <2>. QED
    BY <2>2, <2>3, <2>4 DEF CleanupInv, CorpusTypes
<1>. SUFFICES ASSUME Cleaning PROVE CleanupInv'
  BY <1>1, NoCleanup DEF Cleaning
<1>2. /\ script.limit \in Nat /\ script.write /\ Busy /\ pending = {} /\ step \in 1..4
      /\ counts.deleted \in Nat /\ counts.would = 0
      /\ batch \subseteq InScope /\ todo \subseteq InScope /\ todo \cap batch = {}
      /\ batch \subseteq Pages /\ batch \subseteq rows /\ batch \cap rows = batch
  BY CleanupIsGiven DEF CleanupInv, InHand, Busy, CorpusTypes, WithinLimit, InScope
<1>3. /\ InScope' = InScope \ batch /\ Cleaning' /\ Busy'
      /\ batch' = {} /\ pending' = {} /\ todo' = todo
      /\ pc' = IF step = 4 THEN "scan" ELSE "fast"
  BY <1>2 DEF InScope, Cleaning, Busy, FastSteps
<1>4. Cardinality(batch) \in Nat /\ counts'.deleted = counts.deleted + Cardinality(batch)
  BY <1>1, <1>2, PagesAreFinite
<1>5. InHand'
  BY <1>2, <1>3 DEF CleanupInv, InHand
<1>6. TakenIsCounted'
  <2>1. InScope' \subseteq before' /\ before' \subseteq Pages
    BY <1>2, <1>3 DEF CleanupInv, TakenIsCounted
  <2>2. before' \ rows' = (before \ rows) \cup batch /\ (before \ rows) \cap batch = {}
    BY <1>2 DEF CleanupInv, TakenIsCounted
  <2>3. \A p \in before' \ rows' : MayGo(kind'[p])
    <3>1. /\ \A p \in before \ rows : MayGo(kind[p])
          /\ \A p \in batch : MayGo(kind[p])
      BY <1>2 DEF CleanupInv, TakenIsCounted, InHand
    <3>2. \A p : MayGo(kind[p])' <=> MayGo(kind[p])
      BY DEF MayGo
    <3>. QED
      BY <2>2, <3>1, <3>2
  <2>4. Cardinality(before' \ rows') = Cardinality(before \ rows) + Cardinality(batch)
    <3>1. before \ rows \subseteq Pages
      BY <1>2 DEF CleanupInv, TakenIsCounted
    <3>. QED
      BY <1>2, <2>2, <3>1, ApartAddUp
  <2>5. counts'.deleted = Cardinality(before' \ rows')
    BY <1>2, <1>4, <2>4 DEF CleanupInv, TakenIsCounted
  <2>. QED
    BY <2>1, <2>3, <2>5 DEF TakenIsCounted
<1>7. Cardinality({}) = 0
  BY FS_EmptySet
<1>8. WithinLimit'
  BY <1>1, <1>2, <1>3, <1>4, <1>7 DEF CleanupInv, WithinLimit
<1>9. ~Spent(0)' => ~Spent(0)
  BY <1>1, <1>2, <1>4 DEF Spent, budget_used, NoLimit
<1>10. FastIsDone'
  <2>. SUFFICES ASSUME ~Spent(0)', NEW p \in InScope', NEW i \in 1..3, i < step
                PROVE  ~Matches(i, kind[p])
    BY <1>3 DEF FastIsDone
  <2>. QED
    BY <1>2, <1>3, <1>9 DEF CleanupInv, FastIsDone
<1>11. ScanIsDone'
  BY <1>2, <1>3, <1>9 DEF CleanupInv, ScanIsDone
<1>12. DryRunCounts'
  BY <1>2 DEF DryRunCounts
<1>. QED
  BY <1>1, <1>5, <1>6, <1>8, <1>10, <1>11, <1>12 DEF CleanupInv

\* The scan is opened on what the fast steps would not take, or left out.
LEMMA OpenKeeps == ASSUME CleanupInv, OpenScan PROVE CleanupInv'
<1>. USE DEF OpenScan, corpus, noted
<1>1. CorpusTypes'
  BY DEF CleanupInv, CorpusTypes, FastSteps
<1>. SUFFICES ASSUME Cleaning PROVE CleanupInv'
  BY <1>1, NoCleanup DEF Cleaning
<1>2. /\ Busy /\ step \in 1..3 /\ batch = {} /\ todo = {} /\ pending = {}
      /\ before \subseteq Pages /\ InScope \subseteq Pages
      /\ counts.would \in Nat
  BY DEF CleanupInv, InHand, Busy, CorpusTypes, TakenIsCounted, InScope
<1>3. /\ InScope' = InScope /\ Cleaning' /\ Busy' /\ Spent(0)' = Spent(0)
      /\ batch' = {} /\ pending' = {} /\ step' = 4
      /\ \/ pc' = "scan" /\ script.scan /\ ~Spent(0) /\ todo' = {p \in InScope : ~Fast(kind[p])}
         \/ pc' = "done" /\ (~script.scan \/ Spent(0)) /\ todo' = {}
  <2>1. step' = 4
    BY DEF FastSteps
  <2>2. CASE script.scan /\ ~Spent(0)
    BY <1>2, <2>1, <2>2 DEF InScope, Cleaning, Busy, budget_used, Spent
  <2>3. CASE ~(script.scan /\ ~Spent(0))
    BY <1>2, <2>1, <2>3 DEF InScope, Cleaning, Busy, budget_used, Spent
  <2>. QED
    BY <2>2, <2>3
<1>4. InHand'
  BY <1>3 DEF InHand
<1>5. TakenIsCounted' /\ WithinLimit'
  BY <1>2, <1>3 DEF CleanupInv, TakenIsCounted, WithinLimit
<1>6. FastIsDone'
  BY <1>2, <1>3 DEF CleanupInv, FastIsDone
<1>7. ScanIsDone'
  <2>. SUFFICES ASSUME script.write, script.scan, ~Spent(0),
                       NEW p \in InScope, kind[p].locale
                PROVE  p \in todo'
    BY <1>3 DEF ScanIsDone
  <2>1. \A i \in 1..3 : ~Matches(i, kind[p])
    BY <1>2 DEF CleanupInv, FastIsDone
  <2>2. ~Fast(kind[p])
    BY <2>1 DEF Fast, FastSteps
  <2>. QED
    BY <1>3, <2>2
<1>8. DryRunCounts'
  <2>. SUFFICES ASSUME ~script.write
                PROVE  /\ before = InScope
                       /\ script.limit = NoLimit =>
                            counts.would + Cardinality({})
                                         + Cardinality({p \in todo' : kind[p].locale})
                                = Cardinality({p \in before : Target(kind[p])})
    BY <1>3 DEF DryRunCounts, Target
  <2>1. before = InScope
    BY <1>2 DEF CleanupInv, DryRunCounts
  <2>. SUFFICES ASSUME script.limit = NoLimit
                PROVE  counts.would + Cardinality({p \in todo' : kind[p].locale})
                           = Cardinality({p \in before : Target(kind[p])})
    <3>1. {p \in todo' : kind[p].locale} \subseteq Pages
      BY <1>2, <1>3
    <3>. QED
      BY <1>2, <2>1, <3>1, PagesAreFinite, FS_EmptySet
  <2>2. ~Spent(0)
    BY DEF Spent
  <2>3. counts.would = Cardinality({p \in before : Fast(kind[p])})
    BY <1>2 DEF CleanupInv, DryRunCounts
  <2>4. CASE script.scan
    <3>. DEFINE A == {p \in before : Fast(kind[p])}
                B == {p \in todo' : kind[p].locale}
    <3>1. B = {p \in before : ~Fast(kind[p]) /\ kind[p].locale}
      BY <1>3, <2>1, <2>2, <2>4
    <3>2. A \subseteq Pages /\ B \subseteq Pages /\ A \cap B = {}
      BY <1>2, <3>1
    <3>3. A \cup B = {p \in before : Target(kind[p])}
      BY <2>4, <3>1 DEF Target
    <3>4. Cardinality(A \cup B) = Cardinality(A) + Cardinality(B)
      BY <3>2, ApartAddUp
    <3>. HIDE DEF A, B
    <3>. QED
      BY <2>3, <3>3, <3>4 DEF A, B
  <2>5. CASE ~script.scan
    <3>1. {p \in before : Target(kind[p])} = {p \in before : Fast(kind[p])}
      BY <2>5 DEF Target
    <3>2. {p \in todo' : kind[p].locale} = {}
      BY <1>3, <2>5
    <3>3. Cardinality({p \in todo' : kind[p].locale}) = 0
      BY <3>2, FS_EmptySet
    <3>4. counts.would = Cardinality({p \in before : Target(kind[p])})
      BY <2>3, <3>1
    <3>. QED
      BY <1>2, <3>3, <3>4
  <2>. QED
    BY <2>4, <2>5
<1>. QED
  BY <1>1, <1>4, <1>5, <1>6, <1>7, <1>8 DEF CleanupInv

\* One page is read, and kept for the batch when it is of another locale.
LEMMA ScanKeeps == ASSUME CleanupInv, NEW q \in Pages, ScanPage(q) PROVE CleanupInv'
<1>. USE DEF ScanPage, corpus, noted
<1>1. kind[q] \in Kinds
  BY DEF CleanupInv, CorpusTypes
<1>2. pending' = IF kind[q].locale THEN pending \cup {q} ELSE pending
  BY <1>1, ClassifierAndQueries
<1>3. CorpusTypes' /\ counts'.deleted = counts.deleted /\ counts'.would = counts.would
  <2>1. pending' \subseteq Pages
    BY <1>2 DEF CleanupInv, CorpusTypes
  <2>. HIDE DEF Classify
  <2>. QED
    BY <2>1 DEF CleanupInv, CorpusTypes
<1>. SUFFICES ASSUME Cleaning PROVE CleanupInv'
  BY <1>3, NoCleanup DEF Cleaning
<1>4. /\ Busy /\ step = 4 /\ batch = {} /\ q \in InScope /\ q \notin pending
      /\ pending \subseteq InScope /\ todo \subseteq InScope /\ todo \cap pending = {}
      /\ pending \subseteq Pages /\ todo \subseteq Pages
      /\ script.limit \in Nat /\ counts.deleted \in Nat /\ counts.would \in Nat
  BY CleanupIsGiven DEF CleanupInv, InHand, Busy, CorpusTypes, InScope
<1>5. /\ InScope' = InScope /\ Cleaning' /\ Busy' /\ Spent(0)' = Spent(0)
      /\ pc' = "scan" /\ step' = 4 /\ batch' = {} /\ todo' = todo \ {q}
  BY <1>3, <1>4 DEF InScope, Cleaning, Busy, budget_used, Spent
<1>6. /\ IsFiniteSet(pending) /\ Cardinality(pending) \in Nat
      /\ Cardinality(pending') =
             IF kind[q].locale THEN Cardinality(pending) + 1 ELSE Cardinality(pending)
  BY <1>2, <1>4, PagesAreFinite, FS_AddElement
<1>7. InHand'
  BY <1>2, <1>4, <1>5 DEF CleanupInv, InHand
<1>8. TakenIsCounted'
  BY <1>3, <1>4, <1>5 DEF CleanupInv, TakenIsCounted
<1>9. WithinLimit'
  <2>1. Cardinality({}) = 0
    BY FS_EmptySet
  <2>2. script.limit # NoLimit =>
            counts.deleted + counts.would + Cardinality(pending) < script.limit
    BY <1>4, <1>6 DEF ScanIsSpent, Spent, budget_used
  <2>. QED
    BY <1>3, <1>4, <1>5, <1>6, <2>1, <2>2 DEF CleanupInv, WithinLimit
<1>10. FastIsDone' /\ ScanIsDone'
  BY <1>2, <1>4, <1>5 DEF CleanupInv, FastIsDone, ScanIsDone
<1>11. DryRunCounts'
  <2>. DEFINE left == {p \in todo : kind[p].locale}
              now  == {p \in todo' : kind[p].locale}
  <2>1. left \subseteq Pages /\ now = left \ {q} /\ (q \in left <=> kind[q].locale)
    BY <1>4, <1>5
  <2>2. /\ Cardinality(left) \in Nat
        /\ Cardinality(now) = IF kind[q].locale THEN Cardinality(left) - 1
                              ELSE Cardinality(left)
    <3>. HIDE DEF left, now
    <3>. QED
      BY <2>1, PagesAreFinite, FS_RemoveElement
  <2>3. Cardinality(pending') + Cardinality(now) = Cardinality(pending) + Cardinality(left)
    BY <1>6, <2>2
  <2>4. Cardinality(now) \in Nat /\ Cardinality(pending') \in Nat
    <3>1. now \subseteq Pages /\ pending' \subseteq Pages
      BY <2>1, <1>3 DEF CorpusTypes
    <3>. QED
      BY <3>1, PagesAreFinite
  <2>. HIDE DEF left, now
  <2>5. counts.would + Cardinality(pending') + Cardinality(now)
            = counts.would + Cardinality(pending) + Cardinality(left)
    BY <1>4, <1>6, <2>2, <2>3, <2>4
  <2>. QED
    BY <1>3, <1>4, <1>5, <2>5 DEF CleanupInv, DryRunCounts, Target, left, now
<1>. QED
  BY <1>3, <1>7, <1>8, <1>9, <1>10, <1>11 DEF CleanupInv

\* What the scan has found goes to a batch; a dry run counts it.
LEMMA FlushKeeps == ASSUME CleanupInv, FlushPending PROVE CleanupInv'
<1>. USE DEF FlushPending, corpus, noted
<1>1. Cardinality(pending) \in Nat
  <2>1. pending \subseteq Pages
    BY DEF CleanupInv, CorpusTypes
  <2>. QED
    BY <2>1, PagesAreFinite
<1>2. /\ CorpusTypes' /\ counts'.deleted = counts.deleted
      /\ counts'.would = IF script.write THEN counts.would
                         ELSE counts.would + Cardinality(pending)
  <2>1. CASE script.write
    BY <2>1 DEF CleanupInv, CorpusTypes
  <2>2. CASE ~script.write
    BY <1>1, <2>2 DEF CleanupInv, CorpusTypes
  <2>. QED
    BY <2>1, <2>2
<1>. SUFFICES ASSUME Cleaning PROVE CleanupInv'
  BY <1>2, NoCleanup DEF Cleaning
<1>3. /\ Busy /\ step = 4 /\ batch = {}
      /\ pending \subseteq InScope /\ todo \subseteq InScope /\ todo \cap pending = {}
      /\ script.limit \in Nat /\ counts.deleted \in Nat /\ counts.would \in Nat
      /\ Cardinality({}) = 0
  BY CleanupIsGiven, FS_EmptySet DEF CleanupInv, InHand, Busy, CorpusTypes
<1>4. /\ InScope' = InScope /\ Cleaning' /\ Busy' /\ pending' = {} /\ todo' = todo
      /\ step' = 4
      /\ \/ script.write /\ batch' = pending /\ pc' = "purge"
         \/ ~script.write /\ batch' = {} /\ pc' = "scan"
  BY <1>3 DEF InScope, Cleaning, Busy
<1>5. script.write => Spent(0)' = Spent(0)
  BY <1>2 DEF Spent, budget_used
<1>6. InHand'
  <2>1. \A p \in pending : MayGo(kind[p])
    <3>1. \A p \in pending : kind[p] \in Kinds /\ kind[p].locale
      BY DEF CleanupInv, CorpusTypes, InHand
    <3>. QED
      BY <3>1, ClassifierAndQueries
  <2>2. \A p \in batch' : MayGo(kind[p])
    BY <1>4, <2>1
  <2>. QED
    BY <1>3, <1>4, <2>2 DEF InHand
<1>7. TakenIsCounted'
  BY <1>2, <1>3, <1>4 DEF CleanupInv, TakenIsCounted
<1>8. WithinLimit'
  BY <1>1, <1>2, <1>3, <1>4 DEF CleanupInv, WithinLimit
<1>9. FastIsDone' /\ ScanIsDone'
  BY <1>3, <1>4, <1>5 DEF CleanupInv, FastIsDone, ScanIsDone
<1>10. DryRunCounts'
  <2>. SUFFICES ASSUME ~script.write PROVE DryRunCounts'
    BY <1>4 DEF DryRunCounts
  <2>. DEFINE left == {p \in todo : kind[p].locale}
  <2>1. Cardinality(left) \in Nat
    <3>1. left \subseteq Pages
      BY <1>3 DEF InScope, CleanupInv, CorpusTypes
    <3>. QED
      BY <3>1, PagesAreFinite
  <2>. HIDE DEF left
  <2>2. counts.would + Cardinality(pending) + 0 + Cardinality(left)
            = counts.would + Cardinality(pending) + Cardinality(left)
    BY <1>1, <1>3, <2>1
  <2>. QED
    BY <1>2, <1>3, <1>4, <2>2 DEF CleanupInv, DryRunCounts, Target, left
<1>. QED
  BY <1>2, <1>6, <1>7, <1>8, <1>9, <1>10 DEF CleanupInv

\* The scan is through when nothing is left to read, or to spend.
LEMMA EndKeeps == ASSUME CleanupInv, EndScan PROVE CleanupInv'
<1>. USE DEF EndScan, corpus, noted
<1>1. CorpusTypes'
  BY DEF CleanupInv, CorpusTypes
<1>. SUFFICES ASSUME Cleaning PROVE CleanupInv'
  BY <1>1, NoCleanup DEF Cleaning
<1>2. /\ Busy /\ step = 4 /\ batch = {}
      /\ script.limit \in Nat /\ counts.deleted \in Nat /\ counts.would \in Nat
      /\ Cardinality({}) = 0
  BY CleanupIsGiven, FS_EmptySet DEF CleanupInv, InHand, Busy, CorpusTypes
<1>3. /\ InScope' = InScope /\ Cleaning' /\ Busy' /\ Spent(0)' = Spent(0)
      /\ ScanIsSpent <=> Spent(0)
  BY <1>2 DEF InScope, Cleaning, Busy, budget_used, Spent, ScanIsSpent
<1>4. InHand' /\ TakenIsCounted' /\ WithinLimit' /\ FastIsDone'
  BY <1>2, <1>3 DEF CleanupInv, InHand, TakenIsCounted, WithinLimit, FastIsDone
<1>5. ScanIsDone'
  BY <1>2, <1>3 DEF CleanupInv, ScanIsDone
<1>6. DryRunCounts'
  <2>1. script.limit = NoLimit => ~Spent(0) /\ todo = {}
    BY <1>3 DEF Spent
  <2>. QED
    BY <1>2, <1>3, <2>1 DEF CleanupInv, DryRunCounts, Target
<1>. QED
  BY <1>1, <1>4, <1>5, <1>6 DEF CleanupInv

\* The script ends, or the links of a batch go: neither touches a row.
LEMMA EndsAndLinksKeep == ASSUME CleanupInv, ScriptEnds \/ DeleteLinks PROVE CleanupInv'
<1>1. CASE ScriptEnds
  <2>1. CorpusTypes' /\ ~Busy'
    BY <1>1 DEF ScriptEnds, corpus, noted, CleanupInv, CorpusTypes, Busy
  <2>2. InHand'
    BY <1>1 DEF ScriptEnds, InHand
  <2>. QED
    BY <2>1, <2>2 DEF CleanupInv, TakenIsCounted, WithinLimit, FastIsDone, ScanIsDone,
                      DryRunCounts
<1>2. CASE DeleteLinks
  <2>. USE <1>2 DEF DeleteLinks, cursor, noted
  <2>1. CorpusTypes' /\ counts'.deleted = counts.deleted /\ counts'.would = counts.would
    BY DEF CleanupInv, CorpusTypes
  <2>2. InScope' = InScope /\ Cleaning' = Cleaning /\ Spent(0)' = Spent(0)
        /\ Busy = Cleaning /\ Busy' = Cleaning
    BY <2>1 DEF InScope, Cleaning, Busy, budget_used, Spent
  <2>3. InHand'
    BY <2>2 DEF CleanupInv, InHand
  <2>4. TakenIsCounted' /\ WithinLimit' /\ FastIsDone' /\ ScanIsDone'
    BY <2>1, <2>2 DEF CleanupInv, TakenIsCounted, WithinLimit, FastIsDone, ScanIsDone
  <2>5. DryRunCounts'
    BY <2>2 DEF CleanupInv, InHand, DryRunCounts
  <2>. QED
    BY <2>1, <2>3, <2>4, <2>5 DEF CleanupInv
<1>. QED
  BY <1>1, <1>2

\* A purge is not a cleanup.
LEMMA NoCleanupInPurge ==
    ASSUME CleanupInv, PurgeInOrder,
           \/ \E c \in Purges : GivePurge(c)
           \/ CheckJobs \/ PurgeJobs \/ PurgeLinks \/ PurgePages \/ PurgeRuns
    PROVE  CleanupInv'
<1>. USE DEF cursor, noted, corpus, worker, CleanupInv, CorpusTypes, Cleaning
<1>1. ASSUME NEW c \in Purges, GivePurge(c) PROVE CleanupInv'
  BY <1>1, NoCleanup DEF GivePurge, Purges
<1>2. CASE CheckJobs
  BY <1>2, NoCleanup DEF CheckJobs, PurgeInOrder, PurgeSteps
<1>3. CASE PurgeJobs \/ PurgeLinks
  BY <1>3, NoCleanup DEF PurgeJobs, PurgeLinks, PurgeInOrder, PurgeSteps
<1>4. CASE PurgePages \/ PurgeRuns
  BY <1>4, NoCleanup DEF PurgePages, PurgeRuns, PurgeInOrder, PurgeSteps
<1>. QED
  BY <1>1, <1>2, <1>3, <1>4

\* Every step keeps the invariant.
LEMMA CleanupStep == CleanupInv /\ PurgeInOrder /\ [Next]_vars => CleanupInv'
<1>. SUFFICES ASSUME CleanupInv, PurgeInOrder, [Next]_vars PROVE CleanupInv'
  OBVIOUS
<1>1. CASE UNCHANGED vars
  BY <1>1, OthersKeep DEF vars, corpus, cursor, noted
<1>2. ASSUME NEW p \in Pages, PurgeVectors(p) \/ ReadPage(p) PROVE CleanupInv'
  BY <1>2, OthersKeep DEF PurgeVectors, ReadPage, corpus, cursor, noted
<1>3. ASSUME NEW r \in Runs, Post(r) \/ Upsert(r) \/ JobEnds(r) PROVE CleanupInv'
  BY <1>3, OthersKeep DEF Post, Upsert, JobEnds, corpus, cursor, noted
<1>. QED
  BY <1>1, <1>2, <1>3, GivenKeeps, CountKeeps, FoundKeeps, NextStepKeeps, RowsKeep,
     OpenKeeps, ScanKeeps, FlushKeeps, EndKeeps, EndsAndLinksKeep, NoCleanupInPurge
     DEF Next

\* A cleanup that came to its end took every row the indexer would skip, within its
\* scope and budget, and none it would read, and says how many; a dry run without a
\* limit says how many a write would take (cleanup, classify_unusable_page).
THEOREM CleanupExact == Spec => []CleanupIsExact
<1>1. Init => IInv /\ CleanupInv
  BY InitHolds, CleanupStarts
<1>2. IInv /\ CleanupInv /\ [Next]_vars => IInv' /\ CleanupInv'
  BY StepKeeps, CleanupStep DEF IInv
<1>. QED
  BY <1>1, <1>2, CleanupInvGoal, PTL DEF Spec
=============================================================================
