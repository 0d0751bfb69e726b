--------------------------- MODULE CorpusCleanup ---------------------------
(***************************************************************************)
(* The two scripts that delete crawl data, cleanup_unusable_pages and       *)
(* purge_runs_except, beside the service that indexes the same pages.       *)
(*                                                                         *)
(* Each step of a script is one call to MongoDB or Qdrant.  A script may    *)
(* die after any of them, and is run again by hand; one runs at a time.     *)
(***************************************************************************)
EXTENDS Integers, FiniteSets, FiniteSetsExt, Sequences, SequencesExt

CONSTANTS
    Runs, Pages,
    RunOf,      \* the run of each page
    Corpora,    \* what the pages may be like: functions from Pages to Kinds
    Commands,   \* the command lines an operator may give
    MaxScripts, \* scripts in all (a bound)
    MaxPosts    \* index jobs in all (a bound)

VARIABLES
    kind,       \* what each page is like
    runs,       \* crawl_runs
    rows,       \* crawl_pages
    links,      \* the pages that have crawl_links
    points,     \* the pages that have points in Qdrant
    jobs,       \* rag_index_jobs: the state of each run's job
    held,       \* the page each index job has read and not yet upserted
    script,     \* the command under way, or the last one
    pc,         \* its next call
    step,       \* which of fast_steps it is at
    batch,      \* the pages, or the runs, it is deleting
    unpurged,   \* those of them whose points are still to be deleted
    todo,       \* the pages the locale scan has not come to
    pending,    \* the pages it has found and not deleted
    counts,     \* CleanupCounts
    before,     \* the rows when the command was given
    cleaned,    \* the pages a cleanup has deleted
    scripts, posts

corpus == <<runs, rows, links, points>>
worker == <<jobs, held, posts>>
cursor == <<step, batch, unpurged, todo, pending>>
noted == <<before, cleaned, scripts>>
vars == <<kind, corpus, worker, script, pc, cursor, counts, noted>>

-----------------------------------------------------------------------------
(* What is wrong with a page.                                               *)

Kinds == [locale : BOOLEAN, sitemap : BOOLEAN, error : BOOLEAN, denied : BOOLEAN,
          reason : {"none", "blank", "text"}, blocks : BOOLEAN]

FastSteps == <<"failure", "failure", "http_error">>

\* Mutant: RobotsAllowed is compared with a boolean, which no row holds.
MatchesBoolean(i, k) == (i = 1 /\ k.reason # "none") \/ (i = 3 /\ k.error)

\* The query of each step: {"$gt": ""} holds of a blank reason too.
Matches(i, k) == \/ i = 1 /\ k.reason # "none"
                 \/ i = 2 /\ k.denied
                 \/ i = 3 /\ k.error

Fast(k) == \E i \in DOMAIN FastSteps : Matches(i, k)

\* classify_from_mongo_doc: the first that applies.
Classify(k) ==
    LET verdicts == <<<<k.locale, "locale">>, <<k.error, "http_error">>,
                      <<k.sitemap, "sitemap">>, <<k.denied, "failure">>,
                      <<k.reason = "text", "failure">>, <<~k.blocks, "no_content">>>>
        given == {i \in DOMAIN verdicts : verdicts[i][1]}
    IN IF given = {} THEN "usable" ELSE verdicts[Min(given)][2]

-----------------------------------------------------------------------------
NoLimit  == 0      \* --limit is refused below 1
Nothing  == [scanned |-> 0, deleted |-> 0, would |-> 0, purged |-> 0,
             reasons |-> <<>>]
NoScript == [op |-> "none"]
Cleanups == {c \in Commands : c.op = "cleanup"}
Purges   == {c \in Commands : c.op = "purge"}

\* main: --limit and --batch-size are at least 1.
ASSUME CommandsAssumption ==
    /\ \A c \in Cleanups : /\ c.limit \in Nat /\ c.batch \in Nat \ {0}
                            /\ c.scope \subseteq Runs
    /\ \A c \in Purges : c.keep \subseteq Runs /\ c.keep # {}
    /\ IsFiniteSet(Pages)
    /\ RunOf \in [Pages -> Runs]
    /\ Corpora \subseteq [Pages -> Kinds]

Init ==
    /\ kind \in Corpora
    /\ runs = Runs /\ rows = Pages /\ links = Pages /\ points = Pages
    /\ jobs = [r \in Runs |-> "none"]
    /\ held = [r \in Runs |-> {}]
    /\ script = NoScript /\ pc = "idle"
    /\ step = 1
    /\ batch = {} /\ unpurged = {} /\ todo = {} /\ pending = {}
    /\ counts = Nothing
    /\ before = {} /\ cleaned = {}
    /\ scripts = 0 /\ posts = 0

-----------------------------------------------------------------------------
(* cleanup_unusable_pages                                                   *)

budget_used == counts.deleted + counts.would

Spent(held_back) == script.limit # NoLimit /\ budget_used + held_back >= script.limit

\* scoped
InScope == {p \in rows : RunOf[p] \in script.scope}

GiveCleanup(c) ==
    /\ pc = "idle"
    /\ scripts < MaxScripts
    /\ scripts' = scripts + 1
    /\ script' = c
    /\ pc' = IF c.write THEN "fast" ELSE "count"
    /\ step' = 1
    /\ counts' = Nothing
    /\ before' = {p \in rows : RunOf[p] \in c.scope}
    /\ UNCHANGED <<kind, corpus, worker, batch, unpurged, todo, pending, cleaned>>

\* by_reason[label] += n
Tallied(reasons, label, n) ==
    [l \in DOMAIN reasons \cup {label} |->
        (IF l \in DOMAIN reasons THEN reasons[l] ELSE 0) + (IF l = label THEN n ELSE 0)]

DistinctRows(pages) == Cardinality({p \in pages : Fast(kind[p])})

\* A dry run counts each step, and then the rows any of them would take.
CountFast ==
    /\ pc = "count"
    /\ counts' = [counts EXCEPT
          !.scanned = DistinctRows(InScope),
          !.would = DistinctRows(InScope),
          !.reasons = FoldLeftDomain(
              LAMBDA reasons, i : Tallied(reasons, FastSteps[i],
                  Cardinality({p \in InScope : Matches(i, kind[p])})),
              @, FastSteps)]
    /\ pc' = "open"
    /\ UNCHANGED <<kind, corpus, worker, script, cursor, noted>>

\* take
Take == IF script.limit = NoLimit THEN script.batch
        ELSE Min({script.batch, script.limit - budget_used})

Found == {p \in InScope : Matches(step, kind[p])}

\* find(q).limit(take): the first rows, in whatever order.
FindBatch ==
    /\ pc = "fast"
    /\ ~Spent(0)
    /\ Found # {}
    /\ \E b \in SUBSET Found :
          /\ Cardinality(b) = Min({Take, Cardinality(Found)})
          /\ batch' = b /\ unpurged' = b
          /\ counts' = [counts EXCEPT !.scanned = @ + Cardinality(b),
                           !.reasons = Tallied(@, FastSteps[step], Cardinality(b))]
    /\ pc' = "purge"
    /\ UNCHANGED <<kind, corpus, worker, script, step, todo, pending, noted>>

\* The step is through, or the budget is: the next is entered all the same.
NextStep ==
    /\ pc = "fast"
    /\ Spent(0) \/ Found = {}
    /\ counts' = [counts EXCEPT !.reasons = Tallied(@, FastSteps[step], 0)]
    /\ IF step < Len(FastSteps) THEN step' = step + 1 /\ UNCHANGED pc
       ELSE pc' = "open" /\ UNCHANGED step
    /\ UNCHANGED <<kind, corpus, worker, script, batch, unpurged, todo, pending,
                   noted>>

\* _purge_vectors: one call for each page.
PurgeVectors(p) ==
    /\ pc = "purge"
    /\ p \in unpurged
    /\ points' = points \ {p}
    /\ unpurged' = unpurged \ {p}
    /\ UNCHANGED <<kind, runs, rows, links, worker, script, pc, step, batch, todo,
                   pending, counts, noted>>

\* Mutant: the links and rows do not wait for the last page's points.
SomeArePurged == unpurged # batch

AllArePurged == unpurged = {}

\* Mutant: the pages of the locale scan keep their links.
DeleteFastLinks ==
    /\ pc = "purge"
    /\ AllArePurged
    /\ links' = IF step \in DOMAIN FastSteps THEN links \ batch ELSE links
    /\ counts' = [counts EXCEPT !.purged = @ + Cardinality(batch)]
    /\ pc' = "rows"
    /\ UNCHANGED <<kind, runs, rows, points, worker, script, cursor, noted>>

DeleteLinks ==
    /\ pc = "purge"
    /\ AllArePurged
    /\ links' = IF script.links THEN links \ batch ELSE links
    /\ counts' = [counts EXCEPT !.purged = @ + Cardinality(batch)]
    /\ pc' = "rows"
    /\ UNCHANGED <<kind, runs, rows, points, worker, script, cursor, noted>>

\* ... and back to the step, or to the scan, that found them.
DeleteRows ==
    /\ pc = "rows"
    /\ rows' = rows \ batch
    /\ cleaned' = cleaned \cup batch
    /\ counts' = [counts EXCEPT !.deleted = @ + Cardinality(batch \cap rows)]
    /\ batch' = {}
    /\ pc' = IF step \in DOMAIN FastSteps THEN "fast" ELSE "scan"
    /\ UNCHANGED <<kind, runs, links, points, worker, script, step, unpurged, todo,
                   pending, before, scripts>>

\* The locale scan is left out when it is not asked for, or nothing is left to
\* spend.  Its cursor skips what the fast steps would take ($nor).
OpenScan ==
    /\ pc = "open"
    /\ step' = Len(FastSteps) + 1
    /\ IF script.scan /\ ~Spent(0)
       THEN todo' = {p \in InScope : ~Fast(kind[p])} /\ pc' = "scan"
       ELSE pc' = "done" /\ UNCHANGED todo
    /\ UNCHANGED <<kind, corpus, worker, script, batch, unpurged, pending, counts,
                   noted>>

ScanIsSpent == Spent(Cardinality(pending))

\* One page of the cursor; only "locale" is deleted.
ScanPage(p) ==
    /\ pc = "scan"
    /\ p \in todo
    /\ ~ScanIsSpent
    /\ Cardinality(pending) < script.batch
    /\ todo' = todo \ {p}
    /\ LET found == Classify(kind[p]) = "locale" IN
       /\ pending' = IF found THEN pending \cup {p} ELSE pending
       /\ counts' = [counts EXCEPT !.scanned = @ + 1,
                        !.reasons = IF found THEN Tallied(@, "locale", 1) ELSE @]
    /\ UNCHANGED <<kind, corpus, worker, script, pc, step, batch, unpurged, noted>>

\* _delete_ids: a full batch, or what is left at the end; a dry run only counts.
FlushPending ==
    /\ pc = "scan"
    /\ pending # {}
    /\ Cardinality(pending) >= script.batch \/ todo = {} \/ ScanIsSpent
    /\ pending' = {}
    /\ IF script.write
       THEN /\ batch' = pending /\ unpurged' = pending /\ pc' = "purge"
            /\ UNCHANGED counts
       ELSE /\ counts' = [counts EXCEPT !.would = @ + Cardinality(pending)]
            /\ UNCHANGED <<batch, unpurged, pc>>
    /\ UNCHANGED <<kind, corpus, worker, script, step, todo, noted>>

EndScan ==
    /\ pc = "scan"
    /\ pending = {}
    /\ todo = {} \/ ScanIsSpent
    /\ todo' = {}
    /\ pc' = "done"
    /\ UNCHANGED <<kind, corpus, worker, script, step, batch, unpurged, pending, counts,
                   noted>>

-----------------------------------------------------------------------------
(* purge_runs_except                                                        *)

InFlight(r) == jobs[r] = "pending"

\* The keep-set must be there; what is doomed is read once.
GivePurge(c) ==
    /\ pc = "idle"
    /\ scripts < MaxScripts
    /\ c.keep \subseteq runs
    /\ scripts' = scripts + 1
    /\ script' = c
    /\ batch' = runs \ c.keep
    /\ pc' = "check"
    /\ before' = rows
    /\ UNCHANGED <<kind, corpus, worker, step, unpurged, todo, pending, counts,
                   cleaned>>

\* Refused when a doomed run has a job in flight; a dry run ends here too.
CheckJobs ==
    /\ pc = "check"
    /\ pc' = IF script.apply /\ \A r \in batch : ~InFlight(r) THEN "jobs" ELSE "done"
    /\ UNCHANGED <<kind, corpus, worker, script, cursor, counts, noted>>

Doomed(p) == RunOf[p] \in batch

PurgeJobs ==
    /\ pc = "jobs"
    /\ jobs' = [r \in Runs |-> IF r \in batch THEN "none" ELSE jobs[r]]
    /\ pc' = "purge_links"
    /\ UNCHANGED <<kind, corpus, held, posts, script, cursor, counts, noted>>

PurgeLinks ==
    /\ pc = "purge_links"
    /\ links' = {p \in links : ~Doomed(p)}
    /\ pc' = "purge_pages"
    /\ UNCHANGED <<kind, runs, rows, points, worker, script, cursor, counts, noted>>

\* Mutant: the run document goes before its pages.
PurgeRunsFirst ==
    /\ pc = "purge_pages"
    /\ runs' = runs \ batch
    /\ pc' = "purge_runs"
    /\ UNCHANGED <<kind, rows, links, points, worker, script, cursor, counts, noted>>

PurgePages ==
    /\ pc = "purge_pages"
    /\ rows' = {p \in rows : ~Doomed(p)}
    /\ pc' = "purge_runs"
    /\ UNCHANGED <<kind, runs, links, points, worker, script, cursor, counts, noted>>

PurgeRuns ==
    /\ pc = "purge_runs"
    /\ runs' = runs \ batch
    /\ pc' = "done"
    /\ UNCHANGED <<kind, rows, links, points, worker, script, cursor, counts, noted>>

\* The script dies, or a call raises and nothing after it is done; or it is over
\* and its figures have been read.
ScriptEnds ==
    /\ pc # "idle"
    /\ pc' = "idle"
    /\ batch' = {} /\ unpurged' = {} /\ todo' = {} /\ pending' = {}
    /\ step' = 1
    /\ UNCHANGED <<kind, corpus, worker, script, counts, noted>>

-----------------------------------------------------------------------------
(* The service, as far as these scripts meet it (IndexService, PageIndex).  *)

\* start_index: a run that is there.
Post(r) ==
    /\ posts < MaxPosts
    /\ r \in runs
    /\ jobs[r] # "pending"
    /\ held[r] = {}
    /\ posts' = posts + 1
    /\ jobs' = [jobs EXCEPT ![r] = "pending"]
    /\ UNCHANGED <<kind, corpus, held, script, pc, cursor, counts, noted>>

\* The page stream, past _skip_unusable.
ReadPage(p) ==
    LET r == RunOf[p] IN
    /\ jobs[r] = "pending"
    /\ held[r] = {}
    /\ p \in rows
    /\ Classify(kind[p]) = "usable"
    /\ held' = [held EXCEPT ![r] = {p}]
    /\ UNCHANGED <<kind, corpus, jobs, posts, script, pc, cursor, counts, noted>>

Upsert(r) ==
    /\ held[r] # {}
    /\ points' = points \cup held[r]
    /\ held' = [held EXCEPT ![r] = {}]
    /\ UNCHANGED <<kind, runs, rows, links, jobs, posts, script, pc, cursor, counts,
                   noted>>

JobEnds(r) ==
    /\ jobs[r] = "pending"
    /\ held[r] = {}
    /\ jobs' = [jobs EXCEPT ![r] = "ended"]
    /\ UNCHANGED <<kind, corpus, held, posts, script, pc, cursor, counts, noted>>

Next ==
    \/ \E c \in Cleanups : GiveCleanup(c)
    \/ \E c \in Purges : GivePurge(c)
    \/ CountFast \/ FindBatch \/ NextStep
    \/ \E p \in Pages : PurgeVectors(p) \/ ScanPage(p) \/ ReadPage(p)
    \/ DeleteLinks \/ DeleteRows
    \/ OpenScan \/ FlushPending \/ EndScan
    \/ CheckJobs \/ PurgeJobs \/ PurgeLinks \/ PurgePages \/ PurgeRuns
    \/ ScriptEnds
    \/ \E r \in Runs : Post(r) \/ Upsert(r) \/ JobEnds(r)

Spec == Init /\ [][Next]_vars

-----------------------------------------------------------------------------
\* Every variable holds what the collections and the scripts can hold.
TypeOK ==
    /\ kind \in Corpora
    /\ runs \subseteq Runs
    /\ rows \subseteq Pages /\ links \subseteq Pages /\ points \subseteq Pages
    /\ jobs \in [Runs -> {"none", "pending", "ended"}]
    /\ \A r \in Runs : held[r] \subseteq {p \in Pages : RunOf[p] = r}
    /\ script \in Commands \cup {NoScript}
    /\ step \in 1..Len(FastSteps) + 1
    /\ unpurged \subseteq Pages /\ batch \subseteq Pages \cup Runs
    /\ todo \cup pending \subseteq rows
    /\ counts.deleted \in 0..Cardinality(Pages) /\ counts.would \in 0..Cardinality(Pages)

Cleaning == script.op = "cleanup"
Over     == Cleaning /\ pc = "done"

\* When a cleanup deletes a rejected page none of its points is left, so that no
\* quote can be retrieved of a page that cannot be cited, and it never gets one
\* again, whatever job of its run is under way or posted later (_delete_ids).
RejectsStayGone ==
    \A p \in cleaned : Classify(kind[p]) # "usable" => p \notin points

\* Children first: a row a cleanup deletes leaves no link behind, unless links
\* were to be left, and a run document goes only when no row or link of the run
\* is left to name (_delete_ids, purge_runs_except).
ChildrenGoFirst ==
    [][/\ \A p \in rows \ rows' : Cleaning /\ script.links => p \notin links'
       /\ \A p \in rows' \cup links' : RunOf[p] \in runs']_vars

\* What the classifier, which the indexer goes by, says of a row that the queries
\* of the fast steps are about; and of any row that may go.
Rejected(k) == \/ Classify(k) \in {"failure", "http_error"}
               \/ script.scan /\ Classify(k) = "locale"
MayGo(k) == Classify(k) \notin {"usable", "no_content"} \/ k.reason = "blank"

\* A write that came to its end has taken every row the indexer would skip as
\* failed, an error page or of another locale, unless its budget was spent, no row
\* the indexer would read or that merely has no content, says how many, and stays
\* within --limit over all its steps and batches; and a dry run without a limit
\* says how many a write would take, though the steps overlap: the Mongo queries
\* and the Python classifier agree (cleanup, classify_unusable_page).
CleanupIsExact ==
    Over =>
        IF script.write
        THEN /\ \A p \in before \ rows : MayGo(kind[p])
             /\ counts.deleted = Cardinality(before \ rows)
             /\ script.limit # NoLimit => counts.deleted <= script.limit
             /\ ~Spent(0) => \A p \in InScope : ~Rejected(kind[p])
        ELSE script.limit = NoLimit =>
             counts.would = Cardinality({p \in before :
                 Fast(kind[p]) \/ (script.scan /\ Classify(kind[p]) = "locale")})
=============================================================================
