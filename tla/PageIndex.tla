------------------------------ MODULE PageIndex ------------------------------
(***************************************************************************)
(* What one index attempt does with the pages of its run, text by text:     *)
(* the loop of IndexService._index_run, _admit_page_nodes, and the flush of  *)
(* LlamaIndexEngine (embed_and_upsert, the vector cache, the batches and    *)
(* the embedding circuit).  IndexService models the same attempt from the   *)
(* outside: its lease, its saves, kills and restarts; all of these show     *)
(* here as Abandon, which ends the attempt at any await point.              *)
(***************************************************************************)
EXTENDS Chunking

CONSTANTS
    Runs,
    PageLists,      \* what crawl_pages may hold of a run when it is read
    Models,         \* embedding models the service may be deployed with
    Width,          \* the width of each model's vectors
    BatchSize,      \* embed_batch_size: flush threshold and batch limit
    MaxTokens,      \* embedding_max_batch_tokens
    MaxAttempts, MaxFaults, MaxDeploys      \* bounds of the model

\* A run's pages have ids of their own.  A batch takes any chunk, so
\* partition_embedding_batches never refuses one.
ASSUME PageIndexAssumption ==
    /\ \A pages \in PageLists :
          /\ DOMAIN pages = 1..Len(pages) /\ Len(pages) \in Nat
          /\ \A i, j \in DOMAIN pages : pages[i].id = pages[j].id => i = j
          /\ \A i \in DOMAIN pages : pages[i].blocks \in Seq([kind : STRING, text : Seq(Tokens)])
    /\ Width \in [Models -> Nat]
    /\ BatchSize \in Nat \ {0} /\ MaxTokens \in Nat /\ ParentSize <= MaxTokens
    /\ MaxAttempts \in Nat /\ MaxFaults \in Nat /\ MaxDeploys \in Nat

VARIABLES
    model,      \* the model this process embeds with
    points,     \* the collection in Qdrant
    cache,      \* rag_vector_cache
    job,        \* the attempt: its local variables and its status
    flush,      \* the flush under way: the locals of _embed_deduplicated
    left        \* what the bounds leave

vars == <<model, points, cache, job, flush, left>>

NoCounts == [seen |-> 0, english |-> 0, unusable |-> 0, lang |-> 0,
             empty |-> 0, upserted |-> 0, repeat |-> 0, stub |-> 0]

NoFlush == [missing |-> <<>>, found |-> <<>>, batches |-> <<>>, vectors |-> <<>>]

\* pc is the await the attempt is at; `at` counts the pages read; `owners` is
\* text_owners; `quarantine` the items of the file the circuit wrote.
NewJob(run, pages) ==
    [pc |-> "delete", state |-> "running", run |-> run, pages |-> pages, at |-> 0,
     pending |-> <<>>, owners |-> <<>>, counts |-> NoCounts, quarantine |-> <<>>]

\* No attempt is under way, and what the last one held in memory is gone.
NoJob(run, state) == [NewJob(run, <<>>) EXCEPT !.pc = "idle", !.state = state]

Init ==
    /\ model \in Models
    /\ points = {} /\ cache = {}
    /\ \E r \in Runs : job = NoJob(r, "pending")
    /\ flush = NoFlush
    /\ left = [attempts |-> MaxAttempts, faults |-> MaxFaults, deploys |-> MaxDeploys]

RunPoints(run) == {p \in points : p.run = run}

Pages   == UNION {ToSet(pages) : pages \in PageLists}
PageIds == {page.id : page \in Pages}

\* What page_to_nodes makes of each page.
UnitsOf == [page \in Pages |-> Units(page.blocks)]
NodesOf == [page \in Pages |-> PageNodes(page, UnitsOf[page])]

\* Mutant: the key of a vector is its text.
CacheKeyNoModel(text) == <<text>>

\* The model's answer for a text, and where the cache keeps it.
Vector(text)   == [model |-> model, text |-> text]
CacheKey(text) == <<model, text>>

\* A failure costs one of MaxFaults.
Faulty == left.faults > 0 /\ left' = [left EXCEPT !.faults = @ - 1]

-----------------------------------------------------------------------------
(* The attempt.                                                             *)

\* The worker takes a run; what its pages are is read from Mongo.
Begin(run) ==
    /\ job.pc = "idle" /\ left.attempts > 0
    /\ \E pages \in PageLists : job' = NewJob(run, pages)
    /\ left' = [left EXCEPT !.attempts = @ - 1]
    /\ UNCHANGED <<model, points, cache, flush>>

\* _delete_run_points, on every attempt.
DeleteRunPoints ==
    /\ job.pc = "delete"
    /\ points' = points \ RunPoints(job.run)
    /\ job' = [job EXCEPT !.pc = "pages"]
    /\ UNCHANGED <<model, cache, flush, left>>

\* _skip_unusable, and the pages_seen of the loop.
Skip(counts, verdict) ==
    [counts EXCEPT !.seen = @ + 1,
                   !.unusable = @ + 1,
                   !.lang = IF verdict = "non_english" THEN @ + 1 ELSE @,
                   !.empty = IF verdict = "extract_empty" THEN @ + 1 ELSE @]

\* Mutant: the digest of the text as it was crawled.
TextDigestRaw(node) == node.text

\* textDigest: the identity of the text the embedder receives.
TextDigest(node) == Sanitize(node.text)

\* _admit_page_nodes: what it keeps, and text_owners after it.
Admitted(nodes, owners, page) ==
    Filter(nodes, {n \in ToSet(nodes) : TextDigest(n) \in DOMAIN owners
                                            => owners[TextDigest(n)] = page.id})

OwnersAfter(admitted, owners, page) ==
    [d \in DOMAIN owners \cup {TextDigest(n) : n \in ToSet(admitted)} |->
        IF d \in DOMAIN owners THEN owners[d] ELSE page.id]

SkipPage(page) ==
    /\ Verdict(page) # "indexed"
    /\ job' = [job EXCEPT !.at = @ + 1,
                          !.counts = Skip(@, Verdict(page))]

IndexPage(page) ==
    LET nodes == NodesOf[page]
        admitted == Admitted(nodes, job.owners, page)
        pending == job.pending \o admitted
        counts == [job.counts EXCEPT !.seen = @ + 1,
                                     !.english = @ + 1,
                                     !.stub = @ + StubsSkipped(UnitsOf[page]),
                                     !.repeat = @ + (Len(nodes) - Len(admitted))]
    IN /\ Verdict(page) = "indexed"
       /\ job' = [job EXCEPT
             !.at = @ + 1,
             !.owners = OwnersAfter(admitted, @, page),
             !.counts = counts,
             !.pending = pending,
             !.pc = IF Len(pending) >= BatchSize THEN "cache" ELSE "pages"]

\* One page of the loop.
ReadPage ==
    /\ job.pc = "pages" /\ job.at < Len(job.pages)
    /\ LET page == job.pages[job.at + 1] IN SkipPage(page) \/ IndexPage(page)
    /\ UNCHANGED <<model, points, cache, flush, left>>

\* After the loop: what is pending is flushed, or the run is complete.
FlushRest ==
    /\ job.pc = "pages" /\ job.at = Len(job.pages) /\ job.pending # <<>>
    /\ job' = [job EXCEPT !.pc = "cache"]
    /\ UNCHANGED <<model, points, cache, flush, left>>

Finish ==
    /\ job.pc = "pages" /\ job.at = Len(job.pages) /\ job.pending = <<>>
    /\ job' = [job EXCEPT !.pc = "idle", !.state = "complete"]
    /\ UNCHANGED <<model, points, cache, flush, left>>

-----------------------------------------------------------------------------
(* The flush.                                                               *)

Texts == [i \in DOMAIN job.pending |-> Sanitize(job.pending[i].text)]

\* list(dict.fromkeys(texts))
Distinct(texts) ==
    LET first == Filter([i \in DOMAIN texts |-> i],
                        {i \in DOMAIN texts : \A j \in 1..(i - 1) : texts[j] # texts[i]})
    IN [n \in DOMAIN first |-> texts[first[n]]]

BatchTokens(batch) == Total([i \in DOMAIN batch |-> Measure(batch[i])])

\* The batches of partition_embedding_batches, but for the one it is filling
\* when the texts end.
Filled(texts) ==
    LET full(acc, t) ==
            /\ acc.current # <<>>
            /\ \/ Len(acc.current) >= BatchSize
               \/ acc.tokens + Measure(t) > MaxTokens
        place(acc, t) ==
            IF full(acc, t)
            THEN [done |-> Append(acc.done, acc.current), current |-> <<t>>,
                  tokens |-> Measure(t)]
            ELSE [done |-> acc.done, current |-> Append(acc.current, t),
                  tokens |-> acc.tokens + Measure(t)]
        filling[n \in 0..Len(texts)] ==
            IF n = 0 THEN [done |-> <<>>, current |-> <<>>, tokens |-> 0]
            ELSE place(filling[n - 1], texts[n])
    IN filling[Len(texts)]

Partition(texts) ==
    LET acc == Filled(texts)
    IN IF acc.current = <<>> THEN acc.done ELSE Append(acc.done, acc.current)

\* VectorCache.get_many: an entry under the text's key, of the right width.
Hits(texts) ==
    [t \in {t \in ToSet(texts) : \E c \in cache : c.key = CacheKey(t)
                                     /\ Width[c.vector.model] = Width[model]} |->
        (CHOOSE c \in cache : c.key = CacheKey(t)).vector]

\* _embed_deduplicated with what the cache answered: the misses, batch by batch.
Ask(found) ==
    LET missing == Filter(Distinct(Texts), ToSet(Texts) \ DOMAIN found)
    IN /\ flush' = [missing |-> missing, found |-> found,
                    batches |-> Partition(missing), vectors |-> <<>>]
       /\ job' = [job EXCEPT !.pc = IF missing = <<>> THEN "upsert" ELSE "embed"]

\* A read that fails is a miss of every text.
ReadCache ==
    /\ job.pc = "cache"
    /\ \/ Ask(Hits(Texts)) /\ UNCHANGED left
       \/ Ask(<<>>) /\ Faulty
    /\ UNCHANGED <<model, points, cache>>

\* _embed_batch: one call, one vector a text, in order.
EmbedBatch ==
    /\ job.pc = "embed"
    /\ LET batch == Head(flush.batches) IN
       flush' = [flush EXCEPT
                    !.batches = Tail(@),
                    !.vectors = @ \o [i \in DOMAIN batch |-> Vector(batch[i])]]
    /\ job' = [job EXCEPT !.pc = IF Tail(flush.batches) = <<>> THEN "put" ELSE @]
    /\ UNCHANGED <<model, points, cache, left>>

\* zip(missing, vectors)
Fresh ==
    [t \in ToSet(flush.missing) |->
        flush.vectors[CHOOSE i \in DOMAIN flush.missing : flush.missing[i] = t]]

\* VectorCache.put_many: $setOnInsert under a unique key.  A write that fails
\* has landed up to where the connection broke, and the run goes on.
Put(texts) ==
    cache' = cache \cup {[key |-> CacheKey(t), vector |-> Fresh[t]] :
                            t \in {t \in ToSet(texts) :
                                      \A c \in cache : c.key # CacheKey(t)}}

WriteCache ==
    /\ job.pc = "put"
    /\ \/ Put(flush.missing) /\ UNCHANGED left
       \/ /\ Faulty
          /\ \E n \in 0..(Len(flush.missing) - 1) : Put(SubSeq(flush.missing, 1, n))
    /\ job' = [job EXCEPT !.pc = "upsert"]
    /\ UNCHANGED <<model, points, flush>>

\* The point of a pending node: its embedding is looked up by its text.
Point(node) ==
    LET text == Sanitize(node.text)
    IN [run |-> job.run, page |-> node.page, key |-> node.key, text |-> text,
        model |-> model,
        vector |-> IF text \in DOMAIN Fresh THEN Fresh[text] ELSE flush.found[text]]

\* async_add of these nodes, in order: a point of the same id is replaced.
SameId(p, q) == p.run = q.run /\ p.page = q.page /\ p.key = q.key

Upserted(nodes) ==
    LET last == {i \in DOMAIN nodes : \A j \in (i + 1)..Len(nodes) :
                    ~SameId(Point(nodes[i]), Point(nodes[j]))}
    IN {p \in points : \A n \in ToSet(nodes) : ~SameId(p, Point(n))}
           \cup {Point(nodes[i]) : i \in last}

Upsert ==
    /\ job.pc = "upsert"
    /\ points' = Upserted(job.pending)
    /\ job' = [job EXCEPT !.pc = "pages", !.pending = <<>>,
                          !.counts.upserted = @ + Len(job.pending)]
    /\ flush' = NoFlush
    /\ UNCHANGED <<model, cache, left>>

-----------------------------------------------------------------------------
(* Failures that end the attempt.                                           *)

\* metadata_list of the batch under way: of each text, the page of the first
\* node that carries it.
SourcePage(text) ==
    job.pending[CHOOSE i \in DOMAIN Texts :
                   Texts[i] = text /\ \A j \in 1..(i - 1) : Texts[j] # text].page

\* Mutant: every batch is sliced from the start.
OffsetStays == 0

Offset == Len(flush.vectors)

BatchItems ==
    LET batch == Head(flush.batches)
    IN [i \in DOMAIN batch |-> [text |-> batch[i],
                                page |-> SourcePage(flush.missing[Offset + i])]]

\* An embed call raises: the circuit opens.  The file of the batch is written,
\* or the quarantine directory is unusable.  The points stay.
CircuitOpens ==
    /\ job.pc = "embed" /\ Faulty
    /\ \E items \in {BatchItems, <<>>} :
          job' = [job EXCEPT !.pc = "idle", !.state = "failed", !.quarantine = items]
    /\ flush' = NoFlush
    /\ UNCHANGED <<model, points, cache>>

\* What the collection may hold when the call under way breaks off: a delete
\* may have been applied, an upsert has written some of its nodes.
Landed ==
    CASE job.pc = "delete" -> {points, points \ RunPoints(job.run)}
      [] job.pc = "upsert" -> {Upserted(SubSeq(job.pending, 1, n)) :
                                  n \in 0..Len(job.pending)}
      [] OTHER -> {points}

\* Any other exception: the delete, the page cursor, the entity lookup, or
\* the upsert.
Fails ==
    /\ job.pc \in {"delete", "pages", "upsert"} /\ Faulty
    /\ points' \in Landed
    /\ job' = [job EXCEPT !.pc = "idle", !.state = "failed"]
    /\ flush' = NoFlush
    /\ UNCHANGED <<model, cache>>

\* Killed, cancelled, out of its lease, or the process is gone.
Abandon ==
    /\ job.pc # "idle" /\ Faulty
    /\ points' \in Landed
    /\ \/ UNCHANGED cache
       \/ job.pc = "put" /\ \E n \in DOMAIN flush.missing :
                               Put(SubSeq(flush.missing, 1, n))
    /\ job' = NoJob(job.run, "abandoned")
    /\ flush' = NoFlush
    /\ UNCHANGED model

\* A new process, with embedding_model set to another model.
Deploy ==
    /\ job.pc = "idle" /\ left.deploys > 0
    /\ \E m \in Models \ {model} : model' = m
    /\ left' = [left EXCEPT !.deploys = @ - 1]
    /\ UNCHANGED <<points, cache, job, flush>>

Next ==
    \/ \E run \in Runs : Begin(run)
    \/ DeleteRunPoints \/ ReadPage \/ FlushRest \/ Finish
    \/ ReadCache \/ EmbedBatch \/ WriteCache \/ Upsert
    \/ CircuitOpens \/ Fails \/ Abandon \/ Deploy

Spec == Init /\ [][Next]_vars

-----------------------------------------------------------------------------
(* Properties.                                                              *)

Counts == [DOMAIN NoCounts -> Nat]
\* Types: the variables hold what the code may put there; a batch is in hand
\* exactly while the attempt is at an embed call, and every text that was missing
\* then has a vector: the branch of _embed_deduplicated for answers of another
\* length is never taken.
TypeOK ==
    /\ model \in Models
    /\ \A p \in points : /\ p.run \in Runs /\ p.page \in PageIds
                         /\ p.model \in Models /\ p.vector.model \in Models
                         /\ Len(p.text) > 0
    /\ \A c \in cache : c.vector.model \in Models
    /\ job.pc \in {"idle", "delete", "pages", "cache", "embed", "put", "upsert"}
    /\ job.state \in {"pending", "running", "complete", "failed", "abandoned"}
    /\ job.state = "running" <=> job.pc # "idle"
    /\ job.run \in Runs /\ job.pages \in PageLists \cup {<<>>}
    /\ job.at \in 0..Len(job.pages)
    /\ job.counts \in Counts
    /\ \A n \in ToSet(job.pending) : n.page \in PageIds
    /\ \A d \in DOMAIN job.owners : job.owners[d] \in PageIds
    /\ flush.batches # <<>> <=> job.pc = "embed"
    /\ job.pc \in {"put", "upsert"} => Len(flush.vectors) = Len(flush.missing)

\* "A node can never receive another node's vector": whatever was cached by
\* earlier runs, under whichever model, lost, or read back late, a point's
\* vector is the one its own model computes of its own text.
VectorsMatch ==
    \A p \in points : p.vector = [model |-> p.model, text |-> p.text]

\* One point per distinct embedded text per run, but for the repeats within
\* one page: two points of a run with one text are of one page, also after
\* attempts that failed half way and were taken up again.
OnePageOwnsText ==
    \A p, q \in points : p.run = q.run /\ p.text = q.text => p.page = q.page

\* The counters of the status add up: every page read is counted once, and
\* every node of the indexed pages is upserted, pending, or a repeat; while no
\* call has failed, chunks_upserted is what the collection holds of the run.
CountersAddUp ==
    LET counts == job.counts
        nodes == Total([i \in 1..job.at |-> IF Verdict(job.pages[i]) = "indexed"
                                            THEN Len(NodesOf[job.pages[i]]) ELSE 0])
    IN /\ counts.seen = job.at /\ counts.seen = counts.english + counts.unusable
       /\ counts.lang + counts.empty <= counts.unusable
       /\ nodes = counts.upserted + Len(job.pending) + counts.repeat
       /\ job.state = "complete" \/ job.pc \notin {"idle", "delete"} =>
              counts.upserted = Cardinality(RunPoints(job.run))

\* Whether text holds span.
Holds(text, span) ==
    \E i \in 0..(Len(text) - Len(span)) : SubSeq(text, i + 1, i + Len(span)) = span

\* The passages of a section that are no longer than the overlap of its
\* windows.  Of these, the index may drop what only lies in windows whose every
\* child is a stub.
Passages(text) ==
    UNION {{SubSeq(text, i, j) : j \in i..Min({i + ParentOverlap - 1, Len(text)})} :
               i \in DOMAIN text}

Quotes(section) ==
    LET windows == ToSet(ChunkText(section.text, ParentSize, ParentOverlap))
        hollow == {w \in windows : \A c \in ToSet(Children(w)) :
                                      IsStubText(c, section.title)}
        holding(quote) == {w \in windows : Holds(w, quote)}
    IN {Sanitize(quote) : quote \in
           {q \in Passages(section.text) : holding(q) = {} \/ ~(holding(q) \subseteq hollow)}}

QuotesOf ==
    [page \in Pages |-> UNION {Quotes(s) : s \in ToSet(Sections(page.blocks))}]

\* A short passage of a page can be quoted once the run is complete: some
\* point of the run holds it whole, wherever windows, words, batches and
\* repeats on other pages were cut or dropped.
QuotesSurvive ==
    job.state = "complete" =>
    \A page \in ToSet(job.pages) : Verdict(page) = "indexed" =>
    \A quote \in QuotesOf[page] :
        \E p \in RunPoints(job.run) : Holds(p.text, quote)

\* What is sent to the model fits it: no text measures more than a parent may,
\* so none is truncated, no batch exceeds its limits, and the batches hold each
\* text that is still missing once, in order.
BatchesFit ==
    job.pc = "embed" =>
    /\ \A b \in ToSet(flush.batches) :
          /\ Len(b) \in 1..BatchSize
          /\ BatchTokens(b) <= MaxTokens
          /\ \A t \in ToSet(b) : Measure(t) <= ParentSize
    /\ FlattenSeq(flush.batches) =
          SubSeq(flush.missing, Len(flush.vectors) + 1, Len(flush.missing))

\* What the circuit quarantines is what failed: each item names a page that
\* carries its text, and no point of the run has that text.
QuarantineIsExact ==
    \A item \in ToSet(job.quarantine) :
        /\ \E page \in ToSet(job.pages) :
              /\ page.id = item.page
              /\ \E n \in ToSet(NodesOf[page]) : Sanitize(n.text) = item.text
        /\ \A p \in RunPoints(job.run) : p.text # item.text
=============================================================================
