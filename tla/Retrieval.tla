------------------------------ MODULE Retrieval ------------------------------
(***************************************************************************)
(* POST /v1/query: the two halves of the hybrid search, their reciprocal    *)
(* rank fusion, the pool, the optional reranker and the selection of        *)
(* passages page by page (query.py, llama_engine.py, rerank.py).            *)
(*                                                                         *)
(* A text is a model value.  What the two searches and the reranker answer  *)
(* is chosen; every step of the selection loop is an action.               *)
(***************************************************************************)
EXTENDS Integers, Sequences, FiniteSets

CONSTANTS
    Points,      \* the points the collection may hold
    Pages, Texts,
    NoText,      \* an empty text
    Stores,      \* what it may hold: [a set of points -> payloads]
    Requests,    \* QueryRequest: [topK, graph, preferParent, preferChild, role, where]
    RRF_K,
    DenseLimit,  \* hybrid_dense_limit
    PoolSize,    \* rerank_pool_size
    GraphTopK    \* the least top_k of graph mode

Roles == {"parent", "child"}

\* llama_nodes: a parent point has no childText, a child point both, and each
\* says in `text` what was embedded.  `tags` are the other indexed fields.
IsPayload(p) ==
    /\ p.page \in Pages
    /\ p.parent \in Texts \ {NoText}
    /\ p.role \in Roles
    /\ p.role = "parent" => p.text = p.parent /\ p.child = NoText
    /\ p.role = "child" => p.text = p.child /\ p.child \in Texts \ {NoText}

\* A collection holds finitely many points.
ASSUME StoreAssumption ==
    /\ IsFiniteSet(Points)
    /\ NoText \in Texts
    /\ \A s \in Stores : /\ DOMAIN s \subseteq Points
                         /\ \A p \in DOMAIN s : IsPayload(s[p])

ASSUME LimitAssumption ==
    /\ RRF_K \in Nat /\ DenseLimit \in Nat /\ PoolSize \in Nat /\ GraphTopK \in Nat
    /\ \A r \in Requests : /\ r.topK \in Nat \ {0}
                           /\ {r.graph, r.preferParent, r.preferChild} \subseteq BOOLEAN
                           /\ r.role \in Roles \cup {"any"}

VARIABLES
    store,       \* the points of the collection
    reranking,   \* a reranker is enabled
    asked,       \* the request as it came
    pc,
    halves,      \* what the meaning and the keyword half returned, best first
    candidates,  \* their fusion
    ranked,      \* the pool in rank order
    measured,    \* RerankOutcome.ranked
    cursor,      \* for each page, the last of its passages that was looked at
    turn,        \* the passage whose page has its turn
    round,       \* which pass of the while loop
    selected,    \* [at, round]: the passages selected, by rank
    seenText, seenParents,
    answer       \* QueryResponse: [retrieval, chunks]

search == <<halves, candidates>>
loop   == <<cursor, turn, round, selected, seenText, seenParents>>
vars   == <<store, reranking, asked, pc, search, ranked, measured, loop, answer>>

Larger(a, b)  == IF a >= b THEN a ELSE b
Smaller(a, b) == IF a <= b THEN a ELSE b

Values(seq) == {seq[i] : i \in DOMAIN seq}

-----------------------------------------------------------------------------
(* The request.                                                             *)

Forced(r) == r.preferChild /\ ~r.preferParent

\* _query_graph asks for parents, and for enough passages to cluster.
Wanted(r) ==
    IF r.graph
    THEN [r EXCEPT !.preferParent = ~Forced(r), !.preferChild = Forced(r),
                   !.topK = Larger(r.topK, GraphTopK)]
    ELSE r

request == Wanted(asked)

fetch_target == Larger(2 * request.topK, DenseLimit)

\* chunk_role, or children when a preference is given.
search_role ==
    IF request.role # "any" THEN request.role
    ELSE IF request.preferParent \/ request.preferChild THEN "child" ELSE "any"

\* build_metadata_filters: every condition given must hold.
Matching ==
    {p \in DOMAIN store : /\ search_role \in {"any", store[p].role}
                          /\ request.where \subseteq store[p].tags}

collapse_parents == request.preferParent /\ ~request.preferChild

FirstText(texts) ==
    IF \E i \in DOMAIN texts : texts[i] # NoText
    THEN texts[CHOOSE i \in DOMAIN texts :
                  texts[i] # NoText /\ \A j \in 1..(i - 1) : texts[j] = NoText]
    ELSE NoText

\* _return_text
ReturnText(p) ==
    LET c == store[p] IN
    IF request.preferParent /\ ~request.preferChild
    THEN FirstText(<<c.parent, c.text, c.child>>)
    ELSE IF request.preferChild /\ ~request.preferParent
         THEN FirstText(<<c.child, c.text, c.parent>>)
         ELSE FirstText(<<c.text, c.child, c.parent>>)

\* _parent_lineage_key
Lineage(p) == <<store[p].page, store[p].section, store[p].parent>>

\* _page_key: every point of a crawl has a pageId.
PageKey(p) == store[p].page

-----------------------------------------------------------------------------
(* logged_rank_fusion.  Scores are fractions, compared exactly; the code adds *)
(* floats, which may order differently two sums that are equal.              *)

Rank(half, p) == CHOOSE i \in DOMAIN half : half[i] = p

\* 1 / (RRF_K + rank) in each half that returned p, as <<numerator, denominator>>.
Score(dense, sparse, p) ==
    LET d == RRF_K + Rank(dense, p)
        s == RRF_K + Rank(sparse, p)
    IN IF p \notin Values(sparse) THEN <<1, d>>
       ELSE IF p \notin Values(dense) THEN <<1, s>> ELSE <<d + s, d * s>>

\* Mutant: the better of the two ranks counts.
BestScore(dense, sparse, p) ==
    LET d == RRF_K + Rank(dense, p)
        s == RRF_K + Rank(sparse, p)
    IN IF p \notin Values(sparse) THEN <<1, d>>
       ELSE IF p \notin Values(dense) THEN <<1, s>> ELSE <<1, Smaller(d, s)>>

FusedScore(dense, sparse, p) == Score(dense, sparse, p)

\* Ties keep the meaning half's node first: the sort is stable.
Earlier(dense, sparse, p, q) ==
    IF p \in Values(dense)
    THEN q \in Values(dense) => Rank(dense, p) < Rank(dense, q)
    ELSE q \notin Values(dense) /\ Rank(sparse, p) < Rank(sparse, q)

Above(a, b) == a[1] * b[2] > b[1] * a[2]

\* p comes before q.
Precedes(dense, sparse, p, q) ==
    \/ Above(FusedScore(dense, sparse, p), FusedScore(dense, sparse, q))
    \/ /\ ~Above(FusedScore(dense, sparse, q), FusedScore(dense, sparse, p))
       /\ Earlier(dense, sparse, p, q)

\* Best first, and hybrid_top_k is the two fetches together: nothing is cut.
Fused(dense, sparse) ==
    LET nodes == Values(dense) \cup Values(sparse)
    IN [n \in 1..Cardinality(nodes) |-> CHOOSE p \in nodes :
           n = Cardinality({q \in nodes \ {p} : Precedes(dense, sparse, q, p)}) + 1]

-----------------------------------------------------------------------------
(* A query.                                                                 *)

NoAnswer == [retrieval |-> "none", chunks |-> <<>>]
Refusal(kind) == [retrieval |-> kind, chunks |-> <<>>]

Init ==
    /\ store \in Stores
    /\ reranking \in BOOLEAN
    /\ asked \in Requests
    /\ pc = "search"
    /\ halves = <<<<>>, <<>>>>
    /\ candidates = <<>> /\ ranked = <<>>
    /\ measured = FALSE
    /\ cursor = [k \in Pages |-> 0]
    /\ turn = 1 /\ round = 1
    /\ selected = <<>>
    /\ seenText = {} /\ seenParents = {}
    /\ answer = NoAnswer

\* The sequences of distinct members of S, n long.
Arrangements(S, n) ==
    {f \in [1..n -> S] : \A i, j \in 1..n : f[i] = f[j] => i = j}

\* The search raises.
SearchFails ==
    /\ pc = "search"
    /\ pc' = "answered"
    /\ answer' = Refusal("error")
    /\ UNCHANGED <<store, reranking, asked, search, ranked, measured, loop>>

DenseHalf == Arrangements(Matching, Smaller(fetch_target, Cardinality(Matching)))
SparseHalf == UNION {Arrangements(Matching, n) :
                        n \in 0..Smaller(fetch_target, Cardinality(Matching))}

\* dense_query: the meaning half returns the nearest points, however far; the
\* keyword half those that share a term with the question.
Found(dense, sparse) ==
    /\ halves' = <<dense, sparse>>
    /\ candidates' = Fused(dense, sparse)
    /\ IF candidates' = <<>>
       THEN pc' = "answered" /\ answer' = Refusal("empty")
       ELSE pc' = "rerank" /\ UNCHANGED answer
    /\ UNCHANGED <<store, reranking, asked, ranked, measured, loop>>

Search ==
    /\ pc = "search"
    /\ \E dense \in DenseHalf, sparse \in SparseHalf : Found(dense, sparse)

\* Mutant: the pool is cut with the reranker off too.
AlwaysCut == Smaller(Len(candidates), Larger(2 * request.topK, PoolSize))

\* pool_n: cut only for a reranker, which is paid by the document.
pool_n == IF reranking
          THEN Smaller(Len(candidates), Larger(2 * request.topK, PoolSize))
          ELSE Len(candidates)

pool == SubSeq(candidates, 1, pool_n)

StartSelection ==
    /\ pc' = "select"
    /\ halves' = <<<<>>, <<>>>>
    /\ UNCHANGED <<store, reranking, asked, candidates, loop, answer>>

\* A reranker that is switched off leaves the order of the fusion.
Positional ==
    /\ pc = "rerank"
    /\ ~reranking
    /\ ranked' = pool
    /\ measured' = FALSE
    /\ StartSelection

\* The reranker's rows: some of the pool, in its order.
Orders == UNION {Arrangements(1..pool_n, n) : n \in 1..pool_n}

Reranked ==
    /\ pc = "rerank"
    /\ reranking
    /\ \E order \in Orders : ranked' = [i \in DOMAIN order |-> pool[order[i]]]
    /\ measured' = TRUE
    /\ StartSelection

\* It could not answer, or no row can be read: no ranking, no chunks.
RerankFails ==
    /\ pc = "rerank"
    /\ reranking
    /\ pc' = "answered"
    /\ answer' = Refusal("error")
    /\ UNCHANGED <<store, reranking, asked, search, ranked, measured, loop>>

-----------------------------------------------------------------------------
(* _select_ranked_candidates.  A page is known by its best passage, and the   *)
(* pages take turns in the order of these.                                  *)

IsBest(i) == \A j \in 1..(i - 1) : PageKey(ranked[j]) # PageKey(ranked[i])

HasTurn == /\ pc = "select"
           /\ Len(selected) < request.topK
           /\ turn \in DOMAIN ranked
           /\ IsBest(turn)

key == PageKey(ranked[turn])

\* Mutant: the last passage that was looked at is looked at again.
RestFrom(k) == {i \in DOMAIN ranked : i >= cursor[k] /\ PageKey(ranked[i]) = k}

\* The passages of the page that were not looked at.
Rest(k) == {i \in DOMAIN ranked : i > cursor[k] /\ PageKey(ranked[i]) = k}

IsNext(i) == i \in Rest(key) /\ \A j \in Rest(key) : i <= j

\* Mutant: texts are compared only when sections are returned.
SectionSeen(p) == collapse_parents /\ ReturnText(p) \in seenText

TextSeen(p) == ReturnText(p) # NoText /\ ReturnText(p) \in seenText
LineageSeen(p) == collapse_parents /\ Lineage(p) \in seenParents

\* Mutant: a repeated passage uses up its page's turn.
SkipAndPass(i) ==
    /\ HasTurn
    /\ IsNext(i)
    /\ TextSeen(ranked[i]) \/ LineageSeen(ranked[i])
    /\ cursor' = [cursor EXCEPT ![key] = i]
    /\ turn' = turn + 1
    /\ UNCHANGED <<store, reranking, asked, pc, search, ranked, measured, round,
                   selected, seenText, seenParents, answer>>

\* A repeated passage does not use up its page's turn.
Skip(i) ==
    /\ HasTurn
    /\ IsNext(i)
    /\ TextSeen(ranked[i]) \/ LineageSeen(ranked[i])
    /\ cursor' = [cursor EXCEPT ![key] = i]
    /\ seenText' = seenText \cup ({ReturnText(ranked[i])} \ {NoText})
    /\ UNCHANGED <<store, reranking, asked, pc, search, ranked, measured, turn,
                   round, selected, seenParents, answer>>

Noted(p) ==
    /\ seenText' = seenText \cup ({ReturnText(p)} \ {NoText})
    /\ seenParents' = IF collapse_parents THEN seenParents \cup {Lineage(p)}
                      ELSE seenParents

Admit(i) ==
    /\ HasTurn
    /\ IsNext(i)
    /\ ~TextSeen(ranked[i])
    /\ ~LineageSeen(ranked[i])
    /\ selected' = Append(selected, [at |-> i, round |-> round])
    /\ Noted(ranked[i])
    /\ cursor' = [cursor EXCEPT ![key] = i]
    /\ turn' = turn + 1
    /\ UNCHANGED <<store, reranking, asked, pc, search, ranked, measured, round,
                   answer>>

\* The page has nothing left, or this is not the passage it is known by.
PassTurn ==
    /\ pc = "select"
    /\ Len(selected) < request.topK
    /\ turn \in DOMAIN ranked
    /\ IsBest(turn) => Rest(key) = {}
    /\ turn' = turn + 1
    /\ UNCHANGED <<store, reranking, asked, pc, search, ranked, measured, cursor,
                   round, selected, seenText, seenParents, answer>>

Admitted(r) == \E n \in DOMAIN selected : selected[n].round = r

\* Another pass, when this one admitted something.
NextRound ==
    /\ pc = "select"
    /\ Len(selected) < request.topK
    /\ turn > Len(ranked)
    /\ Admitted(round)
    /\ round' = round + 1
    /\ turn' = 1
    /\ UNCHANGED <<store, reranking, asked, pc, search, ranked, measured, cursor,
                   selected, seenText, seenParents, answer>>

Chunks == [n \in DOMAIN selected |-> ranked[selected[n].at]]

\* A chunk without text is left out.  Graph mode cuts to what was asked for.
Answer ==
    /\ pc = "select"
    /\ \/ Len(selected) >= request.topK
       \/ turn > Len(ranked) /\ ~Admitted(round)
    /\ pc' = "answered"
    /\ answer' = [retrieval |-> IF measured THEN "hybrid+rerank" ELSE "hybrid",
                  chunks |-> SubSeq(Chunks, 1, Smaller(asked.topK, Len(Chunks)))]
    /\ UNCHANGED <<store, reranking, asked, search, ranked, measured, loop>>

SelectStep == \/ \E i \in DOMAIN ranked : Skip(i) \/ Admit(i)
              \/ PassTurn \/ NextRound \/ Answer

Next == \/ SearchFails \/ Search
        \/ Positional \/ Reranked \/ RerankFails
        \/ SelectStep

Spec == Init /\ [][Next]_vars

\* A call that does not answer in time fails, and the rest awaits nothing.
FairSpec == /\ Spec
            /\ WF_vars(SearchFails) /\ WF_vars(RerankFails)
            /\ WF_vars(Positional) /\ WF_vars(SelectStep)

-----------------------------------------------------------------------------
\* Every variable holds what a query can come to.
TypeOK ==
    /\ store \in Stores
    /\ reranking \in BOOLEAN /\ measured \in BOOLEAN
    /\ asked \in Requests
    /\ pc \in {"search", "rerank", "select", "answered"}
    /\ candidates \in Seq(DOMAIN store)
    /\ ranked \in Seq(DOMAIN store)
    /\ cursor \in [Pages -> 0..Len(ranked)]
    /\ turn \in 1..(Len(ranked) + 1)
    /\ round \in 1..(Len(selected) + 1)
    /\ selected \in Seq([at : DOMAIN ranked, round : 1..round])
    /\ seenText \subseteq Texts
    /\ answer.retrieval \in {"none", "error", "empty", "hybrid", "hybrid+rerank"}

Place(p) == Rank(candidates, p)

\* The fusion keeps every node of either half, once; a node both halves return
\* comes before any that one returns alone when its ranks are no larger than RRF_K
\* (the comment on RRF_K says so without that bound); and a node that is ahead
\* of another wherever the other was found stays ahead (logged_rank_fusion).
FusedFairly ==
    pc = "rerank" =>
        LET d == halves[1]
            s == halves[2]
            Ahead(half, p, q) ==
                q \in Values(half) => p \in Values(half) /\ Rank(half, p) < Rank(half, q)
        IN /\ Values(candidates) = Values(d) \cup Values(s)
           /\ Len(candidates) = Cardinality(Values(candidates))
           /\ \A p \in Values(d) \cap Values(s), q \in Values(candidates) :
                 /\ q \notin Values(d) \cap Values(s)
                 /\ Rank(d, p) <= RRF_K /\ Rank(s, p) <= RRF_K
                 => Place(p) < Place(q)
           /\ \A p, q \in Values(candidates) :
                 Ahead(d, p, q) /\ Ahead(s, p, q) => Place(p) < Place(q)

Chosen(i) == \E n \in DOMAIN selected : selected[n].at = i

Same(i, j) == \/ ReturnText(ranked[i]) = ReturnText(ranked[j])
              \/ collapse_parents /\ Lineage(ranked[i]) = Lineage(ranked[j])

\* What the passage says, or its section, is among those selected.
Represented(i) == \E n \in DOMAIN selected : Same(selected[n].at, i)

\* No two passages of an answer have one text, nor one parent section when
\* sections are what is returned.
NoRepeats ==
    \A m, n \in DOMAIN selected : Same(selected[m].at, selected[n].at) => m = n

Gave(k, r) == \E n \in DOMAIN selected : /\ selected[n].round = r
                                         /\ PageKey(ranked[selected[n].at]) = k

\* A page gives one passage a round, and only when every page had its passage in
\* each round before, or has none left that the answer does not repeat
\* (_select_ranked_candidates).
PagesTakeTurns ==
    \A n \in DOMAIN selected :
        /\ \A m \in DOMAIN selected :
              /\ selected[m].round = selected[n].round
              /\ PageKey(ranked[selected[m].at]) = PageKey(ranked[selected[n].at])
              => m = n
        /\ \A r \in 1..(selected[n].round - 1) : \A i \in DOMAIN ranked :
              Gave(PageKey(ranked[i]), r) \/ Chosen(i) \/ Represented(i)

Ranked == pc = "answered" /\ answer.retrieval \in {"hybrid", "hybrid+rerank"}

\* The selection reads all that either half found, or what the reranker returned
\* of the pool, and when it falls short of what was wanted it has left out only
\* repetitions (the comments on pool_n and hybrid_top_k).
NothingDropped ==
    Ranked =>
        /\ ~reranking => Values(ranked) = Values(candidates)
        /\ Len(selected) < request.topK =>
              \A i \in DOMAIN ranked : Chosen(i) \/ Represented(i)

\* Every query is answered: the selection loop ends (QueryService.query).
QueryAnswered == <>(pc = "answered")

\* "a hit both halves return outranks one either half returns alone" (the comment
\* on RRF_K and the docstring of logged_rank_fusion).
BothBeatOne ==
    pc = "rerank" =>
        LET both == Values(halves[1]) \cap Values(halves[2])
        IN \A p \in both, q \in Values(candidates) \ both : Place(p) < Place(q)
=============================================================================
