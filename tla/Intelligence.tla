---------------------------- MODULE Intelligence ----------------------------
(***************************************************************************)
(* What intelligence.py concludes from the pages a caller supplies: the     *)
(* findings on a page, the content gap, the audit with its actions, and the *)
(* plan of queries.  Everything is computed from the request alone.         *)
(*                                                                         *)
(* A page is [source, owner, complete, lines].  A line is [dims, says]: the *)
(* dimensions whose patterns match it, and the matched text as              *)
(* <<topic, spelling>>.                                                     *)
(***************************************************************************)
EXTENDS Lists

CONSTANTS
    Dimensions,
    Topics,         \* the dimension of headings
    MaxRows         \* 20: matches kept of one dimension

ASSUME IntelligenceAssumption == Topics \in Dimensions /\ MaxRows \in Nat

\* _normalize_signal: case and punctuation go.
Normal(says) == says[1]

Distinct(s) == {i \in DOMAIN s : \A j \in 1..(i - 1) : s[j] # s[i]}

-----------------------------------------------------------------------------
(* One page.                                                                *)

\* _dimension_matches: the lines that match, cut off.
Matches(page, d) ==
    {i \in DOMAIN page.lines :
        /\ d \in page.lines[i].dims
        /\ Cardinality({j \in 1..(i - 1) : d \in page.lines[j].dims}) < MaxRows}

\* The evidence for a match: a place on a page.
Evidence(page, d) == {<<page.source, i>> : i \in Matches(page, d)}

\* The signals of a finding, without repeats.
Quoted(page, d) == {page.lines[i].says : i \in Matches(page, d)}

\* Mutant: a signal that was not seen is not there.
PresentIfSeen(page, d) == IF Matches(page, d) # {} THEN "yes" ELSE "no"

\* _analyze_page: present is True, None or False.
Present(page, d) ==
    IF Matches(page, d) # {} THEN "yes"
    ELSE IF page.complete THEN "no" ELSE "unknown"

\* competitor_page_analysis: what the page lacks for certain.
Opportunities(page) == {d \in Dimensions : Present(page, d) = "no"}

-----------------------------------------------------------------------------
(* The content gap between the subject's pages and the competitors'.        *)

\* Mutant: complete if any page of the subject is.
AnyPartial(subjects) == \A page \in subjects : ~page.complete

SubjectPartial(subjects) == \E page \in subjects : ~page.complete

SubjectCoverage(subjects, d) ==
    IF \E page \in subjects : Present(page, d) = "yes" THEN "yes"
    ELSE IF SubjectPartial(subjects) THEN "unknown" ELSE "no"

Covering(competitors, d) == {page \in competitors : Present(page, d) = "yes"}

\* Every gap names the pages and the evidence that it rests on.  What it is the
\* gap of goes into its gap_id: the dimension, or "topic" and the topic.
Gap(d, signal, partial, sources, evidence, confidence) ==
    [dimension |-> d, signal |-> signal,
     status |-> IF partial THEN "coverageUnknown" ELSE "supportedGap",
     sources |-> sources, evidence |-> evidence,
     confidence |-> IF partial THEN "unknown" ELSE confidence]

DimensionGaps(request) ==
    {LET covering == Covering(request.competitors, d)
     IN  Gap(d, <<d>>, SubjectPartial(request.subjects),
             {page.source : page \in covering},
             UNION {Evidence(page, d) : page \in covering},
             IF covering = request.competitors THEN "high" ELSE "medium") :
        d \in {d \in Dimensions : /\ Covering(request.competitors, d) # {}
                                  /\ SubjectCoverage(request.subjects, d) # "yes"}}

TopicsOf(page) == {Normal(says) : says \in Quoted(page, Topics)}

\* The pages that have the topic, and the evidence for it.
TopicGaps(request) ==
    LET known == UNION {TopicsOf(page) : page \in request.subjects}
        others == (UNION {TopicsOf(page) : page \in request.competitors}) \ known
        having(topic) == {page \in request.competitors : topic \in TopicsOf(page)}
    IN  {Gap(Topics, <<"topic", topic>>, SubjectPartial(request.subjects),
             {page.source : page \in having(topic)},
             UNION {{<<page.source, i>> :
                        i \in {i \in Matches(page, Topics) : Normal(page.lines[i].says) = topic}} :
                    page \in having(topic)},
             "medium") : topic \in others}

\* zip(signals, evidence_ids, strict=True): signals has no repeats and
\* evidence_ids may, and then the request fails.
Raises(request) ==
    \E page \in request.competitors :
        Cardinality(Quoted(page, Topics)) # Cardinality(Evidence(page, Topics))

content_gap(request) == DimensionGaps(request) \union TopicGaps(request)

-----------------------------------------------------------------------------
(* The audit's actions.  Those with one action_id are one here.             *)

Priority(gap) ==
    IF gap.status # "supportedGap" THEN "low"
    ELSE IF gap.confidence = "high" THEN "high" ELSE "medium"

\* _prioritized_actions
Actions(request) ==
    {[origin |-> gap.status, priority |-> Priority(gap), dimension |-> gap.dimension,
      about |-> gap.signal, evidence |-> gap.evidence] : gap \in content_gap(request)}
    \union
    UNION {{[origin |-> "pageOpportunity", priority |-> "medium", dimension |-> d,
             about |-> <<"page", page.owner>>, evidence |-> {}] : d \in Opportunities(page)} :
           page \in request.competitors}

\* competitor_audit
competitor_audit(request) ==
    [gaps |-> content_gap(request), actions |-> Actions(request),
     present |-> [page \in request.subjects \union request.competitors |->
                     [d \in Dimensions |-> Present(page, d)]]]

-----------------------------------------------------------------------------
(* The plan of queries.  A query is [form, topic, tokens, marker]: the form *)
(* "plain" or one of the templates, and the marker that classifies it.      *)

Forms == <<"what is", "alternatives", "pricing">>

\* "alternatives" is not a marker: the pattern has "alternative" as a word.
Generated(topic, form) ==
    [form |-> form, topic |-> topic,
     tokens |-> topic.tokens + IF form = "what is" THEN 2 ELSE 1,
     marker |-> IF topic.marker = "navigational" THEN topic.marker
                ELSE IF form = "pricing" THEN "transactional" ELSE topic.marker]

\* The score of a query by where it comes from, and by what it asks for:
\* intent_score + stage_score.
ProvenanceScore == [observed |-> 40, imported |-> 25, generatedHypothesis |-> 5]
IntentScore == [navigational |-> 25, transactional |-> 40, commercial |-> 30, informational |-> 15]

SpecificityScore(n) == IF n >= 5 THEN 20 ELSE IF n >= 3 THEN 10 ELSE 5

Score(row) == ProvenanceScore[row.origin] + IntentScore[row.query.marker]
              + SpecificityScore(row.query.tokens)

Tier(row) == IF Score(row) >= 70 THEN "high" ELSE IF Score(row) >= 45 THEN "medium" ELSE "low"

IsNew(query, request) == \A row \in ToSet(request.queries) : row.query # query

\* Mutant: what was generated is not added to seen.
FreshOfSupplied(all, request) ==
    Filter([i \in DOMAIN all |-> i], {i \in DOMAIN all : IsNew(all[i], request)})

\* The places of what is there neither already nor yet.
Fresh(all, request) ==
    Filter([i \in DOMAIN all |-> i], {i \in Distinct(all) : IsNew(all[i], request)})

\* Topic by topic and template by template.
Candidates(topics) ==
    FlattenSeq([t \in DOMAIN topics |->
                   [f \in DOMAIN Forms |-> Generated(topics[t], Forms[f])]])

\* Up to max_generated_queries.
Hypotheses(request) ==
    LET all == Candidates(request.topics)
        fresh == Fresh(all, request)
    IN  [k \in 1..(IF Len(fresh) < request.max THEN Len(fresh) ELSE request.max) |->
            [query |-> all[fresh[k]], origin |-> "generatedHypothesis"]]

\* The places of the rows that come before the one at i: the code orders rows
\* of one score by their text, the model by where they stood.
Ahead(rows, i) ==
    {j \in DOMAIN rows : \/ Score(rows[j]) > Score(rows[i])
                         \/ Score(rows[j]) = Score(rows[i]) /\ j < i}

ByScore(rows) ==
    [k \in DOMAIN rows |-> rows[CHOOSE i \in DOMAIN rows : k = Cardinality(Ahead(rows, i)) + 1]]

query_plan(request) == ByScore(request.queries \o Hypotheses(request))
=============================================================================
