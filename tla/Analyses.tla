------------------------------ MODULE Analyses ------------------------------
(***************************************************************************)
(* The routes POST /v1/intelligence/content-gap, competitor-audit and       *)
(* query-plan of app.py: one step from the body to the artifact, with       *)
(* nothing kept.                                                           *)
(***************************************************************************)
EXTENDS Intelligence

CONSTANTS
    AuditBodies,    \* [subjects, competitors]: sets of pages
    PlanBodies      \* [queries, topics, max]

\* What the request models give: finitely many pages, each with its text in
\* lines, and complete or not.
ASSUME AuditBodiesAssumption ==
    \A body \in AuditBodies :
        /\ IsFiniteSet(body.subjects) /\ IsFiniteSet(body.competitors)
        /\ \A page \in body.subjects \union body.competitors :
              /\ page = [source |-> page.source, owner |-> page.owner,
                         complete |-> page.complete, lines |-> page.lines]
              /\ page.complete \in BOOLEAN
              /\ page.lines \in Seq(ToSet(page.lines))

ASSUME PlanBodiesAssumption ==
    \A body \in PlanBodies :
        /\ body.max \in Nat
        /\ body.topics \in Seq([tokens : Nat, marker : DOMAIN IntentScore])
        /\ body.queries \in Seq(ToSet(body.queries))
        /\ \A row \in ToSet(body.queries) :
              /\ row.origin \in DOMAIN ProvenanceScore
              /\ row.query.marker \in DOMAIN IntentScore /\ row.query.tokens \in Nat

VARIABLE analysis   \* the last answer: [route, body, artifact]

None == [route |-> "none"]

AnalysesInit == analysis = None

\* What the request models accept; any other body is refused before a step.
ValidAudit(body) ==
    LET pages == body.subjects \union body.competitors
    IN  /\ body.subjects # {} /\ body.competitors # {}
        /\ Cardinality({page.source : page \in pages})
           = Cardinality(body.subjects) + Cardinality(body.competitors)

ValidPlan(body) ==
    /\ body.queries # <<>> \/ body.topics # <<>>
    /\ \A row \in ToSet(body.queries) : row.origin # "generatedHypothesis"

\* ValueError goes through to a 500.
Audit(body) ==
    /\ analysis = None
    /\ ValidAudit(body)
    /\ analysis' = IF Raises(body) THEN [route |-> "error", body |-> body]
                   ELSE [route |-> "audit", body |-> body, artifact |-> competitor_audit(body)]

Plan(body) ==
    /\ analysis = None
    /\ ValidPlan(body)
    /\ analysis' = [route |-> "plan", body |-> body, artifact |-> query_plan(body)]

Sent ==
    /\ analysis # None
    /\ analysis' = None

AnalysesNext ==
    \/ \E body \in AuditBodies : Audit(body)
    \/ \E body \in PlanBodies : Plan(body)
    \/ Sent

AnalysesSpec == AnalysesInit /\ [][AnalysesNext]_analysis

-----------------------------------------------------------------------------
(* Properties.                                                              *)

Audited == analysis.route = "audit"

\* What a page says, however many lines it says it on.
Shows(page, d) == \E line \in ToSet(page.lines) : d \in line.dims

Heads(page, topic) ==
    \E line \in ToSet(page.lines) : Topics \in line.dims /\ Normal(line.says) = topic

\* The pages that show a dimension, or have a topic, and where they come from.
Showing(some, d) == {page \in some : Shows(page, d)}

Having(some, topic) == {page \in some : Heads(page, topic)}

SourcesOf(some) == {page.source : page \in some}

HeadsOf(page) == {Normal(line.says) : line \in {l \in ToSet(page.lines) : Topics \in l.dims}}

\* No dimension of the page is cut off at MaxRows.
Uncut(page) ==
    \A d \in Dimensions :
        Cardinality({i \in DOMAIN page.lines : d \in page.lines[i].dims}) <= MaxRows

\* The artifact's gaps are those there are between pages that are not cut off:
\* a gap for each dimension or topic that some competitor shows and no page of
\* the subject does; asserted only if all pages of the subject are complete,
\* with high confidence only if every competitor page shows the dimension;
\* naming exactly the pages that show it, and quoting each of those and none
\* of the subject's (methodology of contentGapAnalysis.v1: "A supported gap
\* requires complete subject input, absent subject signals, and supplied
\* competitor evidence").
GapsAreExact ==
    Audited =>
        LET body == analysis.body
            gaps == analysis.artifact.gaps
            asserted == \A page \in body.subjects : page.complete
            gapsIn(about) == {<<g.signal, g.sources>> : g \in {g \in gaps : Len(g.signal) = about}}
        IN  (\A page \in body.subjects \union body.competitors : Uncut(page)) =>
            /\ \A g \in gaps :
                  /\ g.status = IF asserted THEN "supportedGap" ELSE "coverageUnknown"
                  /\ {e[1] : e \in g.evidence} = g.sources
                  /\ g.confidence = "high" =>
                        \A page \in body.competitors : Shows(page, g.dimension)
            /\ gapsIn(1) = {<< <<d>>, SourcesOf(Showing(body.competitors, d))>> :
                              d \in {d \in Dimensions : /\ Showing(body.subjects, d) = {}
                                                        /\ Showing(body.competitors, d) # {}}}
            /\ gapsIn(2) = {<< <<"topic", t>>, SourcesOf(Having(body.competitors, t))>> :
                              t \in {t \in UNION {HeadsOf(page) : page \in body.competitors} :
                                        Having(body.subjects, t) = {}}}

\* What an audit asserts: gaps, what pages have and lack, and the actions that
\* are not marked as resting on unknown coverage.
Assertions(audit) ==
    {<<"gap", g.dimension, g.signal>> : g \in {g \in audit.gaps : g.status = "supportedGap"}}
    \union {<<"do", a.dimension, a.about>> : a \in {a \in audit.actions : a.priority # "low"}}
    \union {<<pd[1].source, pd[2], audit.present[pd[1]][pd[2]]>> :
               pd \in {pd \in (DOMAIN audit.present) \X Dimensions :
                                  audit.present[pd[1]][pd[2]] # "unknown"}}

\* The body with one more line known of a partial page.
Known(body, page, line) ==
    LET more == [page EXCEPT !.lines = Append(@, line)]
        with(P) == IF page \in P THEN (P \ {page}) \union {more} ELSE P
    IN  [subjects |-> with(body.subjects), competitors |-> with(body.competitors)]

\* What is asserted of a partial page stays asserted, whatever the rest of the
\* page turns out to say: absence is never concluded from what was not
\* supplied (test_partial_subject_never_becomes_asserted_absent_or_supported_gap).
AssertionsSurvive ==
    Audited =>
        LET pages == analysis.body.subjects \union analysis.body.competitors
        IN  \A page \in {p \in pages : ~p.complete} :
              \A line \in UNION {ToSet(p.lines) : p \in pages} :
                LET body == Known(analysis.body, page, line)
                IN  ~Raises(body) => Assertions(analysis.artifact) \subseteq Assertions(competitor_audit(body))

\* The plan has every query that was supplied, and besides them only distinct
\* hypotheses that repeat none of those, as many as there are up to the limit;
\* and no hypothesis ever gets a high priority, whatever it is about
\* (query_plan: "labeled generatedHypothesis and are not observed demand").
PlanInventsNoDemand ==
    analysis.route = "plan" =>
        LET plan == analysis.artifact
            body == analysis.body
            made == {i \in DOMAIN plan : plan[i].origin = "generatedHypothesis"}
            supplied == (DOMAIN plan) \ made
            queries(places) == {plan[i].query : i \in places}
        IN  /\ Cardinality(supplied) = Len(body.queries)
            /\ {plan[i] : i \in supplied} = ToSet(body.queries)
            /\ \A i, j \in made : plan[i].query = plan[j].query => i = j
            /\ queries(made) \intersect queries(supplied) = {}
            /\ Cardinality(made) <= body.max
            /\ Cardinality(made) < body.max =>
                  \A t \in ToSet(body.topics) : \A f \in ToSet(Forms) :
                      Generated(t, f) \in queries(DOMAIN plan)
            /\ \A i \in made : Tier(plan[i]) # "high"
            /\ \A i, j \in DOMAIN plan : i < j => Score(plan[i]) >= Score(plan[j])

\* "A supported gap requires complete subject input, absent subject signals,
\* and supplied competitor evidence", of pages of any length.
SupportedGapsAreAbsent ==
    Audited =>
        \A g \in analysis.artifact.gaps :
            g.status = "supportedGap" =>
                \A page \in analysis.body.subjects :
                    \A topic \in HeadsOf(page) : g.signal # <<"topic", topic>>
=============================================================================
