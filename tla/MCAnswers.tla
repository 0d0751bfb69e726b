----------------------------- MODULE MCAnswers -----------------------------
(* The two kinds of answers that this service gives and keeps nothing of:    *)
(* verdicts on quotes of stored pages, and analyses of supplied pages.  They *)
(* share no state, so no body is analysed while a verdict is open, and only  *)
(* while the corpus is empty.                                               *)
EXTENDS MCVerdicts, Analyses

Heading(w) == [dims |-> {"topics"}, says |-> <<w, w>>]

Lines == {Heading("a"), Heading("b"),
          [dims |-> {"topics", "proof"}, says |-> <<"a", "A!">>],
          [dims |-> {"proof"}, says |-> <<"p", "p">>]}

Texts(n) == UNION {[1..k -> Lines] : k \in 0..n}

Page(source, owner, n) ==
    [source : {source}, owner : {owner}, complete : BOOLEAN, lines : Texts(n)]

MCAuditBodies ==
    [subjects : {{p} : p \in Page("s", "us", 2)}, competitors : {{p} : p \in Page("c", "them", 2)}]
    \union [subjects : {{p} : p \in Page("s", "us", 2)},
            competitors : {{p, q} : p \in Page("c", "them", 1), q \in Page("e", "others", 1)}]
    \union [subjects : {{p, q} : p \in Page("s", "us", 1), q \in Page("t", "us", 1)},
            competitors : {{p} : p \in Page("c", "them", 2)}]
    \union [subjects : {{p} : p \in {q \in Page("s", "us", 3) : q.complete}},
            competitors : {{p} : p \in Page("c", "them", 1)}]
    \union [subjects : {{p} : p \in Page("s", "us", 1)}, competitors : {{p} : p \in Page("s", "them", 1)}]

MCTopics == [tokens : {1, 4}, marker : {"informational", "navigational", "transactional"}]

MCQueriesAsked ==
    [query : {Generated([tokens |-> 1, marker |-> "informational"], "pricing"),
              [form |-> "plain", topic |-> [tokens |-> 2, marker |-> "commercial"],
               tokens |-> 2, marker |-> "commercial"]},
     origin : {"observed", "imported"}]
     \union {[query |-> Generated([tokens |-> 1, marker |-> "informational"], "pricing"),
              origin |-> "generatedHypothesis"]}

Upto(S, n) == UNION {[1..k -> S] : k \in 0..n}

MCPlanBodies ==
    [queries : Upto(MCQueriesAsked, 2), topics : Upto(MCTopics, 2), max : {0, 2, 5, 20}]

AnswersInit == Init /\ AnalysesInit

AnswersNext ==
    \/ analysis = None /\ Next /\ UNCHANGED analysis
    \/ pc = "idle" /\ pages = {} /\ served = {} /\ AnalysesNext /\ UNCHANGED vars

AnswersSpec == AnswersInit /\ [][AnswersNext]_<<vars, analysis>>
=============================================================================
