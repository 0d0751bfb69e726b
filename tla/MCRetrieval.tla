---------------------------- MODULE MCRetrieval ----------------------------
(* Four points of two or three pages: a section and its child, a page that    *)
(* repeats another's text, a page with several sections.                      *)
EXTENDS Retrieval

Parent(page, section, text) ==
    [page |-> page, section |-> section, parent |-> text, child |-> "", text |-> text,
     role |-> "parent", tags |-> {"run"}]
Child(page, section, parent, text) ==
    [Parent(page, section, parent) EXCEPT !.child = text, !.text = text,
                                          !.role = "child"]

MCTexts == {"", "t1", "t2", "t3", "t4"}

MCStores ==
    {[p1 |-> Parent("a", 1, "t1"), p2 |-> Child("a", 1, "t1", "t2"),
      p3 |-> Child("b", 1, "t3", "t2"), p4 |-> Child("a", 2, "t4", "t4")],
     [p1 |-> Child("a", 1, "t1", "t2"), p2 |-> Child("a", 1, "t1", "t3"),
      p3 |-> Child("a", 2, "t4", "t4"), p4 |-> Child("b", 1, "t4", "t4")],
     [p1 |-> Child("a", 1, "t1", "t2"), p2 |-> Child("b", 1, "t2", "t2"),
      p3 |-> [Child("c", 1, "t3", "t3") EXCEPT !.tags = {"run", "host"}],
      p4 |-> [Child("b", 2, "t4", "t4") EXCEPT !.tags = {"run", "host"}]]}

Ask(topK, parent, child) ==
    [topK |-> topK, graph |-> FALSE, preferParent |-> parent, preferChild |-> child,
     role |-> "any", where |-> {"run"}]

MCRequests ==
    {Ask(1, FALSE, FALSE), Ask(3, FALSE, FALSE), Ask(4, TRUE, FALSE),
     Ask(2, FALSE, TRUE),
     [Ask(1, FALSE, FALSE) EXCEPT !.graph = TRUE],
     [Ask(2, FALSE, TRUE) EXCEPT !.graph = TRUE],
     [Ask(2, TRUE, TRUE) EXCEPT !.where = {"run", "host"}],
     [Ask(2, FALSE, FALSE) EXCEPT !.role = "parent"]}

(* A query for 32 passages, so each half returns 64; 62 are in both, the last of *)
(* these at rank 63.                                                           *)
LongPoints == 1..65
LongStores == {[p \in LongPoints |-> Child("a", p, "t1", "t2")]}
LongRequests == {Ask(32, FALSE, FALSE)}
Meaning == [i \in 1..64 |-> i]
Keyword == [i \in 1..63 |-> IF i = 1 THEN 65 ELSE i]
LongSpec == Init /\ [][pc = "search" /\ Found(Meaning, Keyword)]_vars
=============================================================================
