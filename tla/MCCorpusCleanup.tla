-------------------------- MODULE MCCorpusCleanup --------------------------
(* Three pages of one run and one of another, of the kinds the steps tell     *)
(* apart.                                                                     *)
EXTENDS CorpusCleanup

Sound == [locale |-> FALSE, sitemap |-> FALSE, error |-> FALSE, denied |-> FALSE,
          reason |-> "none", blocks |-> TRUE]

Failed  == [Sound EXCEPT !.reason = "text"]
Blank   == [Sound EXCEPT !.reason = "blank"]
Denied  == [Sound EXCEPT !.denied = TRUE]
Twice   == [Failed EXCEPT !.error = TRUE, !.locale = TRUE]
Foreign == [Sound EXCEPT !.locale = TRUE]
Empty   == [Sound EXCEPT !.blocks = FALSE]
Map     == [Sound EXCEPT !.sitemap = TRUE, !.error = TRUE]

MCRuns  == {"r1", "r2"}
MCPages == {"p1", "p2", "p3", "p4", "p5"}
MCRunOf == [p \in MCPages |-> IF p = "p5" THEN "r2" ELSE "r1"]

Of(seq) == [p \in MCPages |-> CASE p = "p1" -> seq[1] [] p = "p2" -> seq[2]
               [] p = "p3" -> seq[3] [] p = "p4" -> seq[4] [] p = "p5" -> seq[5]]
MCCorpora == {Of(<<Failed, Twice, Foreign, Sound, Foreign>>),
              Of(<<Denied, Blank, Map, Empty, Twice>>),
              Of(<<Foreign, Foreign, Foreign, Twice, Sound>>)}

Cleanup(write, limit, batchSize, scope, scan) ==
    [op |-> "cleanup", write |-> write, limit |-> limit, batch |-> batchSize,
     scope |-> scope, scan |-> scan, links |-> TRUE]

MCCommands ==
    {Cleanup(TRUE, NoLimit, 2, MCRuns, TRUE), Cleanup(FALSE, NoLimit, 2, MCRuns, TRUE),
     Cleanup(TRUE, 3, 2, MCRuns, TRUE), Cleanup(FALSE, 1, 2, MCRuns, TRUE),
     Cleanup(TRUE, 2, 2, {"r1"}, TRUE), Cleanup(TRUE, NoLimit, 2, {"r1"}, FALSE),
     [Cleanup(TRUE, NoLimit, 3, MCRuns, TRUE) EXCEPT !.links = FALSE],
     [op |-> "purge", keep |-> {"r1"}, apply |-> TRUE],
     [op |-> "purge", keep |-> {"r1"}, apply |-> FALSE]}
=============================================================================
