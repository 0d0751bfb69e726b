---------------------------- MODULE MCPageIndex ----------------------------
(***************************************************************************)
(* A small corpus for PageIndex: a footer that repeats on every page, once *)
(* with a zero-width character in it; a section long enough to be windowed *)
(* twice over, cut inside words; stubs; and pages that are not indexed.    *)
(***************************************************************************)
EXTENDS PageIndex

MCTokens == {"a", "b", "c", "d", "e", "f", "f~", "x", "y", ".", "/"}
MCJoined == {"x", "y"}
MCMarks  == {".", "/"}
MCClean  == [t \in MCTokens |-> IF t = "f~" THEN "f" ELSE t]
MCBreadcrumbs == {<<"a", "/", "b">>}

Heading(text) == [kind |-> "heading", text |-> text]
Prose(text)   == [kind |-> "text", text |-> text]

Footer == Prose(<<"e", "f">>)
Long   == Prose(<<"a", "x", "b", "y", "c", "d", "x", "a", "b">>)
Marked == Prose(<<".", ".", ".", "b", "c", "d">>)

Page(id, faults, english, blocks) ==
    [id |-> id, faults |-> faults, english |-> english, blocks |-> blocks]

\* A heading alone, a long section, and the footer under a heading of its own.
Article == Page("p1", {}, TRUE,
    <<Heading(<<"a", "b">>), Heading(<<>>), Long, Heading(<<"c">>), Footer>>)
\* The same footer, its zero-width variant, and a parent whose first child is
\* all marks.
Landing == Page("p2", {}, TRUE,
    <<Marked, Heading(<<"c">>), Prose(<<"e", "f~">>), Heading(<<"c">>), Footer>>)
\* Nothing but stubs, and a breadcrumb.
Bare    == Page("p3", {}, TRUE, <<Prose(<<"a", "/", "b">>), Heading(<<"d">>)>>)
Foreign == Page("p4", {}, FALSE, <<Long>>)
Gone    == Page("p5", {"http_error"}, TRUE, <<>>)
Empty   == Page("p6", {}, TRUE, <<Prose(<<>>)>>)

\* One short chunk, too few for a flush of its own.
Note    == Page("p7", {}, TRUE, <<Prose(<<"d", "e">>)>>)

MCPageLists ==
    { <<>>,
      <<Article, Gone, Landing, Note>>,
      <<Foreign, Note, Landing, Article>>,
      <<Empty, Bare>> }

\* Both models have vectors of one width: it cannot tell them apart.
MCWidth == [m \in Models |-> 384]

\* Neither runs nor models are told apart by anything but equality.
MCSymmetry == Permutations(Runs) \cup Permutations(Models)
=============================================================================
