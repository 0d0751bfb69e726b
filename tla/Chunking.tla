------------------------------ MODULE Chunking ------------------------------
(***************************************************************************)
(* From the typed blocks of a crawled page to the chunks that are embedded: *)
(* sections, parent and child windows, stubs, nodes, and the verdict on a   *)
(* page that is not indexed (chunk.py, llama_nodes.py, unusable.py).        *)
(*                                                                         *)
(* A text is a sequence of tokens, the tokens the embedding model counts.   *)
(* All that is kept of a token is what the code tells apart: whether it     *)
(* continues a word (a slice that starts there measures one token more than *)
(* it spans), whether it is part of a word at all, and what sanitising      *)
(* leaves of it.                                                            *)
(***************************************************************************)
EXTENDS Lists

CONSTANTS
    Tokens,         \* the tokens texts are made of
    Joined,         \* those that continue the word before them
    Marks,          \* those that are no word: punctuation
    Clean,          \* what sanitize_embedding_text leaves of each token
    Breadcrumbs,    \* the texts that match _BREADCRUMB
    ParentSize, ParentOverlap, ChildSize, ChildOverlap,
    StubMaxWords

\* What chunk_text and parent_child_units refuse with a ValueError; that the
\* zero-width variant of a token is the token; and that a window of one token
\* fits, so that every window yields a piece.
ASSUME ChunkingAssumption ==
    /\ Joined \subseteq Tokens /\ Marks \subseteq Tokens
    /\ Clean \in [Tokens -> Tokens]
    /\ \A t \in Tokens : Clean[Clean[t]] = Clean[t]
    /\ \A t \in Tokens : Clean[t] \in Joined <=> t \in Joined
    /\ Breadcrumbs \subseteq Seq(Tokens)
    /\ ParentSize \in Nat /\ ParentOverlap \in Nat /\ ParentOverlap < ParentSize
    /\ ChildSize \in Nat /\ ChildOverlap \in Nat /\ ChildOverlap < ChildSize
    /\ ParentSize > 1 /\ ChildSize > 1
    /\ StubMaxWords \in Nat

Sanitize(text) == [i \in DOMAIN text |-> Clean[text[i]]]

\* len(token_spans(text)): a word cut in two reads as one piece more.
Measure(text) ==
    IF text # <<>> /\ Head(text) \in Joined THEN Len(text) + 1 ELSE Len(text)

WordCount(text) ==
    Cardinality({i \in DOMAIN text : text[i] \notin Marks
                                     /\ (i = 1 \/ text[i] \notin Joined)})

-----------------------------------------------------------------------------
(* Windows.                                                                 *)

\* Mutant: the slice is cut by the spans and never measured.
FitWindowBySpans(text, start, end, size) ==
    [piece |-> SubSeq(text, start + 1, end), end |-> end]

\* The slice of text after its first `start` tokens, shrunk from `end` until
\* it measures at most `size`, and where it then ends.
FitWindow(text, start, end, size) ==
    LET fits == {e \in (start + 1)..end :
                    Measure(SubSeq(text, start + 1, e)) <= size}
    IN IF fits = {} THEN [piece |-> <<>>, end |-> start + 1]
       ELSE [piece |-> SubSeq(text, start + 1, Max(fits)), end |-> Max(fits)]

Step(size, overlap) == size - overlap

\* chunk_text: windows start every Step tokens, up to the first that reaches
\* the end of the text.
ChunkText(text, size, overlap) ==
    LET step == Step(size, overlap)
        window(k) ==
            FitWindow(text, k * step, Min({k * step + size, Len(text)}), size)
        last == Min({k \in 0..Len(text) : \/ window(k).end >= Len(text)
                                          \/ (k + 1) * step >= Len(text)})
        pieces == [k \in 1..(last + 1) |-> window(k - 1).piece]
    IN IF text = <<>> THEN <<>> ELSE Filter(pieces, ToSet(pieces) \ {<<>>})

-----------------------------------------------------------------------------
(* Sections and units.  A block is [kind, text], a heading with no text     *)
(* gives its section no title, and a section that renders to nothing is     *)
(* dropped.                                                                 *)

NoTitle == <<>>

PlainText(blocks) == FlattenSeq([i \in DOMAIN blocks |-> blocks[i].text])

Sections(blocks) ==
    LET opens == {i \in DOMAIN blocks : i = 1 \/ blocks[i].kind = "heading"}
        close(i) == Min({j \in opens : j > i} \cup {Len(blocks) + 1}) - 1
        section(i) ==
            [title |-> IF blocks[i].kind = "heading" THEN blocks[i].text ELSE NoTitle,
             text  |-> PlainText(SubSeq(blocks, i, close(i)))]
        first == Filter([i \in DOMAIN blocks |-> i], opens)
        rendered == [n \in DOMAIN first |-> section(first[n])]
    IN Filter(rendered, {s \in ToSet(rendered) : s.text # <<>>})

Parents(blocks) ==
    LET secs == Sections(blocks)
        windows(s) == ChunkText(s.text, ParentSize, ParentOverlap)
    IN FlattenSeq([n \in DOMAIN secs |->
           [w \in DOMAIN windows(secs[n]) |->
               [text |-> windows(secs[n])[w], title |-> secs[n].title]]])

Children(parent) ==
    LET windows == ChunkText(parent, ChildSize, ChildOverlap)
    IN IF windows = <<>> THEN <<parent>> ELSE windows

\* The units of a page, in order; a unit's place is its child_index, `parent`
\* its parent_index.
Units(blocks) ==
    LET parents == Parents(blocks)
    IN FlattenSeq([p \in DOMAIN parents |->
           LET children == Children(parents[p].text)
           IN [c \in DOMAIN children |->
                  [parent |-> p, parentText |-> parents[p].text,
                   childText |-> children[c], title |-> parents[p].title]]])

IsStubText(text, title) ==
    \/ text = <<>>
    \/ title # NoTitle /\ text = title
    \/ text \in Breadcrumbs
    \/ WordCount(text) < StubMaxWords

-----------------------------------------------------------------------------
(* Nodes.  A page is [id, faults, english, blocks]; its units are those of  *)
(* its blocks.                                                              *)

Kept(units) ==
    {u \in DOMAIN units : ~IsStubText(units[u].childText, units[u].title)}

AddsContext(unit) == unit.parentText # unit.childText

\* Mutant: a stub first child takes its parent with it.
EmitsParentFirst(units, u) ==
    /\ AddsContext(units[u])
    /\ \A v \in DOMAIN units : v < u => units[v].parent # units[u].parent

\* A parent is emitted once, ahead of its first child that is kept.
EmitsParent(units, u) ==
    /\ AddsContext(units[u])
    /\ \A v \in Kept(units) :
          v < u /\ units[v].parent = units[u].parent => ~AddsContext(units[v])

ParentKey(units, u) == <<"parent", units[u].parent>>

\* Mutant: a child is numbered by its parent.
ChildKeyOfParent(units, u) == <<"child", units[u].parent>>

ChildKey(units, u) == <<"child", u>>

PageNodes(page, units) ==
    LET node(key, text) == [page |-> page.id, key |-> key, text |-> text]
        emitted(u) ==
            IF u \notin Kept(units) THEN <<>>
            ELSE (IF EmitsParent(units, u)
                  THEN <<node(ParentKey(units, u), units[u].parentText)>>
                  ELSE <<>>)
                 \o <<node(ChildKey(units, u), units[u].childText)>>
    IN FlattenSeq([u \in DOMAIN units |-> emitted(u)])

StubsSkipped(units) == Len(units) - Cardinality(Kept(units))

\* Why a page is not indexed: what classify_unusable_page finds on the page
\* row, then what page_to_nodes finds in its text.
Faults == {"locale", "http_error", "sitemap", "failure"}

Verdict(page) ==
    CASE page.faults # {}                -> "policy"
      [] page.faults = {} /\ PlainText(page.blocks) = <<>> -> "extract_empty"
      [] page.faults = {} /\ PlainText(page.blocks) # <<>> /\ ~page.english
                                         -> "non_english"
      [] OTHER                           -> "indexed"
=============================================================================
