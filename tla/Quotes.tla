------------------------------- MODULE Quotes -------------------------------
(***************************************************************************)
(* The plaintext of a page's blocks and whether a quote is in it            *)
(* (block_text.py, citation_verify.py).                                     *)
(*                                                                         *)
(* A text is a sequence of tokens: words, the bar between two cells, and    *)
(* markup that the page spells with escapes.  White space and case do not   *)
(* count, and a token stands for as many characters as any other.           *)
(***************************************************************************)
EXTENDS Lists

CONSTANTS
    Bar,        \* "|"
    Markup,     \* an escaped tag: u003c ... u003e
    MinLength   \* 12 characters

\* A block is [kind, cells]: a row has any number of cells, any other block one.
Kinds == {"row", "prose", "code"}

\* clean_prose_text decodes escaped markup and drops it.
CleanProse(text) == Dropping(text, {Markup})

Joined(cells) ==
    FlattenSeq([i \in DOMAIN cells |-> IF i > 1 THEN <<Bar>> \o cells[i] ELSE cells[i]])

\* render_block_text: code is not cleaned, and an empty cell keeps its bar.
Render(block) ==
    IF block.kind = "code" THEN block.cells[1]
    ELSE Joined([i \in DOMAIN block.cells |-> CleanProse(block.cells[i])])

\* derive_plaintext_from_blocks
PlainText(blocks) == FlattenSeq([i \in DOMAIN blocks |-> Render(blocks[i])])

IsIn(quote, text) ==
    \E i \in 0..(Len(text) - Len(quote)) : SubSeq(text, i + 1, i + Len(quote)) = quote

HasWord(quote) == \E i \in DOMAIN quote : quote[i] \notin {Bar, Markup}

\* A short quote has to be a whole cell of a row, as the page has it.
quote_in_text(quote, text, blocks) ==
    /\ HasWord(quote)
    /\ IF Len(quote) >= MinLength THEN IsIn(quote, text)
       ELSE \E b \in ToSet(blocks) : b.kind = "row" /\ quote \in ToSet(b.cells)

\* _EMPTY_CELL_RUN: a run of bars becomes one.
OneBar(text) ==
    FlattenSeq([i \in DOMAIN text |->
        IF i > 1 /\ text[i] = Bar /\ text[i - 1] = Bar THEN <<>> ELSE <<text[i]>>])

\* Mutant: the text is compared as it is.
AsItIs(quote, text, blocks) == quote_in_text(CleanProse(quote), text, blocks)

verify_quote(quote, text, blocks) ==
    quote_in_text(CleanProse(quote), OneBar(text), blocks)

-----------------------------------------------------------------------------
\* What GeekAPI's projection (C#) makes of a block, as the comment on
\* _EMPTY_CELL_RUN describes it: markup stays, an empty cell goes.
RenderElsewhere(block) ==
    Joined(Dropping(block.cells, {<<>>}))

Pieces(text) == {SubSeq(text, i, j) : i, j \in DOMAIN text} \ {<<>>}

\* The words of a text, with nothing between them.
WordsOf(text) == Dropping(text, {Bar, Markup})
=============================================================================
