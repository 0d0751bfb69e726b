----------------------------- MODULE MCVerdicts -----------------------------
EXTENDS Verdicts

Row(cells) == [kind |-> "row", cells |-> cells]
Prose(text) == [kind |-> "prose", cells |-> <<text>>]
Code(text) == [kind |-> "code", cells |-> <<text>>]

Document(id, run, urls, fault, blocks, html) ==
    [id |-> id, run |-> run, urls |-> urls, fault |-> fault, blocks |-> blocks, html |-> html]

\* x is a table with an empty cell and a one-word cell, or after the next crawl
\* prose with markup; then an error page that says the same.  y redirects to x.
Table == <<Row(<< <<"a", "b">>, <<>>, <<"c">> >>)>>
Article == <<Prose(<<"a", Markup, "b">>), Code(<<"c", "d">>)>>

MCDocuments == {
    Document("x", "r", {"u"}, "none", Table, 1),
    Document("x", "r", {"u"}, "none", Article, 2),
    Document("x", "r", {"u"}, "http_error", Table, 3),
    Document("y", "r", {"u", "v"}, "none", Article, 4),
    Document("y", "q", {"v"}, "none", Table, 5),
    Document("y", "r", {"v"}, "none", <<>>, 6)}

MCCorpora ==
    {{}} \union {{d} : d \in MCDocuments}
      \union {{d, e} : d \in {f \in MCDocuments : f.id = "x"},
                       e \in {f \in MCDocuments : f.id = "y"}}

MCQuotes == {
    <<"a", "b", Bar, "c">>, <<"b", Bar, "c">>,      \* of the table, as C# has it
    <<"a", "b", Bar, Bar, "c">>,                    \* as a chunk has it
    <<"a", Markup, "b">>, <<"a", "b">>,             \* of the article
    <<"c", "d">>, <<"c">>, <<"b">>,                 \* code, a cell, a bare word
    <<"a", "c">>, <<Bar, Bar>>}                     \* of neither

Items == [page : {"x", "y"}, quote : MCQuotes]

MCRequests ==
    [run : {"r"}, quotes : {<<i>> : i \in Items}]
      \union [run : {"r"}, quotes :
                {<<i, j>> : i \in Items, j \in {k \in Items : k.quote \in {<<"a", "b">>, <<"b", Bar, "c">>}}}]
      \union [run : {"q"}, quotes : {<<i>> : i \in Items}]

\* Code that says "a b || c".
MCBarDocuments ==
    {Document("x", "r", {"u"}, "none", <<Code(<<"a", "b", Bar, Bar, "c">>)>>, 1)}

MCBarCorpora == {MCBarDocuments}
=============================================================================

