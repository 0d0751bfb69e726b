------------------------------ MODULE Verdicts ------------------------------
(***************************************************************************)
(* The citation reads of app.py: POST /v1/verify, and GET /v1/pages by id   *)
(* and by url, over a corpus that the crawler, the purge and the cleanup    *)
(* change at any time.                                                      *)
(*                                                                         *)
(* verify_quotes awaits one read for each page it needs and then judges     *)
(* every quote without a further await; the other two routes read once.     *)
(***************************************************************************)
EXTENDS Quotes

CONSTANTS
    Documents,  \* the documents a page can be: [id, run, urls, fault, blocks, html]
    Corpora,    \* the corpora to begin with: sets of documents of different ids
    Requests,   \* bodies: [run, quotes], quotes a sequence of [page, quote]
    MaxTouched  \* bound: pages that change while a request is open

\* What the crawler's own signals can say against a page.
Faults == {"locale", "http_error", "sitemap", "failure"}

\* Documents are as the crawler writes them and bodies as the request model
\* gives them: texts are sequences, and only a row has several cells.
ASSUME DocumentsAssumption ==
    /\ Bar # Markup /\ MinLength \in Nat
    /\ \A d \in Documents :
          /\ d.fault \in Faults \union {"none"}
          /\ d.blocks \in Seq(ToSet(d.blocks))
          /\ \A b \in ToSet(d.blocks) :
                /\ b.kind \in Kinds
                /\ b.cells \in Seq(ToSet(b.cells))
                /\ b.kind # "row" => Len(b.cells) = 1
                /\ \A c \in ToSet(b.cells) : c \in Seq(ToSet(c))
ASSUME RequestsAssumption ==
    \A body \in Requests :
        /\ body.quotes \in Seq(ToSet(body.quotes))
        /\ \A item \in ToSet(body.quotes) : item.quote \in Seq(ToSet(item.quote))
ASSUME CorporaAssumption ==
    \A corpus \in Corpora : /\ corpus \subseteq Documents
                            /\ \A d, e \in corpus : d.id = e.id => d = e

VARIABLES
    pages,      \* crawl_pages
    pc,         \* "idle", "reading", "answered"
    asked,      \* the body
    read,       \* page id -> the set of the document found, or {}
    results,    \* the verdicts
    served,     \* the documents whose text the last GET gave: one, or none
    \* History, for the properties.
    seen,       \* the documents there have been since the body came
    touched     \* the ids whose document was written or deleted since

vars == <<pages, pc, asked, read, results, served, seen, touched>>

Ids == {d.id : d \in Documents}
Urls == UNION {d.urls : d \in Documents}
Runs == {d.run : d \in Documents}

NoRequest == CHOOSE body \in Requests : TRUE     \* of no account while idle

Init ==
    /\ pages \in Corpora
    /\ pc = "idle"
    /\ asked = NoRequest
    /\ read = <<>>
    /\ results = <<>>
    /\ served = {}
    /\ seen = {}
    /\ touched = {}

-----------------------------------------------------------------------------
(* The refusal rule.                                                        *)

\* classify_unusable_page: fault is what the crawler's own signals say, if anything.
classify(page) ==
    IF page.fault # "none" THEN page.fault
    ELSE IF page.blocks = <<>> THEN "no_content" ELSE "none"

\* Mutant: any text of this run's page will do, as until 2026-09-29.
AnyText(page, run) ==
    IF page.run # run \/ PlainText(page.blocks) = <<>> THEN "page_not_found" ELSE "none"

\* _citable_page_text: "none", or why the page may not be cited.
Refusal(page, run) ==
    IF page.run # run \/ PlainText(page.blocks) = <<>> THEN "page_not_found"
    ELSE IF classify(page) \notin {"none", "no_content"} THEN "page_not_citable"
    ELSE "none"

\* found is what get_page gave: {page}, or {} for None.
Refused(found, run) ==
    IF found = {} THEN "page_not_found" ELSE Refusal(CHOOSE page \in found : TRUE, run)

Verdict(item, found, run) ==
    LET refusal == Refused(found, run)
        page == CHOOSE p \in found : TRUE
        isFound == refusal = "none" /\ verify_quote(item.quote, PlainText(page.blocks), page.blocks)
    IN  [page |-> item.page, quote |-> item.quote, found |-> isFound,
         reason |-> CASE refusal # "none" -> refusal
                      [] isFound -> "none"
                      [] OTHER -> "not_on_page",
         digest |-> IF refusal = "none" THEN {page.html} ELSE {}]

\* find_one({"Id": page_id})
get_page(id) == {page \in pages : page.id = id}

-----------------------------------------------------------------------------
(* POST /v1/verify                                                          *)

Verify(body) ==
    /\ pc = "idle"
    /\ pc' = "reading"
    /\ asked' = body
    /\ read' = <<>>
    /\ results' = <<>>
    /\ served' = {}
    /\ seen' = pages
    /\ touched' = {}
    /\ UNCHANGED pages

\* The distinct ids of the body, in their order.
ToRead == {i \in DOMAIN asked.quotes :
              \A j \in 1..(i - 1) : asked.quotes[j].page # asked.quotes[i].page}

Unread == {i \in ToRead : asked.quotes[i].page \notin DOMAIN read}

\* Mutant: each quote is judged on a reading of its own.
ReadAndJudge ==
    /\ pc = "reading"
    /\ LET i == Len(results) + 1
           item == asked.quotes[i]
       IN  /\ results' = Append(results, Verdict(item, get_page(item.page), asked.run))
           /\ pc' = IF i = Len(asked.quotes) THEN "answered" ELSE pc
    /\ UNCHANGED <<pages, asked, read, served, seen, touched>>

\* One await for one page.
ReadPage ==
    /\ pc = "reading"
    /\ Unread # {}
    /\ LET id == asked.quotes[CHOOSE i \in Unread : \A j \in Unread : i <= j].page
       IN  read' = [k \in DOMAIN read \union {id} |->
                       IF k = id THEN get_page(id) ELSE read[k]]
    /\ UNCHANGED <<pages, pc, asked, results, served, seen, touched>>

Answer ==
    /\ pc = "reading"
    /\ Unread = {}
    /\ results' = [i \in DOMAIN asked.quotes |->
                      Verdict(asked.quotes[i], read[asked.quotes[i].page], asked.run)]
    /\ pc' = "answered"
    /\ UNCHANGED <<pages, asked, read, served, seen, touched>>

\* The answer has been sent.
Done ==
    /\ pc = "answered"
    /\ pc' = "idle"
    /\ asked' = NoRequest
    /\ read' = <<>>
    /\ results' = <<>>
    /\ seen' = {}
    /\ touched' = {}
    /\ UNCHANGED <<pages, served>>

-----------------------------------------------------------------------------
(* GET /v1/pages/{id} and GET /v1/pages: one read, then text or a 404.      *)

Serve(found, run) ==
    /\ pc = "idle"
    /\ served' = IF Refused(found, run) = "none" THEN found ELSE {}
    /\ UNCHANGED <<pages, pc, asked, read, results, seen, touched>>

get_page_text == \E id \in Ids, run \in Runs : Serve(get_page(id), run)

\* find_one gives any of the pages that have the url as Url or FinalUrl.
get_page_text_by_url ==
    \E run \in Runs, url \in Urls :
        LET matching == {page \in pages : page.run = run /\ url \in page.urls}
        IN  \/ matching = {} /\ Serve({}, run)
            \/ \E page \in matching : Serve({page}, run)

-----------------------------------------------------------------------------
(* The corpus changes: a page is crawled again, or purged.                  *)

Changing(id) ==
    /\ Cardinality(touched) < MaxTouched
    /\ pc = "reading"
    /\ touched' = touched \union {id}
    /\ UNCHANGED <<pc, asked, read, results, served>>

SavePage ==
    \E document \in Documents \ pages :
        /\ Changing(document.id)
        /\ pages' = (pages \ get_page(document.id)) \union {document}
        /\ seen' = seen \union {document}

DeletePage ==
    \E page \in pages :
        /\ Changing(page.id)
        /\ pages' = pages \ {page}
        /\ UNCHANGED seen

Next ==
    \/ \E body \in Requests : Verify(body)
    \/ ReadPage \/ Answer \/ Done
    \/ get_page_text \/ get_page_text_by_url
    \/ SavePage \/ DeletePage

Spec == Init /\ [][Next]_vars

-----------------------------------------------------------------------------
(* Properties.                                                              *)

TypeOK ==
    /\ pages \subseteq Documents
    /\ \A p, q \in pages : p.id = q.id => p = q
    /\ pc \in {"idle", "reading", "answered"}
    /\ asked \in Requests
    /\ DOMAIN read \subseteq Ids
    /\ \A id \in DOMAIN read : read[id] \subseteq seen /\ Cardinality(read[id]) <= 1
    /\ Cardinality(served) <= 1
    /\ touched \subseteq Ids

\* A page's words, block after block, with nothing of how they are laid out.
PageWords(page) ==
    FlattenSeq([b \in DOMAIN page.blocks |-> WordsOf(FlattenSeq(page.blocks[b].cells))])

Cells(page) == UNION {ToSet(b.cells) : b \in ToSet(page.blocks)}

MayCite(page) == page.run = asked.run /\ page.fault = "none"

\* A quote is reported found only if, at some moment while the request was
\* open, a page of that id in the run asked about, which the crawler did not
\* condemn, had the quote's words one after the other; and a short quote only
\* if they were a whole cell (app.py: "Nothing is ever reported found without
\* being compared"; citation_verify.py: "a refusal, never a false match").
FoundIsOnThePage ==
    \A i \in DOMAIN results :
        LET r == results[i]
        IN  r.found =>
                \E page \in seen :
                    /\ page.id = r.page /\ MayCite(page)
                    /\ WordsOf(r.quote) # <<>>
                    /\ IsIn(WordsOf(r.quote), PageWords(page))
                    /\ Len(CleanProse(r.quote)) < MinLength =>
                           \E c \in Cells(page) : WordsOf(c) = WordsOf(r.quote)

\* The blocks of which GeekAPI's text and this service's text differ in more
\* than the two places that verify_quote makes up for.
Comparable(block) ==
    /\ block.kind = "code" => Markup \notin ToSet(block.cells[1])
    /\ \A c \in ToSet(block.cells) : c # <<>> => CleanProse(c) # <<>>

\* The blocks of whose own words none is a bar.
Barless(block) == \A c \in ToSet(block.cells) : Bar \notin ToSet(c)

\* What holds of the verdict on a quote of a page that nobody touched.
Steady(r, page) == page.id = r.page /\ page.id \notin touched /\ MayCite(page)

\* A quote that GeekAPI cut from a block of a page that stayed as it is, and
\* that is long enough to be looked up in the text, is found, empty cells and
\* escaped markup notwithstanding (verify_quote).  A text with bars of its own
\* is another matter: see ComparableQuotesAreFound.
OwnQuotesAreFound ==
    \A i \in DOMAIN results : \A page \in pages : \A block \in ToSet(page.blocks) :
        LET r == results[i]
        IN  /\ Steady(r, page) /\ Comparable(block) /\ Barless(block)
            /\ Len(CleanProse(r.quote)) >= MinLength /\ HasWord(CleanProse(r.quote))
            /\ r.quote \in Pieces(RenderElsewhere(block))
            => r.found

\* "a C# string and the Python projection of the same blocks compare equal"
\* (verify_quote): so such a quote is found, whatever the words of the block.
ComparableQuotesAreFound ==
    \A i \in DOMAIN results : \A page \in pages : \A block \in ToSet(page.blocks) :
        LET r == results[i]
        IN  /\ Steady(r, page) /\ Comparable(block)
            /\ Len(CleanProse(r.quote)) >= MinLength /\ HasWord(CleanProse(r.quote))
            /\ r.quote \in Pieces(RenderElsewhere(block))
            => r.found

\* All verdicts of one answer about one page come from one reading of it: the
\* same refusal, the same digest, and the same verdict on the same quote,
\* however often the page changed in between (pages is read before the loop).
OneReading ==
    \A i, j \in DOMAIN results :
        LET r == results[i]  s == results[j]
        IN  r.page = s.page =>
                /\ r.digest = s.digest
                /\ r.quote = s.quote => r = s

\* "a quote cut from a retrieved passage is checked against the text that
\* passage came from" (verify_quotes): so a quote cut from the text of a block
\* that the chunker embeds is found, if its page stayed as it is.
PassageQuotesAreFound ==
    \A i \in DOMAIN results : \A page \in pages : \A block \in ToSet(page.blocks) :
        LET r == results[i]
        IN  /\ Steady(r, page)
            /\ Len(CleanProse(r.quote)) >= MinLength /\ HasWord(CleanProse(r.quote))
            /\ r.quote \in Pieces(Render(block))
            => r.found
=============================================================================
