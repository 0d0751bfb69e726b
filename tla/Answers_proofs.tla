--------------------------- MODULE Answers_proofs ---------------------------
(***************************************************************************)
(* What the two stateless answers are worth: the verdicts on quotes, for    *)
(* every corpus, request and change of the corpus while the request is      *)
(* open, and the analyses of supplied pages, for every body.                *)
(***************************************************************************)
EXTENDS Verdicts, Analyses, Lists_proofs, FiniteSetTheorems

-----------------------------------------------------------------------------
(* Verdicts.                                                                *)

\* An answer judges every quote by the one reading there was of its page.
JudgedByReading ==
    IF pc = "answered"
    THEN results = [i \in DOMAIN asked.quotes |->
                       Verdict(asked.quotes[i], read[asked.quotes[i].page], asked.run)]
    ELSE results = <<>>

\* A verdict says which page and quote it is on, and its digest is the reading's.
LEMMA VerdictIsOn ==
    ASSUME NEW item, NEW found, NEW run
    PROVE  /\ Verdict(item, found, run).page = item.page
           /\ Verdict(item, found, run).quote = item.quote
BY DEF Verdict

\* Alike in page and quote, judged on one reading: the same verdict.
LEMMA VerdictIsOne ==
    ASSUME NEW item, NEW other, NEW found, NEW run, item.page = other.page
    PROVE  /\ Verdict(item, found, run).digest = Verdict(other, found, run).digest
           /\ item.quote = other.quote =>
                  Verdict(item, found, run) = Verdict(other, found, run)
BY DEF Verdict

\* Every step keeps the invariant.
LEMMA StepKeeps == JudgedByReading /\ [Next]_vars => JudgedByReading'
<1>. SUFFICES ASSUME JudgedByReading, [Next]_vars PROVE JudgedByReading'
  OBVIOUS
<1>. USE DEF JudgedByReading
<1>1. ASSUME NEW body \in Requests, Verify(body) PROVE JudgedByReading'
  BY <1>1 DEF Verify
<1>2. CASE ReadPage
  BY <1>2 DEF ReadPage
<1>3. CASE Answer
  BY <1>3 DEF Answer
<1>4. CASE Done
  BY <1>4 DEF Done
<1>5. CASE get_page_text \/ get_page_text_by_url
  BY <1>5 DEF get_page_text, get_page_text_by_url, Serve
<1>6. CASE SavePage \/ DeletePage
  BY <1>6 DEF SavePage, DeletePage, Changing
<1>7. CASE UNCHANGED vars
  BY <1>7 DEF vars
<1>. QED
  BY <1>1, <1>2, <1>3, <1>4, <1>5, <1>6, <1>7 DEF Next

\* All verdicts of one answer about one page come from one reading of it,
\* however often the page is crawled again or deleted between the reads and the
\* answer, and however long the request (verify_quotes).
THEOREM VerdictsAgree == Spec => []OneReading
<1>1. Init => JudgedByReading
  BY DEF Init, JudgedByReading
<1>2. JudgedByReading => OneReading
  <2>. SUFFICES ASSUME JudgedByReading, NEW i \in DOMAIN results, NEW j \in DOMAIN results,
                       results[i].page = results[j].page
                PROVE  /\ results[i].digest = results[j].digest
                       /\ results[i].quote = results[j].quote => results[i] = results[j]
    BY DEF OneReading
  <2>1. pc = "answered"
    BY DEF JudgedByReading
  <2>. DEFINE a == asked.quotes[i]
              b == asked.quotes[j]
  <2>2. results[i] = Verdict(a, read[a.page], asked.run)
        /\ results[j] = Verdict(b, read[b.page], asked.run)
    BY <2>1 DEF JudgedByReading
  <2>3. a.page = b.page /\ results[i].quote = a.quote /\ results[j].quote = b.quote
    BY <2>2, VerdictIsOn
  <2>. QED
    BY <2>2, <2>3, VerdictIsOne
<1>. QED
  BY <1>1, <1>2, StepKeeps, PTL DEF Spec

-----------------------------------------------------------------------------
(* The words of a text.                                                     *)

\* To clean a text of markup leaves its words (clean_prose_text).
LEMMA CleanKeepsWords ==
    ASSUME NEW A, NEW t \in Seq(A)
    PROVE  CleanProse(t) \in Seq(A) /\ WordsOf(CleanProse(t)) = WordsOf(t)
<1>1. CleanProse(t) \in Seq(A)
  BY DroppingPieces DEF CleanProse
<1>2. {Markup} \subseteq {Bar, Markup}
  OBVIOUS
<1>3. Dropping(Dropping(t, {Markup}), {Bar, Markup}) = Dropping(t, {Bar, Markup})
  <2>. DEFINE X == {Markup}
              Y == {Bar, Markup}
  <2>. HIDE DEF X, Y
  <2>1. X \subseteq Y
    BY <1>2 DEF X, Y
  <2>2. Dropping(Dropping(t, X), Y) = Dropping(t, Y)
    BY <2>1, DroppingAgain
  <2>. QED
    BY <2>2 DEF X, Y
<1>. QED
  BY <1>1, <1>3 DEF CleanProse, WordsOf

\* So does making one bar of several (_EMPTY_CELL_RUN).
LEMMA OneBarKeepsWords ==
    ASSUME NEW A, NEW t \in Seq(A)
    PROVE  OneBar(t) \in Seq(A) /\ WordsOf(OneBar(t)) = WordsOf(t)
<1>. DEFINE X == {Bar, Markup}
            pieces == [i \in DOMAIN t |->
                          IF i > 1 /\ t[i] = Bar /\ t[i - 1] = Bar THEN <<>> ELSE <<t[i]>>]
            left == [i \in DOMAIN t |-> IF t[i] \in X THEN <<>> ELSE <<t[i]>>]
<1>1. DOMAIN t = 1..Len(t) /\ Len(t) \in Nat
  OBVIOUS
<1>2. pieces \in Seq(Seq(A))
  <2>1. ASSUME NEW i \in DOMAIN t PROVE pieces[i] \in Seq(A)
    <3>1. <<t[i]>> \in Seq(A) /\ <<>> \in Seq(A)
      OBVIOUS
    <3>. QED
      BY <3>1
  <2>. QED
    BY <1>1, <2>1
<1>3. ASSUME NEW i \in DOMAIN t PROVE Dropping(pieces[i], X) = left[i]
  <2>1. Bar \in X
    OBVIOUS
  <2>2. pieces[i] = <<t[i]>> \/ (pieces[i] = <<>> /\ t[i] \in X)
    OBVIOUS
  <2>3. /\ t[i] \in X => Dropping(<<t[i]>>, X) = <<>>
        /\ t[i] \notin X => Dropping(<<t[i]>>, X) = <<t[i]>>
        /\ Dropping(<<>>, X) = <<>>
    <3>. HIDE DEF X
    <3>. QED
      BY DroppingOne
  <2>. HIDE DEF X, pieces
  <2>. QED
    BY <2>2, <2>3
<1>4. [i \in DOMAIN pieces |-> Dropping(pieces[i], X)] = left
  BY <1>3
<1>5. Dropping(FlattenSeq(pieces), X) = FlattenSeq([i \in DOMAIN pieces |-> Dropping(pieces[i], X)])
  <2>. HIDE DEF pieces, X
  <2>. QED
    BY <1>2, DroppingFlatten
<1>6. FlattenSeq(pieces) \in Seq(A)
  <2>. HIDE DEF pieces
  <2>. QED
    BY <1>2, FlattenTypes
<1>. QED
  BY <1>4, <1>5, <1>6 DEF OneBar, WordsOf, Dropping

\* So does joining cells with bars (ROW_CELL_SEPARATOR).
LEMMA JoinedKeepsWords ==
    ASSUME NEW A, Bar \in A, NEW cells \in Seq(Seq(A))
    PROVE  Joined(cells) \in Seq(A) /\ WordsOf(Joined(cells)) = WordsOf(FlattenSeq(cells))
<1>. DEFINE X == {Bar, Markup}
            pieces == [i \in DOMAIN cells |-> IF i > 1 THEN <<Bar>> \o cells[i] ELSE cells[i]]
<1>1. DOMAIN cells = 1..Len(cells) /\ Len(cells) \in Nat /\ <<Bar>> \in Seq(A)
  OBVIOUS
<1>2. ASSUME NEW i \in DOMAIN cells PROVE cells[i] \in Seq(A) /\ pieces[i] \in Seq(A)
  BY <1>1
<1>3. pieces \in Seq(Seq(A)) /\ Len(pieces) = Len(cells) /\ DOMAIN pieces = DOMAIN cells
  BY <1>1, <1>2
<1>4. \A q \in Seq(A) : Dropping(<<Bar>> \o q, X) = Dropping(q, X)
  <2>1. Bar \in X
    OBVIOUS
  <2>. HIDE DEF X
  <2>2. \A p, q \in Seq(A) : Dropping(p \o q, X) = Dropping(p, X) \o Dropping(q, X)
    BY DroppingConcat
  <2>3. Dropping(<<Bar>>, X) = <<>>
    BY <2>1, DroppingOne
  <2>4. \A q \in Seq(A) : Dropping(q, X) \in Seq(A)
    BY DroppingPieces
  <2>5. \A q \in Seq(A) : <<>> \o q = q
    OBVIOUS
  <2>6. ASSUME NEW q \in Seq(A) PROVE Dropping(<<Bar>> \o q, X) = Dropping(q, X)
    <3>1. Dropping(<<Bar>> \o q, X) = Dropping(<<Bar>>, X) \o Dropping(q, X)
      BY <1>1, <2>2
    <3>. DEFINE d == Dropping(q, X)
    <3>2. d \in Seq(A)
      BY <2>4
    <3>. HIDE DEF d
    <3>3. <<>> \o d = d
      BY <2>5, <3>2
    <3>. QED
      BY <2>3, <3>1, <3>3 DEF d
  <2>. QED
    BY <2>6
<1>5. \A i \in DOMAIN pieces : Dropping(pieces[i], X) = Dropping(cells[i], X)
  <2>. HIDE DEF X
  <2>. QED
    BY <1>2, <1>3, <1>4
<1>6. Dropping(FlattenSeq(pieces), X) = Dropping(FlattenSeq(cells), X)
  <2>. HIDE DEF pieces, X
  <2>. QED
    BY <1>3, <1>5, DroppingAlike
<1>7. FlattenSeq(pieces) \in Seq(A)
  <2>. HIDE DEF pieces
  <2>. QED
    BY <1>3, FlattenTypes
<1>. QED
  BY <1>6, <1>7 DEF Joined, WordsOf

\* A block whose cells are texts over A.
IsBlock(block, A) ==
    /\ block.kind \in Kinds
    /\ block.cells \in Seq(Seq(A))
    /\ block.kind # "row" => Len(block.cells) = 1

\* So does rendering a block (render_block_text).
LEMMA RenderKeepsWords ==
    ASSUME NEW A, Bar \in A, NEW block, IsBlock(block, A)
    PROVE  Render(block) \in Seq(A) /\ WordsOf(Render(block)) = WordsOf(FlattenSeq(block.cells))
<1>. DEFINE cells == block.cells
            cleaned == [i \in DOMAIN cells |-> CleanProse(cells[i])]
<1>1. cells \in Seq(Seq(A)) /\ DOMAIN cells = 1..Len(cells) /\ Len(cells) \in Nat
  BY DEF IsBlock
<1>2. ASSUME NEW i \in DOMAIN cells
      PROVE  cells[i] \in Seq(A) /\ CleanProse(cells[i]) \in Seq(A)
             /\ WordsOf(CleanProse(cells[i])) = WordsOf(cells[i])
  <2>. DEFINE c == cells[i]
  <2>1. c \in Seq(A)
    BY <1>1
  <2>. HIDE DEF c
  <2>2. CleanProse(c) \in Seq(A) /\ WordsOf(CleanProse(c)) = WordsOf(c)
    BY <2>1, CleanKeepsWords
  <2>. QED
    BY <2>1, <2>2 DEF c
<1>3. cleaned \in Seq(Seq(A)) /\ Len(cleaned) = Len(cells) /\ DOMAIN cleaned = DOMAIN cells
  BY <1>1, <1>2
<1>4. CASE block.kind = "code"
  <2>1. Len(cells) = 1 /\ Render(block) = cells[1]
    BY <1>4 DEF IsBlock, Render
  <2>2. cells[1] \in Seq(A) /\ cells = <<cells[1]>>
    BY <1>1, <2>1
  <2>3. FlattenSeq(<<cells[1]>>) = cells[1]
    BY <2>2, FlattenOne
  <2>4. FlattenSeq(cells) = cells[1]
    BY <2>2, <2>3
  <2>. QED
    BY <2>1, <2>2, <2>4
<1>5. CASE block.kind # "code"
  <2>1. Render(block) = Joined(cleaned)
    BY <1>5 DEF Render
  <2>2. \A i \in DOMAIN cleaned :
           Dropping(cleaned[i], {Bar, Markup}) = Dropping(cells[i], {Bar, Markup})
    BY <1>2, <1>3 DEF WordsOf
  <2>. DEFINE X == {Bar, Markup}
  <2>3. \A i \in DOMAIN cleaned : Dropping(cleaned[i], X) = Dropping(cells[i], X)
    BY <2>2
  <2>. HIDE DEF cells, cleaned, X
  <2>4. Joined(cleaned) \in Seq(A) /\ WordsOf(Joined(cleaned)) = WordsOf(FlattenSeq(cleaned))
    BY <1>3, JoinedKeepsWords
  <2>5. Dropping(FlattenSeq(cleaned), X) = Dropping(FlattenSeq(cells), X)
    BY <1>1, <1>3, <2>3, DroppingAlike
  <2>. QED
    BY <2>1, <2>4, <2>5 DEF cells, X, WordsOf
<1>. QED
  BY <1>4, <1>5

\* So does the text of all blocks (derive_plaintext_from_blocks).
LEMMA PlainTextKeepsWords ==
    ASSUME NEW A, Bar \in A, NEW page, page.blocks \in Seq(ToSet(page.blocks)),
           \A b \in ToSet(page.blocks) : IsBlock(b, A)
    PROVE  PlainText(page.blocks) \in Seq(A) /\ WordsOf(PlainText(page.blocks)) = PageWords(page)
<1>. DEFINE blocks == page.blocks
            rendered == [i \in DOMAIN blocks |-> Render(blocks[i])]
            said == [i \in DOMAIN blocks |-> WordsOf(FlattenSeq(blocks[i].cells))]
            X == {Bar, Markup}
<1>1. DOMAIN blocks = 1..Len(blocks) /\ Len(blocks) \in Nat
  OBVIOUS
<1>2. ASSUME NEW i \in DOMAIN blocks
      PROVE  Render(blocks[i]) \in Seq(A)
             /\ WordsOf(Render(blocks[i])) = WordsOf(FlattenSeq(blocks[i].cells))
  <2>. DEFINE b == blocks[i]
  <2>1. IsBlock(b, A)
    BY DEF ToSet
  <2>. HIDE DEF b
  <2>2. Render(b) \in Seq(A) /\ WordsOf(Render(b)) = WordsOf(FlattenSeq(b.cells))
    BY <2>1, RenderKeepsWords
  <2>. QED
    BY <2>2 DEF b
<1>3. rendered \in Seq(Seq(A)) /\ DOMAIN rendered = DOMAIN blocks
  BY <1>1, <1>2
<1>4. [i \in DOMAIN rendered |-> Dropping(rendered[i], X)] = said
  BY <1>2, <1>3 DEF WordsOf
<1>. HIDE DEF rendered, X, said
<1>5. Dropping(FlattenSeq(rendered), X) = FlattenSeq([i \in DOMAIN rendered |-> Dropping(rendered[i], X)])
  BY <1>3, DroppingFlatten
<1>6. FlattenSeq(rendered) \in Seq(A)
  BY <1>3, FlattenTypes
<1>7. PlainText(page.blocks) = FlattenSeq(rendered) /\ PageWords(page) = FlattenSeq(said)
  BY DEF PlainText, PageWords, rendered, said
<1>. QED
  BY <1>4, <1>5, <1>6, <1>7 DEF WordsOf, X

-----------------------------------------------------------------------------
(* A quote in a text.                                                       *)

\* A quote is in a text that has something before it and something after it.
LEMMA SplitIsIn ==
    ASSUME NEW A, NEW a \in Seq(A), NEW q \in Seq(A), NEW b \in Seq(A)
    PROVE  IsIn(q, (a \o q) \o b)
<1>. DEFINE t == (a \o q) \o b
            i == Len(a)
            n == Len(q)
<1>1. /\ i \in Nat /\ n \in Nat /\ Len(b) \in Nat /\ t \in Seq(A) /\ Len(t) = i + n + Len(b)
      /\ \A k \in 1..n : t[i + k] = q[k]
  OBVIOUS
<1>2. i \in 0..(Len(t) - n)
  BY <1>1
<1>3. SubSeq(t, i + 1, i + n) = q
  <2>. HIDE DEF t, i
  <2>. DEFINE u == SubSeq(t, i + 1, i + n)
  <2>1. u \in Seq(A) /\ Len(u) = n
    <3>1. i + 1 \in Nat /\ i + n \in Nat /\ i + n <= Len(t)
      BY <1>1
    <3>2. \A j \in (i + 1)..(i + n) : j \in 1..Len(t)
      BY <1>1
    <3>. QED
      BY <1>1, <3>1, <3>2
  <2>2. \A k \in 1..n : u[k] = t[i + k]
    BY <1>1
  <2>. HIDE DEF u
  <2>3. \A k \in 1..n : u[k] = q[k]
    BY <1>1, <2>2
  <2>4. u = q
    BY <2>1, <2>3
  <2>. QED
    BY <2>4 DEF u
<1>. QED
  BY <1>2, <1>3 DEF IsIn

\* And only in such a text.
LEMMA IsInSplits ==
    ASSUME NEW A, NEW q \in Seq(A), NEW t \in Seq(A),
           NEW i \in 0..(Len(t) - Len(q)), SubSeq(t, i + 1, i + Len(q)) = q
    PROVE  /\ Before(t, i + 1) \in Seq(A) /\ After(t, i + Len(q)) \in Seq(A)
           /\ t = (Before(t, i + 1) \o q) \o After(t, i + Len(q))
<1>. DEFINE n == Len(q)
            rest == Len(t) - (i + n)
            a == [k \in 1..i |-> t[k]]
            b == [k \in 1..rest |-> t[(i + n) + k]]
<1>2. /\ n \in Nat /\ i \in Nat /\ rest \in Nat /\ Len(t) \in Nat
      /\ Len(t) = (i + n) + rest /\ t \in [1..Len(t) -> A]
  OBVIOUS
<1>3. a \in Seq(A) /\ Len(a) = i /\ \A k \in 1..i : a[k] = t[k]
  BY <1>2
<1>4. b \in Seq(A) /\ Len(b) = rest /\ \A k \in 1..rest : b[k] = t[(i + n) + k]
  BY <1>2
<1>5. \A k \in 1..n : q[k] = t[i + k]
  <2>1. \A k \in 1..n : SubSeq(t, i + 1, i + n)[k] = t[i + k]
    BY <1>2
  <2>. QED
    BY <2>1
<1>. DEFINE u == a \o q
            v == (a \o q) \o b
<1>. HIDE DEF a, b
<1>6. u \in Seq(A) /\ Len(u) = i + n /\ (\A k \in 1..i : u[k] = t[k])
      /\ \A k \in 1..n : u[i + k] = t[i + k]
  <2>1. u \in Seq(A) /\ Len(u) = i + n
    BY <1>2, <1>3, SMTT(30)
  <2>2. \A k \in 1..i : u[k] = a[k]
    BY <1>2, <1>3
  <2>3. \A k \in 1..n : u[i + k] = q[k]
    BY <1>2, <1>3
  <2>. HIDE DEF u, n
  <2>. QED
    BY <1>3, <1>5, <2>1, <2>2, <2>3
<1>7. \A k \in 1..(i + n) : u[k] = t[k]
  <2>1. ASSUME NEW k \in 1..(i + n), ~(k <= i) PROVE k - i \in 1..n /\ i + (k - i) = k
    BY <1>2, <2>1
  <2>2. ASSUME NEW k \in 1..(i + n), k <= i PROVE k \in 1..i
    BY <1>2, <2>2
  <2>. HIDE DEF u
  <2>3. ASSUME NEW k \in 1..(i + n) PROVE u[k] = t[k]
    <3>1. CASE k <= i
      BY <1>6, <2>2, <3>1
    <3>2. CASE ~(k <= i)
      <4>1. u[i + (k - i)] = t[i + (k - i)]
        BY <1>6, <2>1, <3>2
      <4>. QED
        BY <2>1, <3>2, <4>1
    <3>. QED
      BY <3>1, <3>2
  <2>. QED
    BY <2>3
<1>8. v \in Seq(A) /\ Len(v) = Len(t) /\ (\A k \in 1..(i + n) : v[k] = u[k])
      /\ \A k \in 1..rest : v[(i + n) + k] = b[k]
  <2>1. v = u \o b
    OBVIOUS
  <2>. DEFINE m == i + n
  <2>2. m \in Nat /\ Len(u) = m /\ Len(b) = rest /\ rest \in Nat /\ u \in Seq(A) /\ b \in Seq(A)
        /\ Len(t) = m + rest
    BY <1>2, <1>4, <1>6
  <2>. HIDE DEF u, v, rest, m
  <2>3. v \in Seq(A) /\ Len(v) = m + rest
    <3>0. u \in Seq(A) /\ b \in Seq(A)
      BY <2>2
    <3>1. u \o b \in Seq(A)
      BY <3>0
    <3>2. Len(u \o b) = Len(u) + Len(b)
      BY <3>0
    <3>. QED
      BY <2>1, <2>2, <3>1, <3>2
  <2>4. \A k \in 1..m : v[k] = u[k]
    BY <2>1, <2>2
  <2>5. \A k \in 1..rest : v[m + k] = b[k]
    BY <2>1, <2>2
  <2>. QED
    BY <2>2, <2>3, <2>4, <2>5 DEF m
<1>9. ASSUME NEW k \in 1..Len(t) PROVE v[k] = t[k]
  <2>. HIDE DEF u, v
  <2>1. CASE k <= i + n
    <3>1. k \in 1..(i + n)
      BY <1>2, <2>1
    <3>. QED
      BY <1>7, <1>8, <3>1
  <2>2. CASE ~(k <= i + n)
    <3>1. k - (i + n) \in 1..rest /\ (i + n) + (k - (i + n)) = k
      BY <1>2, <2>2
    <3>. DEFINE m == k - (i + n)
    <3>2. m \in 1..rest /\ (i + n) + m = k
      BY <3>1
    <3>. HIDE DEF m, rest
    <3>. QED
      BY <1>4, <1>8, <3>2
  <2>. QED
    BY <2>1, <2>2
<1>10. v = t
  <2>. HIDE DEF v
  <2>. QED
    BY <1>8, <1>9
<1>11. a = Before(t, i + 1) /\ b = After(t, i + n)
  BY <1>2 DEF Before, After, a, b
<1>. QED
  BY <1>3, <1>4, <1>10, <1>11 DEF v

\* So what is left of a quote is in what is left of the text.
LEMMA IsInDrops ==
    ASSUME NEW A, NEW q \in Seq(A), NEW t \in Seq(A), NEW X, IsIn(q, t)
    PROVE  IsIn(Dropping(q, X), Dropping(t, X))
<1>0. \A x, y \in Seq(A) : Dropping(x \o y, X) = Dropping(x, X) \o Dropping(y, X)
  BY DroppingConcat, SMTT(30)
<1>1. \A x \in Seq(A) : Dropping(x, X) \in Seq(A)
  BY DroppingPieces
<1>2. PICK a \in Seq(A), b \in Seq(A) : t = (a \o q) \o b
  <2>1. PICK i \in 0..(Len(t) - Len(q)) : SubSeq(t, i + 1, i + Len(q)) = q
    BY DEF IsIn
  <2>2. /\ Before(t, i + 1) \in Seq(A) /\ After(t, i + Len(q)) \in Seq(A)
        /\ t = (Before(t, i + 1) \o q) \o After(t, i + Len(q))
    BY <2>1, IsInSplits
  <2>. QED
    BY <2>2
<1>3. a \o q \in Seq(A)
  OBVIOUS
<1>4. Dropping(t, X) = (Dropping(a, X) \o Dropping(q, X)) \o Dropping(b, X)
  BY <1>0, <1>2, <1>3
<1>5. Dropping(a, X) \in Seq(A) /\ Dropping(q, X) \in Seq(A) /\ Dropping(b, X) \in Seq(A)
  BY <1>1
<1>. DEFINE da == Dropping(a, X)
            dq == Dropping(q, X)
            db == Dropping(b, X)
<1>6. da \in Seq(A) /\ dq \in Seq(A) /\ db \in Seq(A)
  BY <1>5
<1>. HIDE DEF da, dq, db
<1>7. IsIn(dq, (da \o dq) \o db)
  BY <1>6, SplitIsIn
<1>. QED
  BY <1>4, <1>7 DEF da, dq, db

\* To be in a part is to be in the whole.
LEMMA IsInPart ==
    ASSUME NEW A, NEW q \in Seq(A), NEW t \in Seq(A), NEW u \in Seq(A), IsIn(q, t), IsIn(t, u)
    PROVE  IsIn(q, u)
<1>1. PICK a \in Seq(A), b \in Seq(A) : t = (a \o q) \o b
  <2>1. PICK i \in 0..(Len(t) - Len(q)) : SubSeq(t, i + 1, i + Len(q)) = q
    BY DEF IsIn
  <2>2. /\ Before(t, i + 1) \in Seq(A) /\ After(t, i + Len(q)) \in Seq(A)
        /\ t = (Before(t, i + 1) \o q) \o After(t, i + Len(q))
    BY <2>1, IsInSplits
  <2>. QED
    BY <2>2
<1>2. PICK c \in Seq(A), d \in Seq(A) : u = (c \o t) \o d
  <2>1. PICK i \in 0..(Len(u) - Len(t)) : SubSeq(u, i + 1, i + Len(t)) = t
    BY DEF IsIn
  <2>2. /\ Before(u, i + 1) \in Seq(A) /\ After(u, i + Len(t)) \in Seq(A)
        /\ u = (Before(u, i + 1) \o t) \o After(u, i + Len(t))
    BY <2>1, IsInSplits
  <2>. QED
    BY <2>2
<1>. DEFINE ca == c \o a
            bd == b \o d
            aq == a \o q
            caq == ca \o q
<1>3. ca \in Seq(A) /\ bd \in Seq(A) /\ aq \in Seq(A) /\ caq \in Seq(A)
  OBVIOUS
<1>. DEFINE T == Seq(A)
<1>0. \A x, y, z \in T : (x \o y) \o z = x \o (y \o z)
  BY SMTT(60)
<1>4. caq = c \o aq
  <2>1. a \in T /\ c \in T /\ q \in T
    OBVIOUS
  <2>. HIDE DEF T
  <2>. QED
    BY <1>0, <2>1
<1>5. u = caq \o bd
  <2>. HIDE DEF ca, aq, caq
  <2>0. aq \in T /\ caq \in T /\ b \in T /\ c \in T /\ d \in T
    BY <1>3
  <2>. HIDE DEF T
  <2>1. c \o (aq \o b) = (c \o aq) \o b
    BY <1>0, <2>0
  <2>2. (caq \o b) \o d = caq \o (b \o d)
    BY <1>0, <2>0, SMTT(30)
  <2>3. u = (c \o (aq \o b)) \o d
    BY <1>1, <1>2 DEF aq
  <2>. QED
    BY <1>4, <2>1, <2>2, <2>3
<1>. HIDE DEF ca, bd
<1>6. IsIn(q, (ca \o q) \o bd)
  BY <1>3, SplitIsIn
<1>. QED
  BY <1>5, <1>6

\* What is flattened is in the whole.
LEMMA PartIsIn ==
    ASSUME NEW A, NEW seqs \in Seq(Seq(A)), NEW i \in 1..Len(seqs)
    PROVE  seqs[i] \in Seq(A) /\ IsIn(seqs[i], FlattenSeq(seqs))
<1>1. seqs[i] \in Seq(A)
  OBVIOUS
<1>. DEFINE T == Seq(A)
            x == seqs[i]
<1>2. PICK a \in T, b \in T : FlattenSeq(seqs) = (a \o x) \o b
  <2>1. T = Seq(A) /\ seqs \in Seq(T)
    OBVIOUS
  <2>. HIDE DEF T
  <2>2. \E a, b \in Seq(A) : FlattenSeq(seqs) = (a \o seqs[i]) \o b
    BY <2>1, FlattenPart
  <2>. QED
    BY <2>1, <2>2
<1>3. a \in Seq(A) /\ x \in Seq(A) /\ b \in Seq(A)
  BY <1>1
<1>. HIDE DEF x, T
<1>4. IsIn(x, (a \o x) \o b)
  BY <1>3, SplitIsIn
<1>. QED
  BY <1>1, <1>2, <1>4 DEF x

\* A quote with a word has a word (isalnum).
LEMMA HasWordIs ==
    ASSUME NEW A, NEW q \in Seq(A), HasWord(q)
    PROVE  WordsOf(q) # <<>>
<1>1. PICK i \in 1..Len(q) : q[i] \notin {Bar, Markup}
  BY DEF HasWord
<1>. DEFINE X == {Bar, Markup}
<1>2. q[i] \notin X
  BY <1>1
<1>. HIDE DEF X
<1>3. Dropping(q, X) # <<>>
  BY <1>2, DroppingLeaves
<1>. QED
  BY <1>3 DEF WordsOf, X

\* The words of a cell are in the words of its block, and those in the page's.
LEMMA CellIsIn ==
    ASSUME NEW A, Bar \in A, NEW page, page.blocks \in Seq(ToSet(page.blocks)),
           \A b \in ToSet(page.blocks) : IsBlock(b, A),
           NEW b \in ToSet(page.blocks), NEW c \in ToSet(b.cells)
    PROVE  c \in Seq(A) /\ IsIn(WordsOf(c), PageWords(page))
<1>. DEFINE blocks == page.blocks
            said == [i \in DOMAIN blocks |-> WordsOf(FlattenSeq(blocks[i].cells))]
            cells == b.cells
<1>1. cells \in Seq(Seq(A))
  BY DEF IsBlock
<1>2. PICK j \in 1..Len(cells) : cells[j] = c
  BY <1>1 DEF ToSet
<1>3. c \in Seq(A) /\ IsIn(c, FlattenSeq(cells))
  <2>. HIDE DEF cells
  <2>. QED
    BY <1>1, <1>2, PartIsIn
<1>4. \A e \in ToSet(page.blocks) : FlattenSeq(e.cells) \in Seq(A)
  BY FlattenTypes DEF IsBlock
<1>5. \A t \in Seq(A) : WordsOf(t) \in Seq(A)
  BY DroppingPieces DEF WordsOf
<1>6. IsIn(WordsOf(c), WordsOf(FlattenSeq(cells)))
  <2>. DEFINE whole == FlattenSeq(cells)
              X == {Bar, Markup}
  <2>1. whole \in Seq(A) /\ IsIn(c, whole)
    BY <1>3, <1>4
  <2>. HIDE DEF whole, X
  <2>2. IsIn(Dropping(c, X), Dropping(whole, X))
    BY <1>3, <2>1, IsInDrops
  <2>. QED
    BY <2>2 DEF WordsOf, whole, X
<1>7. DOMAIN blocks = 1..Len(blocks) /\ Len(blocks) \in Nat
  OBVIOUS
<1>8. \A i \in DOMAIN blocks : said[i] \in Seq(A)
  BY <1>4, <1>5 DEF ToSet
<1>9. said \in Seq(Seq(A)) /\ Len(said) = Len(blocks)
  <2>. DEFINE T == Seq(A)
              N == Len(blocks)
  <2>1. DOMAIN said = 1..N /\ N \in Nat /\ \A i \in 1..N : said[i] \in T
    BY <1>7, <1>8
  <2>2. said = [i \in 1..N |-> said[i]]
    BY <1>7
  <2>. HIDE DEF said, T, N
  <2>3. said \in Seq(T) /\ Len(said) = N
    BY <2>1, <2>2
  <2>. QED
    BY <2>3 DEF T, N
<1>10. PICK i \in 1..Len(blocks) : blocks[i] = b
  BY <1>7 DEF ToSet
<1>11. said[i] = WordsOf(FlattenSeq(cells))
  BY <1>7, <1>10
<1>12. IsIn(said[i], FlattenSeq(said)) /\ FlattenSeq(said) \in Seq(A) /\ said[i] \in Seq(A)
  <2>. HIDE DEF said
  <2>. QED
    BY <1>9, PartIsIn, FlattenTypes
<1>13. FlattenSeq(said) = PageWords(page)
  BY DEF PageWords
<1>14. IsIn(WordsOf(c), FlattenSeq(said))
  <2>. DEFINE q == WordsOf(c)
              t == said[i]
              u == FlattenSeq(said)
  <2>1. q \in Seq(A) /\ t \in Seq(A) /\ u \in Seq(A) /\ IsIn(q, t) /\ IsIn(t, u)
    BY <1>3, <1>5, <1>6, <1>11, <1>12
  <2>. HIDE DEF q, t, u
  <2>2. IsIn(q, u)
    BY <2>1, IsInPart
  <2>. QED
    BY <2>2 DEF q, u
<1>. QED
  BY <1>3, <1>13, <1>14

\* What verify_quote finds has its words on the page, and if it is short they
\* are a cell's.
LEMMA FoundHasWords ==
    ASSUME NEW A, Bar \in A, MinLength \in Nat, NEW page,
           page.blocks \in Seq(ToSet(page.blocks)),
           \A b \in ToSet(page.blocks) : IsBlock(b, A),
           NEW q \in Seq(A), verify_quote(q, PlainText(page.blocks), page.blocks)
    PROVE  /\ WordsOf(q) # <<>>
           /\ IsIn(WordsOf(q), PageWords(page))
           /\ Len(CleanProse(q)) < MinLength => \E c \in Cells(page) : WordsOf(c) = WordsOf(q)
<1>. DEFINE clean == CleanProse(q)
            text == PlainText(page.blocks)
            X == {Bar, Markup}
<1>1. clean \in Seq(A) /\ WordsOf(clean) = WordsOf(q)
  BY CleanKeepsWords
<1>2. text \in Seq(A) /\ WordsOf(text) = PageWords(page)
  BY PlainTextKeepsWords
<1>3. quote_in_text(clean, OneBar(text), page.blocks)
  BY DEF verify_quote
<1>. HIDE DEF clean, text
<1>4. OneBar(text) \in Seq(A) /\ WordsOf(OneBar(text)) = WordsOf(text)
  BY <1>2, OneBarKeepsWords
<1>5. WordsOf(q) # <<>>
  <2>1. WordsOf(clean) # <<>>
    BY <1>1, <1>3, HasWordIs DEF quote_in_text
  <2>. QED
    BY <1>1, <2>1
<1>6. CASE Len(clean) >= MinLength
  <2>1. IsIn(clean, OneBar(text))
    BY <1>3, <1>6 DEF quote_in_text
  <2>. DEFINE one == OneBar(text)
  <2>. HIDE DEF one, X
  <2>2. IsIn(Dropping(clean, X), Dropping(one, X))
    <3>1. one \in Seq(A) /\ IsIn(clean, one)
      BY <1>4, <2>1 DEF one
    <3>. QED
      BY <1>1, <3>1, IsInDrops
  <2>3. IsIn(WordsOf(clean), WordsOf(OneBar(text)))
    BY <2>2 DEF WordsOf, one, X
  <2>4. ~(Len(clean) < MinLength)
    <3>1. Len(clean) \in Nat
      BY <1>1
    <3>. QED
      BY <1>6, <3>1
  <2>. QED
    BY <1>1, <1>2, <1>4, <1>5, <2>3, <2>4 DEF clean
<1>7. CASE ~(Len(clean) >= MinLength)
  <2>1. PICK b \in ToSet(page.blocks) : b.kind = "row" /\ clean \in ToSet(b.cells)
    BY <1>3, <1>7 DEF quote_in_text
  <2>2. IsIn(WordsOf(clean), PageWords(page))
    BY <2>1, CellIsIn
  <2>3. clean \in Cells(page)
    BY <2>1 DEF Cells
  <2>. QED
    BY <1>1, <1>5, <2>2, <2>3
<1>. QED
  BY <1>6, <1>7

-----------------------------------------------------------------------------
(* Bars.                                                                    *)

\* A text at whose end one more bar would go.
EndsInBar(x) == x # <<>> /\ x[Len(x)] = Bar

\* What _EMPTY_CELL_RUN leaves of y after x.
Rest(x, y) ==
    FlattenSeq([k \in DOMAIN y |->
        IF /\ y[k] = Bar
           /\ IF k = 1 THEN EndsInBar(x) ELSE y[k - 1] = Bar
        THEN <<>> ELSE <<y[k]>>])

\* Of a text and what follows it, the first part keeps its bars as if it were alone.
LEMMA OneBarConcat ==
    ASSUME NEW A, NEW x \in Seq(A), NEW y \in Seq(A)
    PROVE  OneBar(x) \in Seq(A) /\ Rest(x, y) \in Seq(A)
           /\ OneBar(x \o y) = OneBar(x) \o Rest(x, y)
<1>. DEFINE of(u) == [i \in DOMAIN u |->
                         IF i > 1 /\ u[i] = Bar /\ u[i - 1] = Bar THEN <<>> ELSE <<u[i]>>]
            rest == [k \in DOMAIN y |->
                         IF /\ y[k] = Bar
                            /\ IF k = 1 THEN EndsInBar(x) ELSE y[k - 1] = Bar
                         THEN <<>> ELSE <<y[k]>>]
            M == Len(x)
            N == Len(y)
            both == x \o y
            T == Seq(A)
<1>1. /\ M \in Nat /\ N \in Nat /\ both \in Seq(A) /\ Len(both) = M + N
      /\ DOMAIN x = 1..M /\ DOMAIN y = 1..N /\ DOMAIN both = 1..(M + N)
      /\ (\A i \in 1..M : both[i] = x[i]) /\ (\A i \in 1..N : both[M + i] = y[i])
  OBVIOUS
<1>2. ASSUME NEW u \in Seq(A) PROVE of(u) \in Seq(T) /\ Len(of(u)) = Len(u) /\ DOMAIN of(u) = 1..Len(u)
  <2>1. \A i \in DOMAIN u : <<u[i]>> \in T /\ <<>> \in T
    OBVIOUS
  <2>2. \A i \in DOMAIN u : of(u)[i] \in T
    BY <2>1
  <2>3. DOMAIN u = 1..Len(u) /\ Len(u) \in Nat
    OBVIOUS
  <2>. HIDE DEF T
  <2>. QED
    BY <2>2, <2>3
<1>3. rest \in Seq(T) /\ Len(rest) = N
  <2>1. \A i \in DOMAIN y : <<y[i]>> \in T /\ <<>> \in T
    OBVIOUS
  <2>2. \A i \in DOMAIN y : rest[i] \in T
    BY <2>1
  <2>. HIDE DEF T
  <2>. QED
    BY <1>1, <2>2
<1>4. ASSUME NEW i \in 1..M PROVE of(both)[i] = of(x)[i]
  <2>1. i > 1 => i - 1 \in 1..M
    BY <1>1
  <2>2. both[i] = x[i] /\ (i > 1 => both[i - 1] = x[i - 1])
    BY <1>1, <2>1
  <2>3. i \in DOMAIN both /\ i \in DOMAIN x
    BY <1>1
  <2>. HIDE DEF both
  <2>. QED
    BY <2>2, <2>3
<1>5. ASSUME NEW k \in 1..N PROVE of(both)[M + k] = rest[k]
  <2>1. both[M + k] = y[k] /\ M + k \in DOMAIN both /\ k \in DOMAIN y
    BY <1>1
  <2>2. CASE k = 1
    <3>1. CASE M = 0
      <4>1. ~(M + k > 1) /\ ~EndsInBar(x)
        BY <2>2, <3>1 DEF EndsInBar
      <4>. HIDE DEF both
      <4>. QED
        BY <2>1, <2>2, <4>1
    <3>2. CASE M # 0
      <4>1. M + k > 1 /\ (M + k) - 1 = M /\ M \in 1..M
        BY <1>1, <2>2, <3>2
      <4>2. both[M] = x[M] /\ x # <<>>
        BY <1>1, <3>2, <4>1
      <4>3. both[(M + k) - 1] = Bar <=> EndsInBar(x)
        BY <4>1, <4>2 DEF EndsInBar
      <4>. HIDE DEF both
      <4>. QED
        BY <2>1, <2>2, <4>1, <4>3
    <3>. QED
      BY <3>1, <3>2
  <2>3. CASE k # 1
    <3>1. k - 1 \in 1..N /\ (M + k) - 1 = M + (k - 1) /\ M + k > 1
      BY <1>1, <2>3
    <3>2. both[(M + k) - 1] = y[k - 1]
      BY <1>1, <3>1
    <3>. HIDE DEF both
    <3>. QED
      BY <2>1, <2>3, <3>1, <3>2
  <2>. QED
    BY <2>2, <2>3
<1>. DEFINE u == of(x)
            w == of(both)
<1>6. /\ u \in Seq(T) /\ w \in Seq(T) /\ Len(u) = M /\ Len(w) = M + N
      /\ (\A i \in 1..M : w[i] = u[i]) /\ (\A k \in 1..N : w[M + k] = rest[k])
  <2>. HIDE DEF of, both, rest, T
  <2>. QED
    BY <1>1, <1>2, <1>4, <1>5
<1>7. w = u \o rest
  <2>. DEFINE v == rest
  <2>4. /\ u \in Seq(T) /\ v \in Seq(T) /\ w \in Seq(T)
        /\ Len(w) = Len(u) + Len(v)
        /\ \A i \in 1..Len(u) : w[i] = u[i]
        /\ \A i \in 1..Len(v) : w[Len(u) + i] = v[i]
    <3>. HIDE DEF u, w, rest, M, N, T
    <3>. QED
      BY <1>3, <1>6
  <2>. HIDE DEF u, v, w, both
  <2>5. w = u \o v
    <3>1. u \o v \in Seq(T) /\ Len(u \o v) = Len(u) + Len(v)
          /\ Len(u) \in Nat /\ Len(v) \in Nat
      BY <2>4
    <3>2. ASSUME NEW i \in 1..Len(w) PROVE w[i] = (u \o v)[i]
      <4>1. CASE i <= Len(u)
        <5>1. (u \o v)[i] = u[i] /\ i \in 1..Len(u)
          BY <2>4, <3>1, <4>1
        <5>. QED
          BY <2>4, <5>1
      <4>2. CASE i > Len(u)
        <5>1. i - Len(u) \in 1..Len(v) /\ i = Len(u) + (i - Len(u))
          BY <2>4, <3>1, <4>2
        <5>2. (u \o v)[i] = v[i - Len(u)]
          BY <2>4, <3>1, <4>2
        <5>. QED
          BY <2>4, <5>1, <5>2
      <4>. QED
        BY <2>4, <4>1, <4>2, <3>1
    <3>. DEFINE all == u \o v
    <3>4. w \in Seq(T) /\ all \in Seq(T) /\ Len(w) = Len(all)
          /\ \A i \in 1..Len(w) : w[i] = all[i]
      BY <2>4, <3>1, <3>2
    <3>. HIDE DEF all, T
    <3>5. w = all
      BY <3>4, SMTT(30)
    <3>. QED
      BY <3>5 DEF all
  <2>. QED
    BY <2>5 DEF v
<1>8. FlattenSeq(w) = FlattenSeq(u) \o FlattenSeq(rest)
      /\ FlattenSeq(u) \in Seq(A) /\ FlattenSeq(rest) \in Seq(A)
  <2>1. u \in Seq(Seq(A)) /\ rest \in Seq(Seq(A))
    BY <1>3, <1>6
  <2>. HIDE DEF u, w, rest, T
  <2>. QED
    BY <1>7, <2>1, FlattenConcat, FlattenTypes
<1>. QED
  BY <1>8 DEF OneBar, Rest

\* Words stay...
LEMMA RestBarless ==
    ASSUME NEW A, NEW x, NEW y \in Seq(A), Bar \notin ToSet(y)
    PROVE  Rest(x, y) = y
<1>1. \A k \in DOMAIN y : y[k] # Bar
  BY DEF ToSet
<1>2. [k \in DOMAIN y |->
          IF /\ y[k] = Bar
             /\ IF k = 1 THEN EndsInBar(x) ELSE y[k - 1] = Bar
          THEN <<>> ELSE <<y[k]>>] = [k \in DOMAIN y |-> <<y[k]>>]
  BY <1>1
<1>. QED
  BY <1>2, FlattenSingles DEF Rest

\* ... and a bar stays unless it is after another.
LEMMA RestBar ==
    ASSUME NEW x
    PROVE  /\ EndsInBar(x) => Rest(x, <<Bar>>) = <<>>
           /\ ~EndsInBar(x) => Rest(x, <<Bar>>) = <<Bar>>
<1>. DEFINE p == IF EndsInBar(x) THEN <<>> ELSE <<Bar>>
<1>1. [k \in DOMAIN <<Bar>> |->
          IF /\ <<Bar>>[k] = Bar
             /\ IF k = 1 THEN EndsInBar(x) ELSE <<Bar>>[k - 1] = Bar
          THEN <<>> ELSE <<(<<Bar>>[k])>>] = <<p>>
  OBVIOUS
<1>2. p \in Seq({Bar})
  <2>1. <<Bar>> \in Seq({Bar}) /\ <<>> \in Seq({Bar})
    OBVIOUS
  <2>. QED
    BY <2>1
<1>3. FlattenSeq(<<p>>) = p
  BY <1>2, FlattenOne
<1>. QED
  BY <1>1, <1>3 DEF Rest

\* One cell more is a bar and the cell.
LEMMA JoinedGrows ==
    ASSUME NEW A, Bar \in A, NEW s \in Seq(Seq(A)), NEW c \in Seq(A)
    PROVE  /\ Joined(s) \in Seq(A) /\ Joined(<<>>) = <<>>
           /\ s = <<>> => Joined(s \o <<c>>) = c
           /\ s # <<>> => Joined(s \o <<c>>) = Joined(s) \o (<<Bar>> \o c)
<1>. DEFINE T == Seq(A)
            of(u) == [i \in DOMAIN u |-> IF i > 1 THEN <<Bar>> \o u[i] ELSE u[i]]
            more == s \o <<c>>
            last == IF s = <<>> THEN c ELSE <<Bar>> \o c
            N == Len(s)
<1>1. Joined(s) \in Seq(A)
  BY JoinedKeepsWords
<1>2. Joined(<<>>) = <<>>
  <2>1. of(<<>>) = <<>>
    OBVIOUS
  <2>2. FlattenSeq(<<>>) = <<>>
    BY FlattenOne
  <2>. QED
    BY <2>1, <2>2 DEF Joined
<1>3. /\ N \in Nat /\ DOMAIN s = 1..N /\ <<c>> \in Seq(T) /\ more \in Seq(T) /\ Len(more) = N + 1
      /\ (\A i \in 1..N : more[i] = s[i]) /\ more[N + 1] = c /\ (s = <<>> <=> N = 0)
  <2>1. c \in T /\ s \in Seq(T)
    OBVIOUS
  <2>. HIDE DEF T
  <2>. QED
    BY <2>1
<1>4. \A x \in T : <<Bar>> \o x \in T
  <2>1. <<Bar>> \in T
    OBVIOUS
  <2>. QED
    BY <2>1
<1>5. last \in T
  BY <1>4
<1>6. of(s) \in Seq(T) /\ Len(of(s)) = N /\ DOMAIN of(s) = 1..N
  <2>1. \A i \in 1..N : s[i] \in T
    BY <1>3
  <2>2. \A i \in 1..N : of(s)[i] \in T
    BY <1>3, <1>4, <2>1
  <2>. DEFINE ofs == of(s)
  <2>3. ofs = [i \in 1..N |-> ofs[i]]
    BY <1>3
  <2>4. N \in Nat /\ \A i \in 1..N : ofs[i] \in T
    BY <1>3, <2>2
  <2>. HIDE DEF T, ofs, N
  <2>5. ofs \in Seq(T) /\ Len(ofs) = N /\ DOMAIN ofs = 1..N
    <3>1. ofs \in [1..N -> T]
      BY <2>3, <2>4
    <3>. QED
      BY <2>4, <3>1, OfLength
  <2>. QED
    BY <2>5 DEF ofs
<1>7. /\ DOMAIN of(more) = 1..(N + 1)
      /\ (\A i \in 1..N : of(more)[i] = of(s)[i]) /\ of(more)[N + 1] = last
  <2>1. DOMAIN more = 1..(N + 1)
    <3>. HIDE DEF more, T
    <3>. QED
      BY <1>3
  <2>2. \A i \in 1..N : of(more)[i] = of(s)[i]
    <3>. HIDE DEF more
    <3>. QED
      BY <1>3, <2>1
  <2>3. of(more)[N + 1] = IF N + 1 > 1 THEN <<Bar>> \o c ELSE c
    <3>. HIDE DEF more
    <3>. QED
      BY <1>3, <2>1
  <2>4. (N + 1 > 1) <=> s # <<>>
    BY <1>3
  <2>. QED
    BY <2>1, <2>2, <2>3, <2>4
<1>. DEFINE p == of(s)
            q == of(more)
            r == p \o <<last>>
<1>8. q = r
  <2>1. p \in Seq(T) /\ Len(p) = N /\ last \in T /\ N \in Nat
    BY <1>3, <1>5, <1>6
  <2>2. q = [i \in 1..(N + 1) |-> q[i]] /\ (\A i \in 1..N : q[i] = p[i]) /\ q[N + 1] = last
    BY <1>7
  <2>. HIDE DEF p, q, T, last, N
  <2>3. r = [i \in 1..(N + 1) |-> r[i]] /\ (\A i \in 1..N : r[i] = p[i]) /\ r[N + 1] = last
    BY <2>1, OneMore
  <2>4. \A i \in 1..(N + 1) : i \in 1..N \/ i = N + 1
    BY <2>1
  <2>. HIDE DEF r
  <2>5. \A i \in 1..(N + 1) : q[i] = r[i]
    BY <2>2, <2>3, <2>4
  <2>. QED
    BY <2>2, <2>3, <2>5
<1>9. FlattenSeq(r) = FlattenSeq(p) \o last
  <2>1. p \in Seq(Seq(A)) /\ <<last>> \in Seq(Seq(A)) /\ last \in Seq(A)
    BY <1>5, <1>6
  <2>. HIDE DEF p, last
  <2>2. FlattenSeq(p \o <<last>>) = FlattenSeq(p) \o FlattenSeq(<<last>>)
    BY <2>1, FlattenConcat
  <2>3. FlattenSeq(<<last>>) = last
    BY <2>1, FlattenOne
  <2>. QED
    BY <2>2, <2>3
<1>10. Joined(more) = Joined(s) \o last
  BY <1>8, <1>9 DEF Joined
<1>11. s = <<>> => Joined(s) \o last = c
  BY <1>2
<1>. QED
  BY <1>1, <1>2, <1>10, <1>11

-----------------------------------------------------------------------------
(* What GeekAPI has of a block is in what is left of its bars.              *)

\* e is in x, but for bars, and if something came of it only a bar is after it.
Tidy(A, x, e, some) ==
    \E p, t \in Seq(A) :
        /\ OneBar(x) = (p \o e) \o t
        /\ some => \/ t = <<>> /\ ~EndsInBar(x)
                   \/ t = <<Bar>> /\ EndsInBar(x)

\* A text ends as what is added to it.
LEMMA EndsAsIts ==
    ASSUME NEW A, NEW x \in Seq(A), NEW y \in Seq(A), y # <<>>
    PROVE  EndsInBar(x \o y) <=> EndsInBar(y)
<1>. DEFINE z == x \o y
<1>1. /\ Len(x) \in Nat /\ Len(y) \in Nat /\ Len(y) # 0 /\ Len(z) = Len(x) + Len(y)
      /\ Len(y) \in 1..Len(y) /\ \A k \in 1..Len(y) : z[Len(x) + k] = y[k]
  OBVIOUS
<1>2. z # <<>> /\ z[Len(z)] = y[Len(y)]
  <2>. HIDE DEF z
  <2>1. z = <<>> => Len(z) = 0
    OBVIOUS
  <2>. QED
    BY <1>1, <2>1
<1>. QED
  BY <1>2 DEF EndsInBar

\* A text without a bar does not end in one.
LEMMA BarlessEnds ==
    ASSUME NEW A, NEW c \in Seq(A), Bar \notin ToSet(c)
    PROVE  ~EndsInBar(c)
<1>1. c # <<>> => Len(c) \in DOMAIN c
  OBVIOUS
<1>. QED
  BY <1>1 DEF EndsInBar, ToSet

\* The first cell.
LEMMA FirstCell ==
    ASSUME NEW A, NEW a \in Seq(A), NEW c \in Seq(A), Bar \notin ToSet(c)
    PROVE  Tidy(A, a \o c, c, c # <<>>)
<1>1. OneBar(a \o c) = OneBar(a) \o c /\ OneBar(a) \in Seq(A)
  <2>1. Rest(a, c) = c
    BY RestBarless
  <2>2. OneBar(a) \in Seq(A) /\ OneBar(a \o c) = OneBar(a) \o Rest(a, c)
    BY OneBarConcat
  <2>. QED
    BY <2>1, <2>2
<1>. DEFINE p == OneBar(a)
<1>2. p \in Seq(A) /\ OneBar(a \o c) = p \o c
  BY <1>1
<1>. HIDE DEF p
<1>3. p \o c = (p \o c) \o <<>> /\ <<>> \in Seq(A)
  BY <1>2
<1>4. c # <<>> => ~EndsInBar(a \o c)
  BY EndsAsIts, BarlessEnds
<1>. QED
  BY <1>2, <1>3, <1>4 DEF Tidy

\* One cell more.
LEMMA NextCell ==
    ASSUME NEW A, Bar \in A, NEW x \in Seq(A), NEW e \in Seq(A), NEW c \in Seq(A),
           Bar \notin ToSet(c), NEW some \in BOOLEAN, Tidy(A, x, e, some), ~some => e = <<>>
    PROVE  /\ c = <<>> => Tidy(A, x \o (<<Bar>> \o c), e, some)
           /\ c # <<>> /\ some => Tidy(A, x \o (<<Bar>> \o c), e \o (<<Bar>> \o c), TRUE)
           /\ c # <<>> /\ ~some => Tidy(A, x \o (<<Bar>> \o c), c, TRUE)
<1>. DEFINE bar == <<Bar>>
            z == x \o bar
            y == x \o (bar \o c)
<1>1. bar \in Seq(A) /\ bar # <<>> /\ bar[Len(bar)] = Bar /\ z \in Seq(A) /\ bar \o c \in Seq(A)
  OBVIOUS
<1>2. y = z \o c
  OBVIOUS
<1>. HIDE DEF z
<1>3. OneBar(z) \in Seq(A) /\ OneBar(x) \in Seq(A)
  BY <1>1, OneBarConcat
<1>4. OneBar(z) = OneBar(x) \o Rest(x, bar)
  <2>1. OneBar(x \o bar) = OneBar(x) \o Rest(x, bar)
    <3>. HIDE DEF bar
    <3>. QED
      BY <1>1, OneBarConcat
  <2>. QED
    BY <2>1 DEF z
<1>5. OneBar(y) = OneBar(z) \o c
  <2>1. Rest(z, c) = c
    BY <1>1, RestBarless
  <2>2. OneBar(z \o c) = OneBar(z) \o Rest(z, c)
    BY <1>1, OneBarConcat
  <2>. QED
    BY <1>2, <2>1, <2>2
<1>6. EndsInBar(z)
  <2>1. EndsInBar(bar)
    BY <1>1 DEF EndsInBar
  <2>. HIDE DEF bar
  <2>2. EndsInBar(x \o bar) <=> EndsInBar(bar)
    BY <1>1, EndsAsIts
  <2>. QED
    BY <2>1, <2>2 DEF z
<1>7. c # <<>> => ~EndsInBar(y)
  <2>1. c # <<>> => (EndsInBar(z \o c) <=> EndsInBar(c))
    BY <1>1, EndsAsIts
  <2>2. ~EndsInBar(c)
    BY BarlessEnds
  <2>. QED
    BY <1>2, <2>1, <2>2
<1>8. c = <<>> => y = z
  BY <1>1, <1>2
<1>. HIDE DEF y, bar
<1>9. \A q \in Seq(A) : q \o <<>> = q /\ <<>> \o q = q
  OBVIOUS
<1>10. CASE ~some
  <2>. DEFINE p == OneBar(z)
  <2>1. p \in Seq(A) /\ <<>> \in Seq(A) /\ p \o c \in Seq(A)
    BY <1>3
  <2>2. c = <<>> => Tidy(A, y, e, some)
    <3>1. c = <<>> => OneBar(y) = (p \o e) \o <<>>
      BY <1>8, <1>9, <1>10, <2>1
    <3>. HIDE DEF p
    <3>. QED
      BY <1>10, <2>1, <3>1 DEF Tidy
  <2>3. c # <<>> => Tidy(A, y, c, TRUE)
    <3>1. OneBar(y) = (p \o c) \o <<>>
      BY <1>5, <1>9, <2>1
    <3>. HIDE DEF p
    <3>. QED
      BY <1>7, <2>1, <3>1 DEF Tidy
  <2>. QED
    BY <1>10, <2>2, <2>3 DEF y, bar
<1>11. CASE some
  <2>1. PICK p \in Seq(A), t \in Seq(A) :
           /\ OneBar(x) = (p \o e) \o t
           /\ \/ t = <<>> /\ ~EndsInBar(x)
              \/ t = <<Bar>> /\ EndsInBar(x)
    BY <1>11 DEF Tidy
  <2>. DEFINE pe == p \o e
  <2>2. pe \in Seq(A)
    OBVIOUS
  <2>3. OneBar(z) = pe \o bar
    <3>1. CASE t = <<>> /\ ~EndsInBar(x)
      <4>1. Rest(x, bar) = bar
        BY <3>1, RestBar DEF bar
      <4>. HIDE DEF pe
      <4>2. pe \o <<>> = pe
        BY <2>2
      <4>. QED
        BY <1>4, <2>1, <3>1, <4>1, <4>2 DEF pe
    <3>2. CASE t = <<Bar>> /\ EndsInBar(x)
      <4>1. Rest(x, bar) = <<>>
        BY <3>2, RestBar DEF bar
      <4>. HIDE DEF pe
      <4>2. pe \o bar \in Seq(A)
        BY <1>1, <2>2
      <4>3. (pe \o bar) \o <<>> = pe \o bar
        BY <1>9, <4>2
      <4>4. OneBar(x) = pe \o bar
        BY <2>1, <3>2 DEF pe, bar
      <4>. QED
        BY <1>4, <4>1, <4>3, <4>4
    <3>. QED
      BY <2>1, <3>1, <3>2
  <2>4. c = <<>> => Tidy(A, y, e, some)
    <3>1. OneBar(z) = (p \o e) \o bar /\ bar = <<Bar>>
      BY <2>3 DEF bar
    <3>2. Tidy(A, z, e, some)
      BY <1>1, <1>6, <3>1 DEF Tidy
    <3>. QED
      BY <1>8, <3>2
  <2>5. c # <<>> => Tidy(A, y, e \o (bar \o c), TRUE)
    <3>. DEFINE bc == bar \o c
                ebc == e \o bc
    <3>1. bc \in Seq(A) /\ ebc \in Seq(A) /\ <<>> \in Seq(A)
      BY <1>1
    <3>2. (pe \o bar) \o c = pe \o bc
      <4>. HIDE DEF pe
      <4>. QED
        BY <1>1, <2>2, SMTT(30)
    <3>3. pe \o bc = p \o ebc
      <4>. HIDE DEF bc
      <4>. QED
        BY <3>1
    <3>. DEFINE pebc == p \o ebc
    <3>4. pebc \in Seq(A)
      <4>. HIDE DEF ebc
      <4>. QED
        BY <3>1
    <3>5. OneBar(y) = (p \o ebc) \o <<>>
      <4>1. OneBar(y) = pebc
        BY <1>5, <2>3, <3>2, <3>3
      <4>. HIDE DEF pebc, ebc
      <4>2. pebc \o <<>> = pebc
        BY <1>9, <3>4
      <4>. QED
        BY <4>1, <4>2 DEF pebc
    <3>. HIDE DEF ebc
    <3>6. c # <<>> => Tidy(A, y, ebc, TRUE)
      BY <1>7, <3>1, <3>5 DEF Tidy
    <3>. QED
      BY <3>6 DEF ebc
  <2>. QED
    BY <1>11, <2>4, <2>5 DEF y, bar
<1>. QED
  BY <1>10, <1>11

\* The cells that GeekAPI keeps, and what a quote of them is compared as.
Full(cells) == Dropping(cells, {<<>>})
Elsewhere(cells) == CleanProse(Joined(Full(cells)))

\* GeekAPI's text grows by a cell that is not empty.
LEMMA ElsewhereGrows ==
    ASSUME NEW A, Bar \in A, Bar # Markup, NEW s \in Seq(Seq(A)), NEW cell \in Seq(A)
    PROVE  /\ Full(s) \in Seq(Seq(A)) /\ Elsewhere(s) \in Seq(A)
           /\ Full(s) = <<>> => Elsewhere(s) = <<>>
           /\ cell = <<>> => Full(s \o <<cell>>) = Full(s) /\ Elsewhere(s \o <<cell>>) = Elsewhere(s)
           /\ cell # <<>> => Full(s \o <<cell>>) # <<>>
           /\ cell # <<>> /\ Full(s) = <<>> => Elsewhere(s \o <<cell>>) = CleanProse(cell)
           /\ cell # <<>> /\ Full(s) # <<>> =>
                 Elsewhere(s \o <<cell>>) = Elsewhere(s) \o (<<Bar>> \o CleanProse(cell))
<1>. DEFINE f == Dropping(s, {<<>>})
            g == Dropping(s \o <<cell>>, {<<>>})
<1>0. f = Dropping(s, {<<>>}) /\ g = Dropping(s \o <<cell>>, {<<>>})
  OBVIOUS
<1>. HIDE DEF f, g
<1>. DEFINE T == Seq(A)
            one == <<cell>>
<1>1. s \in Seq(T) /\ one \in Seq(T) /\ cell \in T
  OBVIOUS
<1>2. f \in Seq(T) /\ g = f \o Dropping(one, {<<>>})
  <2>. HIDE DEF T, one
  <2>1. Dropping(s, {<<>>}) \in Seq(T)
    BY <1>1, DroppingPieces
  <2>2. \A p, q \in Seq(T) : Dropping(p \o q, {<<>>}) = Dropping(p, {<<>>}) \o Dropping(q, {<<>>})
    BY DroppingConcat
  <2>3. Dropping(s \o one, {<<>>}) = Dropping(s, {<<>>}) \o Dropping(one, {<<>>})
    BY <1>1, <2>2
  <2>. QED
    BY <1>0, <2>1, <2>3 DEF one
<1>3. /\ cell = <<>> => Dropping(one, {<<>>}) = <<>>
      /\ cell # <<>> => Dropping(one, {<<>>}) = one
  BY DroppingOne
<1>4. f \o <<>> = f /\ (f = <<>> => f \o one = one) /\ f \o one # <<>> /\ one # <<>>
  <2>1. f \in Seq(T) /\ one \in Seq(T) /\ Len(one) = 1
    BY <1>1, <1>2
  <2>. HIDE DEF T
  <2>2. one # <<>>
    OBVIOUS
  <2>. HIDE DEF one
  <2>0. \A p, q \in Seq(T) :
           /\ p \o <<>> = p /\ <<>> \o q = q /\ Len(p) \in Nat /\ Len(p \o q) = Len(p) + Len(q)
    OBVIOUS
  <2>3. f \o <<>> = f /\ (f = <<>> => f \o one = one)
    BY <2>0, <2>1
  <2>4. Len(f \o one) = Len(f) + 1 /\ Len(f) \in Nat
    BY <2>0, <2>1
  <2>5. f \o one # <<>>
    <3>1. f \o one = <<>> => Len(f \o one) = 0
      OBVIOUS
    <3>. QED
      BY <2>4, <3>1
  <2>. QED
    BY <2>2, <2>3, <2>5
<1>5. Joined(f) \in Seq(A) /\ CleanProse(Joined(f)) \in Seq(A)
  <2>1. Joined(f) \in Seq(A)
    BY <1>2, JoinedGrows
  <2>. QED
    BY <2>1, DroppingPieces DEF CleanProse
<1>6. f = <<>> => CleanProse(Joined(f)) = <<>>
  <2>1. Joined(<<>>) = <<>>
    BY <1>2, JoinedGrows
  <2>. QED
    BY <2>1, DroppingOne DEF CleanProse
<1>7. cell = <<>> => g = f
  BY <1>2, <1>3, <1>4
<1>8. cell # <<>> => g # <<>>
  BY <1>2, <1>3, <1>4
<1>9. cell # <<>> /\ f = <<>> => CleanProse(Joined(g)) = CleanProse(cell)
  <2>1. f = <<>> => Joined(f \o one) = cell
    BY <1>2, JoinedGrows
  <2>. QED
    BY <1>2, <1>3, <2>1
<1>10. cell # <<>> /\ f # <<>> =>
          CleanProse(Joined(g)) = CleanProse(Joined(f)) \o (<<Bar>> \o CleanProse(cell))
  <2>1. f # <<>> => Joined(f \o one) = Joined(f) \o (<<Bar>> \o cell)
    BY <1>2, JoinedGrows
  <2>. DEFINE X == {Markup}
              x == Joined(f)
              bar == <<Bar>>
  <2>2. x \in Seq(A) /\ bar \in Seq(A) /\ cell \in Seq(A) /\ bar \o cell \in Seq(A)
    BY <1>5
  <2>3. Dropping(bar, X) = bar
    BY DroppingOne
  <2>. HIDE DEF x, bar, X
  <2>6. \A p, q \in Seq(A) : Dropping(p \o q, X) = Dropping(p, X) \o Dropping(q, X)
    BY DroppingConcat
  <2>4. Dropping(bar \o cell, X) = Dropping(bar, X) \o Dropping(cell, X)
    BY <2>2, <2>6
  <2>5. Dropping(x \o (bar \o cell), X) = Dropping(x, X) \o Dropping(bar \o cell, X)
    BY <2>2, <2>6
  <2>. QED
    BY <1>2, <1>3, <2>1, <2>3, <2>4, <2>5 DEF CleanProse, x, bar, X
<1>. QED
  BY <1>2, <1>5, <1>6, <1>7, <1>8, <1>9, <1>10 DEF f, g, Full, Elsewhere

\* What GeekAPI has of a block, cleaned, is in the block's own text.
LEMMA OwnText ==
    ASSUME NEW A, Bar \in A, Bar # Markup, NEW a \in Seq(A), NEW cells \in Seq(Seq(A)),
           NEW cl, cl = [i \in DOMAIN cells |-> CleanProse(cells[i])],
           \A c \in ToSet(cells) : c # <<>> => CleanProse(c) # <<>>,
           \A c \in ToSet(cells) : Bar \notin ToSet(c)
    PROVE  \E some \in BOOLEAN :
              Tidy(A, a \o Joined(cl), Elsewhere(cells), some)
<1>. DEFINE T == Seq(A)
            N == Len(cells)
            full(n) == Full(Before(cells, n + 1))
            e(n) == Elsewhere(Before(cells, n + 1))
            x(n) == a \o Joined(Before(cl, n + 1))
            good == {n \in 0..N : Tidy(A, x(n), e(n), full(n) # <<>>)}
<1>1. /\ N \in Nat /\ DOMAIN cells = 1..N /\ cells \in Seq(T)
      /\ \A i \in 1..N : cells[i] \in T /\ cells[i] \in ToSet(cells)
  BY DEF ToSet
<1>2. ASSUME NEW c \in T PROVE /\ CleanProse(c) \in T
                               /\ ToSet(CleanProse(c)) \subseteq ToSet(c)
                               /\ CleanProse(<<>>) = <<>>
  <2>1. c \in Seq(ToSet(c)) /\ c \in Seq(A)
    BY DEF ToSet
  <2>2. Dropping(c, {Markup}) \in Seq(ToSet(c)) /\ Dropping(c, {Markup}) \in Seq(A)
    BY <2>1, DroppingPieces
  <2>3. Dropping(<<>>, {Markup}) = <<>>
    BY DroppingOne
  <2>. DEFINE d == Dropping(c, {Markup})
              S == ToSet(c)
  <2>4. ToSet(d) \subseteq S
    <3>1. d \in Seq(S)
      BY <2>2
    <3>. HIDE DEF d, S
    <3>. QED
      BY <3>1 DEF ToSet
  <2>. QED
    BY <2>2, <2>3, <2>4 DEF CleanProse
<1>3. cl \in Seq(T) /\ Len(cl) = N /\ \A i \in 1..N : cl[i] = CleanProse(cells[i]) /\ cl[i] \in T
  <2>1. \A i \in 1..N : cl[i] = CleanProse(cells[i]) /\ cl[i] \in T
    BY <1>1, <1>2
  <2>2. cl \in [1..N -> T]
    <3>. HIDE DEF T
    <3>. QED
      BY <1>1, <2>1
  <2>. HIDE DEF T
  <2>. QED
    BY <1>1, <2>1, <2>2, OfLength
<1>4. ASSUME NEW i \in 1..N PROVE /\ Bar \notin ToSet(cl[i])
                                  /\ cells[i] = <<>> <=> cl[i] = <<>>
  BY <1>1, <1>2, <1>3
<1>0. \A s \in Seq(T) :
          /\ Before(s, 1) = <<>> /\ Before(s, Len(s) + 1) = s
          /\ \A n \in 1..Len(s) : /\ Before(s, n) \in Seq(T) /\ Len(Before(s, n)) = n - 1
                                  /\ Before(s, n + 1) = Before(s, n) \o <<s[n]>>
  BY BeforeGrows
<1>00. \A s \in Seq(Seq(A)), c \in Seq(A) :
          /\ Joined(s) \in Seq(A) /\ Joined(<<>>) = <<>>
          /\ s = <<>> => Joined(s \o <<c>>) = c
          /\ s # <<>> => Joined(s \o <<c>>) = Joined(s) \o (<<Bar>> \o c)
  BY JoinedGrows
<1>5. /\ Before(cells, 1) = <<>> /\ Before(cells, N + 1) = cells
      /\ Before(cl, 1) = <<>> /\ Before(cl, N + 1) = cl
  <2>. HIDE DEF T
  <2>. QED
    BY <1>0, <1>1, <1>3
<1>6. ASSUME NEW n \in 1..N
      PROVE  /\ Before(cells, n) \in Seq(T) /\ Before(cells, n + 1) = Before(cells, n) \o <<cells[n]>>
             /\ Before(cl, n) \in Seq(T) /\ Before(cl, n + 1) = Before(cl, n) \o <<cl[n]>>
             /\ Len(Before(cl, n)) = n - 1
  <2>. HIDE DEF T
  <2>. QED
    BY <1>0, <1>1, <1>3, ZenonT(40)
<1>7. 0 \in good
  <2>1. Tidy(A, a \o <<>>, <<>>, <<>> # <<>>)
    <3>1. <<>> \in Seq(A) /\ Bar \notin ToSet(<<>>)
      BY DEF ToSet
    <3>. QED
      BY <3>1, FirstCell
  <2>2. 0 + 1 = 1 /\ 0 \in 0..N
    BY <1>1
  <2>3. Joined(<<>>) = <<>>
    BY <1>3, JoinedGrows
  <2>4. Full(<<>>) = <<>> /\ Elsewhere(<<>>) = <<>>
    BY <2>3, DroppingOne DEF Full, Elsewhere, CleanProse
  <2>. QED
    BY <1>5, <2>1, <2>2, <2>3, <2>4
<1>8. ASSUME NEW n \in 0..N, n # N, n \in good PROVE n + 1 \in good
  <2>. DEFINE m == n + 1
              s == Before(cells, m)
              d == Before(cl, m)
              c == cl[m]
              f == full(n)
              g == full(m)
              more == Before(cl, m + 1)
  <2>1. m \in 1..N /\ m + 1 = (n + 1) + 1 /\ m \in 0..N
    <3>1. n \in 0..N /\ n # N /\ N \in Nat
      BY <1>1, <1>8
    <3>. HIDE DEF N
    <3>. QED
      BY <3>1
  <2>2. /\ s \in Seq(Seq(A)) /\ Before(cells, m + 1) = s \o <<cells[m]>> /\ cells[m] \in Seq(A)
        /\ d \in Seq(Seq(A)) /\ more = d \o <<c>> /\ c \in Seq(A) /\ Len(d) = m - 1
    BY <1>1, <1>3, <1>6, <2>1
  <2>3. Bar \notin ToSet(c) /\ (cells[m] = <<>> <=> c = <<>>) /\ c = CleanProse(cells[m])
    BY <1>3, <1>4, <2>1
  <2>4. Tidy(A, a \o Joined(d), e(n), f # <<>>)
    BY <1>8
  <2>5. /\ f \in Seq(Seq(A)) /\ e(n) \in Seq(A)
        /\ f = <<>> => e(n) = <<>>
        /\ cells[m] = <<>> => g = f /\ e(m) = e(n)
        /\ cells[m] # <<>> => g # <<>>
        /\ cells[m] # <<>> /\ f = <<>> => e(m) = c
        /\ cells[m] # <<>> /\ f # <<>> => e(m) = e(n) \o (<<Bar>> \o c)
    <3>. DEFINE cell == cells[m]
    <3>1. cell \in Seq(A) /\ s \in Seq(Seq(A))
      BY <2>2
    <3>2. /\ f = Full(s) /\ e(n) = Elsewhere(s)
          /\ g = Full(s \o <<cell>>) /\ e(m) = Elsewhere(s \o <<cell>>)
      BY <2>2
    <3>3. \A u \in Seq(Seq(A)), w \in Seq(A) :
             /\ Full(u) \in Seq(Seq(A)) /\ Elsewhere(u) \in Seq(A)
             /\ Full(u) = <<>> => Elsewhere(u) = <<>>
             /\ w = <<>> => Full(u \o <<w>>) = Full(u) /\ Elsewhere(u \o <<w>>) = Elsewhere(u)
             /\ w # <<>> => Full(u \o <<w>>) # <<>>
             /\ w # <<>> /\ Full(u) = <<>> => Elsewhere(u \o <<w>>) = CleanProse(w)
             /\ w # <<>> /\ Full(u) # <<>> =>
                   Elsewhere(u \o <<w>>) = Elsewhere(u) \o (<<Bar>> \o CleanProse(w))
      BY ElsewhereGrows
    <3>. HIDE DEF f, g, s, e, cell
    <3>5. c = CleanProse(cell)
      BY <2>3 DEF cell
    <3>. HIDE DEF c
    <3>. QED
      BY <3>1, <3>2, <3>3, <3>5, ZenonT(40) DEF cell
  <2>6. Tidy(A, a \o Joined(more), e(m), g # <<>>)
    <3>. DEFINE some == f # <<>>
                y == a \o Joined(d)
                en == e(n)
                em == e(m)
    <3>0. /\ Joined(d) \in Seq(A)
          /\ d = <<>> => Joined(d \o <<c>>) = c
          /\ d # <<>> => Joined(d \o <<c>>) = Joined(d) \o (<<Bar>> \o c)
      <4>1. d \in Seq(Seq(A)) /\ c \in Seq(A)
        BY <2>2
      <4>. HIDE DEF d, c
      <4>. QED
        BY <1>00, <4>1
    <3>1. Joined(d) \in Seq(A) /\ y \in Seq(A)
      BY <3>0
    <3>2. CASE n = 0
      <4>1. d = <<>> /\ f = <<>>
        <5>1. m = 1
          BY <3>2
        <5>2. f = Full(<<>>)
          BY <1>5, <3>2
        <5>. QED
          BY <1>5, <5>1, <5>2, DroppingOne DEF Full
      <4>2. Joined(more) = c
        BY <2>2, <3>0, <4>1
      <4>3. Tidy(A, a \o c, c, c # <<>>)
        BY <2>2, <2>3, FirstCell
      <4>4. c = <<>> => em = c
        BY <2>3, <2>5, <4>1
      <4>5. c # <<>> => em = c
        BY <2>3, <2>5, <4>1
      <4>6. g # <<>> <=> c # <<>>
        BY <2>3, <2>5, <4>1
      <4>. HIDE DEF em, g, c
      <4>7. em = c /\ (g # <<>>) = (c # <<>>)
        BY <4>4, <4>5, <4>6
      <4>. QED
        BY <4>2, <4>3, <4>7 DEF em
    <3>3. CASE n # 0
      <4>1. d # <<>>
        BY <2>2, <3>3
      <4>2. Joined(more) = Joined(d) \o (<<Bar>> \o c)
        BY <2>2, <3>0, <4>1
      <4>3. a \o Joined(more) = y \o (<<Bar>> \o c)
        <5>. DEFINE j == Joined(d)
                    bc == <<Bar>> \o c
        <5>1. j \in Seq(A) /\ bc \in Seq(A)
          BY <2>2, <3>1
        <5>. HIDE DEF j, bc
        <5>2. a \o (j \o bc) = (a \o j) \o bc
          BY <5>1
        <5>. QED
          BY <4>2, <5>2 DEF j, bc
      <4>4. some \in BOOLEAN /\ en \in Seq(A) /\ Tidy(A, y, en, some) /\ (~some => en = <<>>)
        BY <2>4, <2>5
      <4>. HIDE DEF some, y, en, em, c, g, f, more
      <4>5. /\ c = <<>> => Tidy(A, y \o (<<Bar>> \o c), en, some)
            /\ c # <<>> /\ some => Tidy(A, y \o (<<Bar>> \o c), en \o (<<Bar>> \o c), TRUE)
            /\ c # <<>> /\ ~some => Tidy(A, y \o (<<Bar>> \o c), c, TRUE)
        BY <2>2, <2>3, <3>1, <4>4, NextCell, ZenonT(40)
      <4>6. c = <<>> => em = en /\ (g # <<>>) = some
        BY <2>3, <2>5 DEF em, en, some, g, f
      <4>7. c # <<>> => (g # <<>>) = TRUE /\ (some => em = en \o (<<Bar>> \o c)) /\ (~some => em = c)
        BY <2>3, <2>5 DEF em, en, some
      <4>8. c = <<>> => Tidy(A, a \o Joined(more), em, g # <<>>)
        BY <4>3, <4>5, <4>6
      <4>9. c # <<>> => Tidy(A, a \o Joined(more), em, g # <<>>)
        BY <4>3, <4>5, <4>7, <4>4
      <4>. QED
        BY <4>8, <4>9 DEF em
    <3>. QED
      BY <3>2, <3>3
  <2>7. x(m) = a \o Joined(more)
    OBVIOUS
  <2>. QED
    BY <2>1, <2>6, <2>7
<1>9. N \in good
  <2>. DEFINE K == N
  <2>1. K \in Nat /\ 0 \in good /\ \A n \in 0..K : n # K /\ n \in good => n + 1 \in good
    BY <1>1, <1>7, <1>8
  <2>. HIDE DEF good, K
  <2>2. 0..K \subseteq good
    BY <2>1, Upto
  <2>3. K \in 0..K
    BY <2>1
  <2>. QED
    BY <2>2, <2>3 DEF K
<1>10. Tidy(A, x(N), e(N), full(N) # <<>>)
  BY <1>9
<1>11. e(N) = Elsewhere(cells) /\ x(N) = a \o Joined(cl)
  BY <1>5
<1>. QED
  BY <1>10, <1>11

\* A block's text is its cleaned cells between bars, code's too if it has
\* nothing to clean.
LEMMA RenderIs ==
    ASSUME NEW A, Bar \in A, NEW block, IsBlock(block, A), Comparable(block)
    PROVE  Render(block) = Joined([i \in DOMAIN block.cells |-> CleanProse(block.cells[i])])
<1>. DEFINE cells == block.cells
            cl == [i \in DOMAIN cells |-> CleanProse(cells[i])]
<1>1. CASE block.kind # "code"
  BY <1>1 DEF Render
<1>2. CASE block.kind = "code"
  <2>1. cells \in Seq(Seq(A)) /\ Len(cells) = 1 /\ Markup \notin ToSet(cells[1])
    BY <1>2 DEF IsBlock, Comparable
  <2>. DEFINE c == cells[1]
  <2>2. c \in Seq(A) /\ DOMAIN cells = 1..1
    BY <2>1
  <2>3. CleanProse(c) = c
    <3>1. \A i \in DOMAIN c : c[i] \notin {Markup}
      BY <2>1 DEF ToSet
    <3>. HIDE DEF c
    <3>. QED
      BY <2>2, <3>1, DroppingNone DEF CleanProse
  <2>4. cl = <<c>>
    BY <2>2, <2>3
  <2>5. Joined(<<c>>) = c
    <3>. HIDE DEF c
    <3>1. <<>> \in Seq(Seq(A)) /\ <<>> \o <<c>> = <<c>>
      BY <2>2
    <3>2. Joined(<<>> \o <<c>>) = c
      BY <2>2, <3>1, JoinedGrows
    <3>. QED
      BY <3>1, <3>2
  <2>. QED
    BY <1>2, <2>4, <2>5 DEF Render
<1>. QED
  BY <1>1, <1>2

\* A piece of a text is in it.
LEMMA PieceIsIn ==
    ASSUME NEW A, NEW t \in Seq(A), NEW q \in Pieces(t)
    PROVE  q \in Seq(A) /\ IsIn(q, t)
<1>1. PICK i \in DOMAIN t, j \in DOMAIN t : q = SubSeq(t, i, j) /\ q # <<>>
  BY DEF Pieces
<1>2. i \in 1..Len(t) /\ j \in 1..Len(t) /\ Len(t) \in Nat
  OBVIOUS
<1>3. q \in Seq(A)
  BY <1>1, <1>2
<1>4. i <= j
  <2>1. i > j => SubSeq(t, i, j) = <<>>
    BY <1>2
  <2>. QED
    BY <1>1, <1>2, <2>1
<1>5. Len(q) = (j - i) + 1
  BY <1>1, <1>2, <1>4
<1>6. /\ i - 1 \in 0..(Len(t) - Len(q)) /\ (i - 1) + 1 = i /\ (i - 1) + Len(q) = j
  BY <1>2, <1>4, <1>5
<1>. QED
  BY <1>1, <1>3, <1>6 DEF IsIn

\* A piece of what GeekAPI has of a block is in the page's text, both as they
\* are compared.
LEMMA OwnPieceIsIn ==
    ASSUME NEW A, Bar \in A, Bar # Markup, NEW blocks, blocks \in Seq(ToSet(blocks)),
           \A b \in ToSet(blocks) : IsBlock(b, A),
           NEW block \in ToSet(blocks), Comparable(block), Barless(block),
           NEW q \in Pieces(RenderElsewhere(block))
    PROVE  /\ CleanProse(q) \in Seq(A) /\ PlainText(blocks) \in Seq(A)
           /\ IsIn(CleanProse(q), OneBar(PlainText(blocks)))
<1>. DEFINE cells == block.cells
            cl == [i \in DOMAIN cells |-> CleanProse(cells[i])]
            E == RenderElsewhere(block)
            e == Elsewhere(cells)
            T == Seq(A)
            rendered == [i \in DOMAIN blocks |-> Render(blocks[i])]
            N == Len(blocks)
<1>1. IsBlock(block, A) /\ cells \in Seq(Seq(A))
  BY DEF IsBlock
<1>2. Full(cells) \in Seq(Seq(A)) /\ E = Joined(Full(cells)) /\ E \in Seq(A)
  <2>. HIDE DEF T
  <2>1. cells \in Seq(T)
    BY <1>1 DEF T
  <2>. DEFINE c == cells
  <2>. HIDE DEF c
  <2>2. Full(c) \in Seq(T)
    BY <2>1, DroppingPieces DEF Full, c
  <2>3. Joined(Full(c)) \in Seq(A)
    BY <2>2, JoinedKeepsWords DEF T
  <2>. QED
    BY <2>2, <2>3 DEF T, c, RenderElsewhere, Full
<1>3. Render(block) = Joined(cl)
  BY <1>1, RenderIs
<1>4. DOMAIN blocks = 1..N /\ N \in Nat
  OBVIOUS
<1>5. PICK k \in 1..N : blocks[k] = block
  BY <1>4 DEF ToSet
<1>6. rendered \in Seq(T) /\ Len(rendered) = N /\ rendered[k] = Render(block)
  <2>1. ASSUME NEW i \in 1..N PROVE rendered[i] \in T
    <3>. DEFINE b == blocks[i]
    <3>1. IsBlock(b, A)
      BY <1>4 DEF ToSet
    <3>. HIDE DEF b
    <3>2. Render(b) \in Seq(A)
      BY <3>1, RenderKeepsWords
    <3>. QED
      BY <1>4, <3>2 DEF b
  <2>2. rendered = [i \in 1..N |-> rendered[i]] /\ rendered[k] = Render(block)
    BY <1>4, <1>5
  <2>. HIDE DEF rendered, T, N
  <2>3. rendered \in [1..N -> T]
    BY <2>1, <2>2
  <2>. QED
    BY <1>4, <2>2, <2>3, OfLength
<1>7. PICK a \in Seq(A), b \in Seq(A) : PlainText(blocks) = (a \o Joined(cl)) \o b
  <2>1. PlainText(blocks) = FlattenSeq(rendered)
    BY DEF PlainText
  <2>2. k \in 1..Len(rendered) /\ T = Seq(A)
    BY <1>6
  <2>. HIDE DEF rendered, T
  <2>3. \E a, b \in Seq(A) : FlattenSeq(rendered) = (a \o rendered[k]) \o b
    BY <1>6, <2>2, FlattenPart
  <2>. QED
    BY <1>3, <1>6, <2>1, <2>3
<1>8. Joined(cl) \in Seq(A)
  BY <1>1, <1>3, RenderKeepsWords
<1>. DEFINE x == a \o Joined(cl)
<1>9. x \in Seq(A)
  <2>. HIDE DEF cl
  <2>. QED
    BY <1>8
<1>10. PICK some \in BOOLEAN : Tidy(A, x, e, some)
  <2>1. /\ \A c \in ToSet(cells) : c # <<>> => CleanProse(c) # <<>>
        /\ \A c \in ToSet(cells) : Bar \notin ToSet(c)
    BY DEF Comparable, Barless
  <2>. DEFINE ce == cells
  <2>2. cl = [i \in DOMAIN ce |-> CleanProse(ce[i])] /\ ce \in Seq(Seq(A))
    BY <1>1
  <2>. HIDE DEF ce, cl
  <2>3. \E some \in BOOLEAN : Tidy(A, a \o Joined(cl), Elsewhere(ce), some)
    BY <2>1, <2>2, OwnText DEF ce
  <2>. QED
    BY <2>3 DEF ce
<1>. HIDE DEF x
<1>11. e \in Seq(A) /\ OneBar(x) \in Seq(A) /\ IsIn(e, OneBar(x))
  <2>1. e \in Seq(A)
    <3>1. Dropping(E, {Markup}) \in Seq(A)
      <4>. HIDE DEF E
      <4>. QED
        BY <1>2, DroppingPieces
    <3>. QED
      BY <1>2, <3>1 DEF Elsewhere, CleanProse
  <2>2. OneBar(x) \in Seq(A)
    BY <1>9, OneBarConcat
  <2>3. PICK p \in Seq(A), t \in Seq(A) : OneBar(x) = (p \o e) \o t
    BY <1>10 DEF Tidy
  <2>. HIDE DEF e
  <2>4. IsIn(e, (p \o e) \o t)
    BY <2>1, SplitIsIn
  <2>. QED
    BY <2>1, <2>2, <2>3, <2>4
<1>12. PlainText(blocks) \in Seq(A) /\ OneBar(PlainText(blocks)) \in Seq(A)
       /\ IsIn(OneBar(x), OneBar(PlainText(blocks)))
  <2>. DEFINE l == OneBar(x)
              r == Rest(x, b)
  <2>1. PlainText(blocks) = x \o b /\ PlainText(blocks) \in Seq(A)
    <3>1. PlainText(blocks) = x \o b
      BY <1>7 DEF x
    <3>. QED
      BY <1>9, <3>1
  <2>2. OneBar(x \o b) = l \o r /\ l \in Seq(A) /\ r \in Seq(A)
    BY <1>9, OneBarConcat
  <2>. HIDE DEF l, r
  <2>3. <<>> \in Seq(A) /\ (<<>> \o l) \o r = l \o r /\ l \o r \in Seq(A)
    BY <2>2
  <2>4. IsIn(l, (<<>> \o l) \o r)
    BY <2>2, <2>3, SplitIsIn
  <2>. QED
    BY <2>1, <2>2, <2>3, <2>4 DEF l
<1>13. q \in Seq(A) /\ IsIn(q, E)
  <2>. HIDE DEF E
  <2>1. E \in Seq(A) /\ q \in Pieces(E)
    BY <1>2 DEF E
  <2>. QED
    BY <2>1, PieceIsIn
<1>14. CleanProse(q) \in Seq(A) /\ IsIn(CleanProse(q), e)
  <2>1. CleanProse(E) = e
    BY <1>2 DEF Elsewhere
  <2>. HIDE DEF E, e
  <2>. DEFINE X == {Markup}
  <2>. HIDE DEF X
  <2>2. IsIn(Dropping(q, X), Dropping(E, X))
    BY <1>2, <1>13, IsInDrops
  <2>3. Dropping(q, X) \in Seq(A)
    BY <1>13, DroppingPieces
  <2>. QED
    BY <2>1, <2>2, <2>3 DEF CleanProse, X
<1>15. IsIn(CleanProse(q), OneBar(PlainText(blocks)))
  <2>. DEFINE c == CleanProse(q)
              l == OneBar(x)
              all == OneBar(PlainText(blocks))
  <2>1. /\ c \in Seq(A) /\ e \in Seq(A) /\ l \in Seq(A) /\ all \in Seq(A)
        /\ IsIn(c, e) /\ IsIn(e, l) /\ IsIn(l, all)
    BY <1>11, <1>12, <1>14
  <2>. HIDE DEF c, e, l, all
  <2>2. IsIn(c, l)
    BY <2>1, IsInPart
  <2>3. IsIn(c, all)
    BY <2>1, <2>2, IsInPart
  <2>. QED
    BY <2>3 DEF c, all
<1>. QED
  BY <1>12, <1>14, <1>15

-----------------------------------------------------------------------------
(* What is read, and what the verdicts on it are worth.                      *)

\* The tokens that documents and bodies are made of.
PageTokens == UNION {UNION {ToSet(c) : c \in Cells(d)} : d \in Documents}
QuoteTokens == UNION {UNION {ToSet(item.quote) : item \in ToSet(body.quotes)} : body \in Requests}

Alphabet == {Bar, Markup} \union PageTokens \union QuoteTokens

\* The blocks of a document hold texts over these...
LEMMA DocumentsAreTexts ==
    ASSUME NEW d \in Documents
    PROVE  /\ d.blocks \in Seq(ToSet(d.blocks))
           /\ \A b \in ToSet(d.blocks) : IsBlock(b, Alphabet)
<1>1. d.blocks \in Seq(ToSet(d.blocks))
  BY DocumentsAssumption
<1>2. ASSUME NEW b \in ToSet(d.blocks) PROVE IsBlock(b, Alphabet)
  <2>1. /\ b.kind \in Kinds /\ b.cells \in Seq(ToSet(b.cells))
        /\ b.kind # "row" => Len(b.cells) = 1
        /\ \A c \in ToSet(b.cells) : c \in Seq(ToSet(c))
    BY DocumentsAssumption
  <2>2. ASSUME NEW c \in ToSet(b.cells) PROVE c \in Seq(Alphabet)
    <3>1. c \in Cells(d)
      BY DEF Cells
    <3>2. ToSet(c) \subseteq UNION {ToSet(e) : e \in Cells(d)}
      BY <3>1
    <3>3. ToSet(c) \subseteq Alphabet
      BY <3>2 DEF Alphabet, PageTokens
    <3>4. c \in Seq(ToSet(c))
      BY <2>1
    <3>. DEFINE S == ToSet(c)
    <3>. HIDE DEF S
    <3>. QED
      BY <3>3, <3>4 DEF S
  <2>3. b.cells \in Seq(Seq(Alphabet))
    <3>. DEFINE S == ToSet(b.cells)
                T == Seq(Alphabet)
                cells == b.cells
    <3>1. cells \in Seq(S) /\ \A c \in S : c \in T
      BY <2>1, <2>2
    <3>. HIDE DEF S, T, cells
    <3>2. cells \in Seq(T)
      BY <3>1
    <3>. QED
      BY <3>2 DEF T, cells
  <2>. QED
    BY <2>1, <2>3 DEF IsBlock
<1>. QED
  BY <1>1, <1>2

\* ... and so do the quotes of a body.
LEMMA QuotesAreTexts ==
    ASSUME NEW body \in Requests, NEW i \in DOMAIN body.quotes
    PROVE  body.quotes[i].quote \in Seq(Alphabet)
<1>. DEFINE item == body.quotes[i]
            q == item.quote
            S == ToSet(q)
<1>1. item \in ToSet(body.quotes)
  BY DEF ToSet
<1>2. q \in Seq(S)
  BY <1>1, RequestsAssumption
<1>3. S \subseteq UNION {ToSet(e.quote) : e \in ToSet(body.quotes)}
  BY <1>1
<1>4. S \subseteq Alphabet
  <2>1. S \subseteq QuoteTokens
    BY <1>3 DEF QuoteTokens
  <2>. QED
    BY <2>1 DEF Alphabet
<1>. HIDE DEF S, q
<1>5. q \in Seq(Alphabet)
  BY <1>2, <1>4
<1>. QED
  BY <1>5 DEF q

\* What is read of a page is a document there has been, and a page that nobody
\* touched is as it was read.
PagesInv ==
    /\ pages \subseteq Documents
    /\ \A p, q \in pages : p.id = q.id => p = q
    /\ pc # "idle" => asked \in Requests
    /\ pc \in {"idle", "reading", "answered"}

\* What there has been since the body came.
SeenInv ==
    /\ seen \subseteq Documents
    /\ pc = "reading" => pages \subseteq seen

ReadInv ==
    /\ \A id \in DOMAIN read :
          /\ \A p \in read[id] : p \in seen /\ p.id = id
          /\ \A p, q \in read[id] : p = q
          /\ id \notin touched => read[id] = get_page(id)
    /\ pc = "answered" => \A i \in DOMAIN asked.quotes : asked.quotes[i].page \in DOMAIN read

VerdictsInv == PagesInv /\ SeenInv /\ ReadInv

\* There is nothing read to begin with.
LEMMA InitVerdicts == Init => VerdictsInv
<1>. QED
  BY CorporaAssumption
  DEF Init, VerdictsInv, PagesInv, SeenInv, ReadInv

\* Pages change.
LEMMA StepPages == PagesInv /\ [Next]_vars => PagesInv'
<1>. SUFFICES ASSUME PagesInv, [Next]_vars PROVE PagesInv'
  OBVIOUS
<1>. USE DEF PagesInv
<1>1. ASSUME NEW body \in Requests, Verify(body) PROVE PagesInv'
  BY <1>1 DEF Verify
<1>2. CASE ReadPage
  BY <1>2 DEF ReadPage
<1>3. CASE Answer
  BY <1>3 DEF Answer
<1>4. CASE Done
  BY <1>4 DEF Done, NoRequest
<1>5. CASE get_page_text \/ get_page_text_by_url
  BY <1>5 DEF get_page_text, get_page_text_by_url, Serve
<1>6. CASE SavePage
  BY <1>6 DEF SavePage, Changing, get_page
<1>7. CASE DeletePage
  BY <1>7 DEF DeletePage, Changing
<1>8. CASE UNCHANGED vars
  BY <1>8 DEF vars
<1>. QED
  BY <1>1, <1>2, <1>3, <1>4, <1>5, <1>6, <1>7, <1>8 DEF Next

\* What is there while a request is open has been seen.
LEMMA StepSeen == PagesInv /\ SeenInv /\ [Next]_vars => SeenInv'
<1>. SUFFICES ASSUME PagesInv, SeenInv, [Next]_vars PROVE SeenInv'
  OBVIOUS
<1>. USE DEF PagesInv, SeenInv
<1>1. ASSUME NEW body \in Requests, Verify(body) PROVE SeenInv'
  BY <1>1 DEF Verify
<1>2. CASE ReadPage
  BY <1>2 DEF ReadPage
<1>3. CASE Answer
  BY <1>3 DEF Answer
<1>4. CASE Done
  BY <1>4 DEF Done
<1>5. CASE get_page_text \/ get_page_text_by_url
  BY <1>5 DEF get_page_text, get_page_text_by_url, Serve
<1>6. CASE SavePage
  BY <1>6 DEF SavePage, Changing, get_page
<1>7. CASE DeletePage
  BY <1>7 DEF DeletePage, Changing
<1>8. CASE UNCHANGED vars
  BY <1>8 DEF vars
<1>. QED
  BY <1>1, <1>2, <1>3, <1>4, <1>5, <1>6, <1>7, <1>8 DEF Next

\* When nothing is unread every page of the body is read.
LEMMA AllRead ==
    ASSUME asked \in Requests, Unread = {}, NEW i \in DOMAIN asked.quotes
    PROVE  asked.quotes[i].page \in DOMAIN read
<1>. DEFINE quotes == asked.quotes
            same == {j \in DOMAIN quotes : quotes[j].page = quotes[i].page}
<1>1. DOMAIN quotes = 1..Len(quotes) /\ Len(quotes) \in Nat
  BY RequestsAssumption
<1>2. same \in SUBSET Nat /\ same # {}
  BY <1>1
<1>3. PICK j \in same : \A k \in same : j <= k
  <2>. HIDE DEF same
  <2>. QED
    BY <1>2, LeastNat
<1>4. \A k \in 1..(j - 1) : quotes[k].page # quotes[j].page
  BY <1>1, <1>3
<1>5. j \in ToRead
  BY <1>3, <1>4 DEF ToRead
<1>. QED
  BY <1>3, <1>5 DEF Unread

\* A page read stays as it was read, whatever becomes of the page.
LEMMA StepRead == PagesInv /\ SeenInv /\ ReadInv /\ [Next]_vars => ReadInv'
<1>. SUFFICES ASSUME PagesInv, SeenInv, ReadInv, [Next]_vars PROVE ReadInv'
  OBVIOUS
<1>. USE DEF PagesInv, SeenInv, ReadInv
<1>1. ASSUME NEW body \in Requests, Verify(body) PROVE ReadInv'
  BY <1>1 DEF Verify
<1>2. CASE ReadPage
  <2>. DEFINE of == asked.quotes[CHOOSE i \in Unread : \A j \in Unread : i <= j].page
  <2>1. PICK id : id = of
    OBVIOUS
  <2>2. /\ pc = "reading"
        /\ read' = [k \in DOMAIN read \union {id} |-> IF k = id THEN get_page(id) ELSE read[k]]
        /\ UNCHANGED <<pages, pc, asked, seen, touched>>
    BY <1>2, <2>1 DEF ReadPage
  <2>. HIDE DEF of
  <2>3. /\ DOMAIN read' = DOMAIN read \union {id}
        /\ \A k \in DOMAIN read : k # id => read'[k] = read[k]
        /\ read'[id] = get_page(id)
    BY <2>2
  <2>4. (\A p \in get_page(id) : p \in seen /\ p.id = id) /\ \A p, q \in get_page(id) : p = q
    BY <2>2 DEF get_page
  <2>6. ASSUME NEW k \in DOMAIN read'
        PROVE  /\ \A p \in read'[k] : p \in seen /\ p.id = k
               /\ \A p, q \in read'[k] : p = q
               /\ k \notin touched => read'[k] = get_page(k)
    <3>1. CASE k = id
      BY <2>3, <2>4, <3>1
    <3>2. CASE k # id
      <4>1. k \in DOMAIN read /\ read'[k] = read[k]
        BY <2>3, <3>2
      <4>2. /\ \A p \in read[k] : p \in seen /\ p.id = k
            /\ \A p, q \in read[k] : p = q
            /\ k \notin touched => read[k] = get_page(k)
        BY <4>1
      <4>. QED
        BY <4>1, <4>2
    <3>. QED
      BY <3>1, <3>2
  <2>7. \A k \in DOMAIN read' :
           /\ \A p \in read'[k] : p \in seen' /\ p.id = k
           /\ \A p, q \in read'[k] : p = q
           /\ k \notin touched' => read'[k] = {p \in pages' : p.id = k}
    BY <2>2, <2>6 DEF get_page
  <2>8. pc' # "answered"
    BY <2>2
  <2>. QED
    BY <2>7, <2>8 DEF get_page
<1>3. CASE Answer
  BY <1>3, AllRead DEF Answer, get_page
<1>4. CASE Done
  BY <1>4 DEF Done
<1>5. CASE get_page_text \/ get_page_text_by_url
  <2>1. UNCHANGED <<pages, pc, asked, read, seen, touched>>
    BY <1>5 DEF get_page_text, get_page_text_by_url, Serve
  <2>. QED
    BY <2>1 DEF get_page
<1>6. CASE SavePage
  BY <1>6 DEF SavePage, Changing, get_page
<1>7. CASE DeletePage
  BY <1>7 DEF DeletePage, Changing, get_page
<1>8. CASE UNCHANGED vars
  BY <1>8 DEF vars, get_page
<1>. QED
  BY <1>1, <1>2, <1>3, <1>4, <1>5, <1>6, <1>7, <1>8 DEF Next

\* A verdict that finds a quote is on a page read, which may be cited and which
\* has the quote (verify_quotes, _citable_page_text).
LEMMA VerdictFinds ==
    ASSUME NEW item, NEW found \in SUBSET Documents, NEW run, \A p, q \in found : p = q,
           Verdict(item, found, run).found
    PROVE  \E page \in found :
              /\ page.run = run /\ page.fault = "none"
              /\ verify_quote(item.quote, PlainText(page.blocks), page.blocks)
<1>. DEFINE page == CHOOSE p \in found : TRUE
<1>1. Refused(found, run) = "none" /\ verify_quote(item.quote, PlainText(page.blocks), page.blocks)
  BY DEF Verdict
<1>2. found # {} /\ Refusal(page, run) = "none"
  BY <1>1 DEF Refused
<1>3. page \in found
  BY <1>2
<1>. HIDE DEF page
<1>4. page.run = run /\ classify(page) \in {"none", "no_content"}
  BY <1>2 DEF Refusal
<1>5. page.fault \in Faults \union {"none"}
  BY <1>3, DocumentsAssumption
<1>6. page.fault = "none"
  BY <1>4, <1>5 DEF classify, Faults
<1>. QED
  BY <1>1, <1>3, <1>4, <1>6 DEF page

\* So what is reported found is on the page.
LEMMA FoundIs ==
    ASSUME VerdictsInv, JudgedByReading
    PROVE  FoundIsOnThePage
<1>. SUFFICES ASSUME NEW i \in DOMAIN results, results[i].found
              PROVE  \E page \in seen :
                        /\ page.id = results[i].page /\ MayCite(page)
                        /\ WordsOf(results[i].quote) # <<>>
                        /\ IsIn(WordsOf(results[i].quote), PageWords(page))
                        /\ Len(CleanProse(results[i].quote)) < MinLength =>
                               \E c \in Cells(page) : WordsOf(c) = WordsOf(results[i].quote)
  BY DEF FoundIsOnThePage
<1>1. pc = "answered"
  BY DEF JudgedByReading
<1>. DEFINE item == asked.quotes[i]
            found == read[item.page]
<1>2. i \in DOMAIN asked.quotes /\ results[i] = Verdict(item, found, asked.run)
  BY <1>1 DEF JudgedByReading
<1>3. results[i].page = item.page /\ results[i].quote = item.quote
  BY <1>2, VerdictIsOn
<1>4. asked \in Requests /\ item.page \in DOMAIN read
  BY <1>1, <1>2 DEF VerdictsInv, PagesInv, ReadInv
<1>5. (\A p \in found : p \in seen /\ p.id = item.page) /\ \A p, q \in found : p = q
  BY <1>4 DEF VerdictsInv, ReadInv
<1>6. seen \subseteq Documents
  BY DEF VerdictsInv, SeenInv
<1>7. item.quote \in Seq(Alphabet)
  BY <1>2, <1>4, QuotesAreTexts
<1>. HIDE DEF item, found
<1>8. PICK page \in found :
         /\ page.run = asked.run /\ page.fault = "none"
         /\ verify_quote(item.quote, PlainText(page.blocks), page.blocks)
  <2>1. found \in SUBSET Documents /\ Verdict(item, found, asked.run).found
    BY <1>2, <1>5, <1>6
  <2>. QED
    BY <1>5, <2>1, VerdictFinds
<1>9. page \in Documents /\ page \in seen /\ page.id = item.page
  BY <1>5, <1>6
<1>10. page.blocks \in Seq(ToSet(page.blocks)) /\ \A b \in ToSet(page.blocks) : IsBlock(b, Alphabet)
  BY <1>9, DocumentsAreTexts
<1>11. Bar \in Alphabet /\ MinLength \in Nat
  BY DocumentsAssumption DEF Alphabet
<1>. DEFINE q == item.quote
<1>12. q \in Seq(Alphabet) /\ verify_quote(q, PlainText(page.blocks), page.blocks)
  BY <1>7, <1>8
<1>. HIDE DEF q
<1>13. /\ WordsOf(q) # <<>>
       /\ IsIn(WordsOf(q), PageWords(page))
       /\ Len(CleanProse(q)) < MinLength => \E c \in Cells(page) : WordsOf(c) = WordsOf(q)
  BY <1>10, <1>11, <1>12, FoundHasWords
<1>14. MayCite(page)
  BY <1>8 DEF MayCite
<1>. QED
  BY <1>3, <1>9, <1>13, <1>14 DEF q

\* A page that nobody touched is what was read of it, so its own quotes are
\* found.
LEMMA OwnAreFound ==
    ASSUME VerdictsInv, JudgedByReading
    PROVE  OwnQuotesAreFound
<1>. SUFFICES ASSUME NEW i \in DOMAIN results, NEW page \in pages, NEW block \in ToSet(page.blocks),
                     Steady(results[i], page), Comparable(block), Barless(block),
                     Len(CleanProse(results[i].quote)) >= MinLength,
                     HasWord(CleanProse(results[i].quote)),
                     results[i].quote \in Pieces(RenderElsewhere(block))
              PROVE  results[i].found
  BY DEF OwnQuotesAreFound
<1>1. pc = "answered"
  BY DEF JudgedByReading
<1>. DEFINE item == asked.quotes[i]
            found == read[item.page]
<1>2. i \in DOMAIN asked.quotes /\ results[i] = Verdict(item, found, asked.run)
  BY <1>1 DEF JudgedByReading
<1>3. results[i].page = item.page /\ results[i].quote = item.quote
  BY <1>2, VerdictIsOn
<1>4. found = {page} /\ page \in Documents /\ page.run = asked.run /\ page.fault = "none"
  <2>1. item.page \in DOMAIN read /\ item.page = page.id /\ item.page \notin touched
    BY <1>1, <1>2, <1>3 DEF VerdictsInv, ReadInv, Steady
  <2>2. found = get_page(page.id)
    BY <2>1 DEF VerdictsInv, ReadInv
  <2>3. \A p \in pages : p.id = page.id => p = page
    BY DEF VerdictsInv, PagesInv
  <2>4. get_page(page.id) = {page}
    BY <2>3 DEF get_page
  <2>. QED
    BY <2>2, <2>4 DEF VerdictsInv, PagesInv, Steady, MayCite
<1>5. /\ page.blocks \in Seq(ToSet(page.blocks))
      /\ \A b \in ToSet(page.blocks) : IsBlock(b, Alphabet)
  BY <1>4, DocumentsAreTexts
<1>6. Bar \in Alphabet /\ Bar # Markup /\ MinLength \in Nat
  BY DocumentsAssumption DEF Alphabet
<1>. DEFINE q == item.quote
            c == CleanProse(q)
            blocks == page.blocks
            text == PlainText(blocks)
<1>7. Len(c) >= MinLength /\ HasWord(c) /\ q \in Pieces(RenderElsewhere(block))
  BY <1>3
<1>8. c \in Seq(Alphabet) /\ text \in Seq(Alphabet) /\ IsIn(c, OneBar(text))
  <2>. HIDE DEF q
  <2>. QED
    BY <1>5, <1>6, <1>7, OwnPieceIsIn
<1>9. text # <<>>
  <2>1. OneBar(<<>>) = <<>>
    <3>1. FlattenSeq(<<>>) = <<>>
      BY <1>6, <1>8, FlattenOne
    <3>. QED
      BY <3>1 DEF OneBar
  <2>2. Len(c) # 0 /\ Len(c) \in Nat
    <3>. HIDE DEF c
    <3>. QED
      BY <1>7, <1>8 DEF HasWord
  <2>3. ~IsIn(c, <<>>)
    <3>. HIDE DEF c
    <3>. QED
      BY <2>2 DEF IsIn
  <2>. QED
    BY <1>8, <2>1, <2>3
<1>10. verify_quote(q, text, blocks)
  <2>. HIDE DEF c, text, q
  <2>1. quote_in_text(c, OneBar(text), blocks)
    BY <1>7, <1>8 DEF quote_in_text
  <2>. QED
    BY <2>1 DEF verify_quote, c
<1>11. Refused(found, asked.run) = "none" /\ (CHOOSE p \in found : TRUE) = page
  <2>1. (CHOOSE p \in {page} : TRUE) = page /\ {page} # {}
    OBVIOUS
  <2>2. classify(page) \in {"none", "no_content"}
    BY <1>4 DEF classify
  <2>3. Refusal(page, asked.run) = "none"
    BY <1>4, <1>9, <2>2 DEF Refusal
  <2>. QED
    BY <1>4, <2>1, <2>3 DEF Refused
<1>. HIDE DEF found
<1>12. Verdict(item, found, asked.run).found
  BY <1>10, <1>11 DEF Verdict
<1>. QED
  BY <1>2, <1>12

\* A quote is reported found only if a page of the run asked about, which the
\* crawler did not condemn, had its words one after the other while the request
\* was open, and a short quote only if they were a whole cell: in every corpus,
\* for every body and however the corpus changes meanwhile (verify_quotes).
THEOREM FoundQuotesAreThere == Spec => []FoundIsOnThePage
<1>1. Init => VerdictsInv /\ JudgedByReading
  BY InitVerdicts DEF Init, JudgedByReading
<1>2. VerdictsInv /\ JudgedByReading /\ [Next]_vars => (VerdictsInv /\ JudgedByReading)'
  BY StepPages, StepSeen, StepRead, StepKeeps DEF VerdictsInv
<1>. QED
  BY <1>1, <1>2, FoundIs, PTL DEF Spec

\* A quote that GeekAPI cut from a block without bars of its own, of a page that
\* stayed as it was, is found, whatever cells of the block are empty and
\* whatever of it is markup (verify_quote, _EMPTY_CELL_RUN).
THEOREM OwnQuotesAreThere == Spec => []OwnQuotesAreFound
<1>1. Init => VerdictsInv /\ JudgedByReading
  BY InitVerdicts DEF Init, JudgedByReading
<1>2. VerdictsInv /\ JudgedByReading /\ [Next]_vars => (VerdictsInv /\ JudgedByReading)'
  BY StepPages, StepSeen, StepRead, StepKeeps DEF VerdictsInv
<1>. QED
  BY <1>1, <1>2, OwnAreFound, PTL DEF Spec

-----------------------------------------------------------------------------
(* The audit of supplied pages.                                             *)

\* A page as the request models give it.
IsPage(page) ==
    /\ page = [source |-> page.source, owner |-> page.owner,
               complete |-> page.complete, lines |-> page.lines]
    /\ page.complete \in BOOLEAN
    /\ page.lines \in Seq(ToSet(page.lines))

\* A body as the request models give it.
IsAudit(body) ==
    /\ IsFiniteSet(body.subjects) /\ IsFiniteSet(body.competitors)
    /\ \A page \in body.subjects \union body.competitors : IsPage(page)

LEMMA BodiesAreAudits == ASSUME NEW body \in AuditBodies PROVE IsAudit(body)
BY AuditBodiesAssumption DEF IsAudit, IsPage

\* The lines of a page are as many as there are places.
LEMMA LinesAre ==
    ASSUME NEW page, IsPage(page)
    PROVE  /\ DOMAIN page.lines = 1..Len(page.lines) /\ Len(page.lines) \in Nat
           /\ IsFiniteSet(DOMAIN page.lines)
           /\ ToSet(page.lines) = {page.lines[i] : i \in DOMAIN page.lines}
<1>1. DOMAIN page.lines = 1..Len(page.lines) /\ Len(page.lines) \in Nat
  BY DEF IsPage
<1>2. IsFiniteSet(1..Len(page.lines))
  BY <1>1, FS_Interval
<1>3. ToSet(page.lines) = {page.lines[i] : i \in DOMAIN page.lines}
  BY DEF ToSet
<1>. QED
  BY <1>1, <1>2, <1>3

\* On a page that is not cut off every line that matches is a match
\* (_dimension_matches).
LEMMA UncutMatches ==
    ASSUME NEW page, IsPage(page), Uncut(page), NEW d \in Dimensions
    PROVE  Matches(page, d) = {i \in DOMAIN page.lines : d \in page.lines[i].dims}
<1>. DEFINE all == {i \in DOMAIN page.lines : d \in page.lines[i].dims}
            before(i) == {j \in 1..(i - 1) : d \in page.lines[j].dims}
<1>1. IsFiniteSet(all) /\ Cardinality(all) <= MaxRows /\ Cardinality(all) \in Nat
  BY LinesAre, FS_Subset, FS_CardinalityType DEF Uncut
<1>2. ASSUME NEW i \in all PROVE Cardinality(before(i)) < MaxRows
  <2>1. before(i) \subseteq all /\ i \notin before(i)
    BY LinesAre
  <2>2. IsFiniteSet(before(i)) /\ Cardinality(before(i)) <= Cardinality(all)
        /\ Cardinality(before(i)) # Cardinality(all) /\ Cardinality(before(i)) \in Nat
    BY <2>1, <1>1, <1>2, FS_Subset, FS_CardinalityType
  <2>. QED
    BY <2>2, <1>1, IntelligenceAssumption
<1>. QED
  BY <1>2 DEF Matches

\* So a dimension has matches on a page exactly if the page shows it.
LEMMA UncutShows ==
    ASSUME NEW page, IsPage(page), Uncut(page), NEW d \in Dimensions
    PROVE  Matches(page, d) # {} <=> Shows(page, d)
<1>1. Matches(page, d) = {i \in DOMAIN page.lines : d \in page.lines[i].dims}
  BY UncutMatches
<1>2. ToSet(page.lines) = {page.lines[i] : i \in DOMAIN page.lines}
  BY LinesAre
<1>3. Shows(page, d) <=> \E i \in DOMAIN page.lines : d \in page.lines[i].dims
  BY <1>2 DEF Shows
<1>. QED
  BY <1>1, <1>3

\* A page has the topics that it heads.
LEMMA UncutTopics ==
    ASSUME NEW page, IsPage(page), Uncut(page)
    PROVE  TopicsOf(page) = HeadsOf(page)
<1>1. Matches(page, Topics) = {i \in DOMAIN page.lines : Topics \in page.lines[i].dims}
  BY UncutMatches, IntelligenceAssumption
<1>2. Quoted(page, Topics) = {l.says : l \in {l \in ToSet(page.lines) : Topics \in l.dims}}
  <2>1. Quoted(page, Topics)
        = {page.lines[i].says : i \in {i \in DOMAIN page.lines : Topics \in page.lines[i].dims}}
    BY <1>1 DEF Quoted
  <2>2. ToSet(page.lines) = {page.lines[i] : i \in DOMAIN page.lines}
    BY LinesAre
  <2>. QED
    BY <2>1, <2>2
<1>. QED
  BY <1>2 DEF TopicsOf, HeadsOf

LEMMA HeadsAre == ASSUME NEW page, NEW topic PROVE Heads(page, topic) <=> topic \in HeadsOf(page)
BY DEF Heads, HeadsOf

\* Whether a page has a dimension is whether it shows it (_analyze_page).
LEMMA UncutPresent ==
    ASSUME NEW page, IsPage(page), Uncut(page), NEW d \in Dimensions
    PROVE  Present(page, d) = "yes" <=> Shows(page, d)
<1>1. Present(page, d) = "yes" <=> Matches(page, d) # {}
  BY DEF Present
<1>. QED
  BY <1>1, UncutShows

\* The pages that cover a dimension are those that show it, and the subject
\* covers it if one of its pages does.
LEMMA UncutCoverage ==
    ASSUME NEW body, IsAudit(body), NEW d \in Dimensions,
           \A page \in body.subjects \union body.competitors : Uncut(page)
    PROVE  /\ Covering(body.competitors, d) = Showing(body.competitors, d)
           /\ SubjectCoverage(body.subjects, d) # "yes" <=> Showing(body.subjects, d) = {}
<1>1. \A page \in body.subjects \union body.competitors :
          Present(page, d) = "yes" <=> Shows(page, d)
  BY UncutPresent DEF IsAudit
<1>2. Covering(body.competitors, d) = Showing(body.competitors, d)
  BY <1>1 DEF Covering, Showing
<1>3. SubjectCoverage(body.subjects, d) # "yes"
      <=> ~\E page \in body.subjects : Present(page, d) = "yes"
  BY DEF SubjectCoverage
<1>4. SubjectCoverage(body.subjects, d) # "yes" <=> Showing(body.subjects, d) = {}
  BY <1>1, <1>3 DEF Showing
<1>. QED
  BY <1>2, <1>4

\* Places on pages that each have one are on exactly those pages.
LEMMA PlacesAreOnPages ==
    ASSUME NEW some, NEW at, NEW places, \A page \in some : at[page] # {},
           places = UNION {{<<page.source, i>> : i \in at[page]} : page \in some}
    PROVE  {e[1] : e \in places} = {page.source : page \in some}
<1>1. ASSUME NEW e \in places PROVE e[1] \in {page.source : page \in some}
  OBVIOUS
<1>2. ASSUME NEW page \in some PROVE page.source \in {e[1] : e \in places}
  <2>1. PICK i \in at[page] : TRUE
    OBVIOUS
  <2>2. <<page.source, i>> \in places /\ <<page.source, i>>[1] = page.source
    OBVIOUS
  <2>. QED
    BY <2>2
<1>. QED
  BY <1>1, <1>2

\* A gap is asserted if every page of the subject is complete, and otherwise
\* its coverage is unknown (content_gap).
LEMMA GapStatus ==
    ASSUME NEW body, IsAudit(body), NEW d, NEW signal, NEW sources, NEW evidence, NEW confidence,
           NEW g, g = Gap(d, signal, SubjectPartial(body.subjects), sources, evidence, confidence)
    PROVE  g.status = IF \A page \in body.subjects : page.complete
                      THEN "supportedGap" ELSE "coverageUnknown"
<1>1. SubjectPartial(body.subjects) <=> ~\A page \in body.subjects : page.complete
  BY DEF SubjectPartial, IsAudit, IsPage
<1>. QED
  BY <1>1 DEF Gap

\* The gap there is for a dimension: the sources and the evidence of the pages
\* that show it.
DimensionGap(body, d) ==
    Gap(d, <<d>>, SubjectPartial(body.subjects),
        SourcesOf(Showing(body.competitors, d)),
        UNION {Evidence(page, d) : page \in Showing(body.competitors, d)},
        IF Showing(body.competitors, d) = body.competitors THEN "high" ELSE "medium")

Lacked(body) ==
    {d \in Dimensions : /\ Showing(body.subjects, d) = {}
                        /\ Showing(body.competitors, d) # {}}

LEMMA DimensionGapsAre ==
    ASSUME NEW body, IsAudit(body),
           \A page \in body.subjects \union body.competitors : Uncut(page)
    PROVE  DimensionGaps(body) = {DimensionGap(body, d) : d \in Lacked(body)}
<1>1. \A d \in Dimensions : /\ Covering(body.competitors, d) = Showing(body.competitors, d)
                            /\ SubjectCoverage(body.subjects, d) # "yes"
                               <=> Showing(body.subjects, d) = {}
  BY UncutCoverage
<1>2. Lacked(body) = {d \in Dimensions : /\ Covering(body.competitors, d) # {}
                                         /\ SubjectCoverage(body.subjects, d) # "yes"}
  BY <1>1 DEF Lacked
<1>3. \A d \in Lacked(body) : Covering(body.competitors, d) = Showing(body.competitors, d)
  BY <1>1 DEF Lacked
<1>4. DimensionGaps(body)
      = {Gap(d, <<d>>, SubjectPartial(body.subjects),
             {page.source : page \in Covering(body.competitors, d)},
             UNION {Evidence(page, d) : page \in Covering(body.competitors, d)},
             IF Covering(body.competitors, d) = body.competitors THEN "high" ELSE "medium") :
         d \in Lacked(body)}
  BY <1>2 DEF DimensionGaps
<1>. QED
  BY <1>3, <1>4 DEF DimensionGap, SourcesOf

\* Its evidence is on the pages it names.
LEMMA DimensionEvidence ==
    ASSUME NEW body, IsAudit(body), NEW d \in Dimensions,
           \A page \in body.subjects \union body.competitors : Uncut(page)
    PROVE  {e[1] : e \in UNION {Evidence(page, d) : page \in Showing(body.competitors, d)}}
           = SourcesOf(Showing(body.competitors, d))
<1>. DEFINE some == Showing(body.competitors, d)
            at == [page \in some |-> Matches(page, d)]
            places == UNION {Evidence(page, d) : page \in some}
<1>1. \A page \in some : at[page] # {}
  BY UncutShows DEF Showing, IsAudit
<1>2. places = UNION {{<<page.source, i>> : i \in at[page]} : page \in some}
  BY DEF Evidence
<1>. HIDE DEF at, some, places
<1>3. {e[1] : e \in places} = {page.source : page \in some}
  BY <1>1, <1>2, PlacesAreOnPages
<1>. QED
  BY <1>3 DEF SourcesOf, some, places

\* The gap there is for a topic: the pages that have it, and where.
Places(page, topic) == {i \in Matches(page, Topics) : Normal(page.lines[i].says) = topic}

TopicGap(body, topic) ==
    Gap(Topics, <<"topic", topic>>, SubjectPartial(body.subjects),
        SourcesOf(Having(body.competitors, topic)),
        UNION {{<<page.source, i>> : i \in Places(page, topic)} :
               page \in Having(body.competitors, topic)},
        "medium")

Unheaded(body) ==
    {t \in UNION {HeadsOf(page) : page \in body.competitors} : Having(body.subjects, t) = {}}

LEMMA TopicGapsAre ==
    ASSUME NEW body, IsAudit(body),
           \A page \in body.subjects \union body.competitors : Uncut(page)
    PROVE  TopicGaps(body) = {TopicGap(body, t) : t \in Unheaded(body)}
<1>. DEFINE having(t) == {page \in body.competitors : t \in TopicsOf(page)}
            others == (UNION {TopicsOf(page) : page \in body.competitors})
                      \ (UNION {TopicsOf(page) : page \in body.subjects})
<1>1. \A page \in body.subjects \union body.competitors : TopicsOf(page) = HeadsOf(page)
  BY UncutTopics DEF IsAudit
<1>2. ASSUME NEW t PROVE having(t) = Having(body.competitors, t)
  BY <1>1, HeadsAre DEF Having
<1>3. others = Unheaded(body)
  <2>1. \A t : Having(body.subjects, t) = {} <=> \A page \in body.subjects : t \notin TopicsOf(page)
    BY <1>1, HeadsAre DEF Having
  <2>2. UNION {TopicsOf(page) : page \in body.competitors}
        = UNION {HeadsOf(page) : page \in body.competitors}
    BY <1>1
  <2>. DEFINE all == UNION {TopicsOf(page) : page \in body.competitors}
              known == UNION {TopicsOf(page) : page \in body.subjects}
  <2>3. \A t : t \in known <=> \E page \in body.subjects : t \in TopicsOf(page)
    OBVIOUS
  <2>4. others = all \ known
    OBVIOUS
  <2>5. Unheaded(body) = {t \in all : Having(body.subjects, t) = {}}
    BY <2>2 DEF Unheaded
  <2>. HIDE DEF all, known, others
  <2>. QED
    BY <2>1, <2>3, <2>4, <2>5
<1>4. TopicGaps(body)
      = {Gap(Topics, <<"topic", t>>, SubjectPartial(body.subjects),
             {page.source : page \in having(t)},
             UNION {{<<page.source, i>> : i \in Places(page, t)} : page \in having(t)},
             "medium") : t \in others}
  BY DEF TopicGaps, Places
<1>. HIDE DEF having, others
<1>5. \A t : having(t) = Having(body.competitors, t)
  BY <1>2
<1>. QED
  BY <1>3, <1>4, <1>5 DEF TopicGap, SourcesOf

\* Its evidence is on the pages it names.
LEMMA TopicEvidence ==
    ASSUME NEW body, IsAudit(body), NEW t,
           \A page \in body.subjects \union body.competitors : Uncut(page)
    PROVE  {e[1] : e \in TopicGap(body, t).evidence} = SourcesOf(Having(body.competitors, t))
<1>. DEFINE some == Having(body.competitors, t)
            at == [page \in some |-> Places(page, t)]
            places == UNION {{<<page.source, i>> : i \in Places(page, t)} : page \in some}
<1>1. ASSUME NEW page \in some PROVE Places(page, t) # {}
  <2>1. t \in TopicsOf(page)
    BY UncutTopics, HeadsAre DEF Having, IsAudit
  <2>. QED
    BY <2>1 DEF TopicsOf, Quoted, Places
<1>2. \A page \in some : at[page] # {}
  BY <1>1
<1>3. places = UNION {{<<page.source, i>> : i \in at[page]} : page \in some}
  OBVIOUS
<1>4. TopicGap(body, t).evidence = places
  BY DEF TopicGap, Gap
<1>. HIDE DEF at, some, places
<1>5. {e[1] : e \in places} = {page.source : page \in some}
  BY <1>2, <1>3, PlacesAreOnPages
<1>. QED
  BY <1>4, <1>5 DEF SourcesOf, some

\* Every gap has the status, the evidence and the confidence it should.
LEMMA GapsAreSound ==
    ASSUME NEW body, IsAudit(body),
           \A page \in body.subjects \union body.competitors : Uncut(page),
           NEW g \in content_gap(body)
    PROVE  /\ g.status = IF \A page \in body.subjects : page.complete
                         THEN "supportedGap" ELSE "coverageUnknown"
           /\ {e[1] : e \in g.evidence} = g.sources
           /\ g.confidence = "high" => \A page \in body.competitors : Shows(page, g.dimension)
<1>1. CASE g \in DimensionGaps(body)
  <2>1. PICK d \in Lacked(body) : g = DimensionGap(body, d)
    BY <1>1, DimensionGapsAre
  <2>2. d \in Dimensions
    BY DEF Lacked
  <2>. DEFINE sure == IF Showing(body.competitors, d) = body.competitors THEN "high" ELSE "medium"
  <2>3. /\ g.status = IF \A page \in body.subjects : page.complete
                      THEN "supportedGap" ELSE "coverageUnknown"
        /\ g.confidence = "high" => sure = "high"
        /\ g.dimension = d
        /\ g.sources = SourcesOf(Showing(body.competitors, d))
        /\ g.evidence = UNION {Evidence(page, d) : page \in Showing(body.competitors, d)}
    <3>. DEFINE sources == SourcesOf(Showing(body.competitors, d))
                evidence == UNION {Evidence(page, d) : page \in Showing(body.competitors, d)}
                signal == <<d>>
    <3>1. g = Gap(d, signal, SubjectPartial(body.subjects), sources, evidence, sure)
      BY <2>1 DEF DimensionGap
    <3>. HIDE DEF sure, sources, evidence, signal
    <3>2. /\ g.status = IF \A page \in body.subjects : page.complete
                        THEN "supportedGap" ELSE "coverageUnknown"
          /\ g.confidence = "high" => sure = "high"
          /\ g.dimension = d /\ g.sources = sources /\ g.evidence = evidence
      <4>1. g.dimension = d /\ g.sources = sources /\ g.evidence = evidence
        BY <3>1 DEF Gap
      <4>2. g.confidence = "high" => sure = "high"
        BY <3>1 DEF Gap
      <4>3. g.status = IF \A page \in body.subjects : page.complete
                       THEN "supportedGap" ELSE "coverageUnknown"
        BY <3>1, GapStatus
      <4>. QED
        BY <4>1, <4>2, <4>3
    <3>. QED
      BY <3>2 DEF sources, evidence
  <2>4. {e[1] : e \in g.evidence} = g.sources
    BY <2>2, <2>3, DimensionEvidence
  <2>5. sure = "high" => \A page \in body.competitors : Shows(page, d)
    BY DEF Showing
  <2>. QED
    BY <2>3, <2>4, <2>5
<1>2. CASE g \in TopicGaps(body)
  <2>1. PICK t \in Unheaded(body) : g = TopicGap(body, t)
    BY <1>2, TopicGapsAre
  <2>2. /\ g.status = IF \A page \in body.subjects : page.complete
                      THEN "supportedGap" ELSE "coverageUnknown"
        /\ g.confidence # "high"
        /\ g.sources = SourcesOf(Having(body.competitors, t))
    <3>. DEFINE sources == SourcesOf(Having(body.competitors, t))
                evidence == UNION {{<<page.source, i>> : i \in Places(page, t)} :
                                   page \in Having(body.competitors, t)}
                signal == <<"topic", t>>
    <3>1. g = Gap(Topics, signal, SubjectPartial(body.subjects), sources, evidence, "medium")
      BY <2>1 DEF TopicGap
    <3>. HIDE DEF sources, evidence, signal
    <3>2. /\ g.status = IF \A page \in body.subjects : page.complete
                        THEN "supportedGap" ELSE "coverageUnknown"
          /\ g.confidence # "high"
          /\ g.sources = sources
      <4>1. g.sources = sources /\ g.confidence # "high"
        BY <3>1 DEF Gap
      <4>. QED
        BY <3>1, <4>1, GapStatus
    <3>. QED
      BY <3>2 DEF sources, evidence
  <2>3. {e[1] : e \in g.evidence} = g.sources
    BY <2>1, <2>2, TopicEvidence
  <2>. QED
    BY <2>2, <2>3
<1>. QED
  BY <1>1, <1>2 DEF content_gap

\* The gaps named by a dimension, and those named by a topic, with their sources.
LEMMA GapsNamed ==
    ASSUME NEW body, IsAudit(body),
           \A page \in body.subjects \union body.competitors : Uncut(page)
    PROVE  LET gaps == content_gap(body)
               named(n) == {<<g.signal, g.sources>> : g \in {g \in gaps : Len(g.signal) = n}}
           IN  /\ named(1) = {<< <<d>>, SourcesOf(Showing(body.competitors, d))>> : d \in Lacked(body)}
               /\ named(2) = {<< <<"topic", t>>, SourcesOf(Having(body.competitors, t))>> :
                                 t \in Unheaded(body)}
<1>. DEFINE gaps == content_gap(body)
            named(n) == {<<g.signal, g.sources>> : g \in {g \in gaps : Len(g.signal) = n}}
<1>1. gaps = {DimensionGap(body, d) : d \in Lacked(body)} \union {TopicGap(body, t) : t \in Unheaded(body)}
  BY DimensionGapsAre, TopicGapsAre DEF content_gap
<1>2. ASSUME NEW d
      PROVE  /\ DimensionGap(body, d).signal = <<d>> /\ Len(DimensionGap(body, d).signal) = 1
             /\ DimensionGap(body, d).sources = SourcesOf(Showing(body.competitors, d))
  BY DEF DimensionGap, Gap
<1>3. ASSUME NEW t
      PROVE  /\ TopicGap(body, t).signal = <<"topic", t>> /\ Len(TopicGap(body, t).signal) = 2
             /\ TopicGap(body, t).sources = SourcesOf(Having(body.competitors, t))
  BY DEF TopicGap, Gap
<1>4. {g \in gaps : Len(g.signal) = 1} = {DimensionGap(body, d) : d \in Lacked(body)}
  BY <1>1, <1>2, <1>3
<1>5. {g \in gaps : Len(g.signal) = 2} = {TopicGap(body, t) : t \in Unheaded(body)}
  BY <1>1, <1>2, <1>3
<1>6. named(1) = {<<DimensionGap(body, d).signal, DimensionGap(body, d).sources>> : d \in Lacked(body)}
  BY <1>4
<1>7. named(2) = {<<TopicGap(body, t).signal, TopicGap(body, t).sources>> : t \in Unheaded(body)}
  BY <1>5
<1>8. named(1) = {<< <<d>>, SourcesOf(Showing(body.competitors, d))>> : d \in Lacked(body)}
  BY <1>2, <1>6
<1>9. named(2) = {<< <<"topic", t>>, SourcesOf(Having(body.competitors, t))>> : t \in Unheaded(body)}
  BY <1>3, <1>7
<1>. QED
  BY <1>8, <1>9

\* What an answer was made from, and that it was made from that.
AnsweredFromBody ==
    Audited => analysis.body \in AuditBodies /\ analysis.artifact = competitor_audit(analysis.body)

LEMMA AnswersAreFromBodies == AnalysesSpec => []AnsweredFromBody
<1>1. AnalysesInit => AnsweredFromBody
  BY DEF AnalysesInit, None, AnsweredFromBody, Audited
<1>2. AnsweredFromBody /\ [AnalysesNext]_analysis => AnsweredFromBody'
  <2>. SUFFICES ASSUME AnsweredFromBody, [AnalysesNext]_analysis PROVE AnsweredFromBody'
    OBVIOUS
  <2>1. ASSUME NEW body \in AuditBodies, Audit(body) PROVE AnsweredFromBody'
    BY <2>1 DEF Audit, AnsweredFromBody, Audited
  <2>2. ASSUME NEW body \in PlanBodies, Plan(body) PROVE AnsweredFromBody'
    BY <2>2 DEF Plan, AnsweredFromBody, Audited
  <2>3. CASE Sent
    BY <2>3 DEF Sent, None, AnsweredFromBody, Audited
  <2>4. CASE UNCHANGED analysis
    BY <2>4 DEF AnsweredFromBody, Audited
  <2>. QED
    BY <2>1, <2>2, <2>3, <2>4 DEF AnalysesNext
<1>. QED
  BY <1>1, <1>2, PTL DEF AnalysesSpec

\* Of pages that are not cut off, the gaps of an audit are exactly those there
\* are, each with the status, the confidence, the sources and the evidence that
\* the pages bear out (content_gap), whatever pages are supplied.
THEOREM GapsExact == AnalysesSpec => []GapsAreExact
<1>1. AnsweredFromBody => GapsAreExact
  <2>. SUFFICES ASSUME AnsweredFromBody, Audited,
                       \A page \in analysis.body.subjects \union analysis.body.competitors : Uncut(page)
                PROVE  GapsAreExact
    BY DEF GapsAreExact
  <2>. DEFINE body == analysis.body
              gaps == analysis.artifact.gaps
              named(n) == {<<g.signal, g.sources>> : g \in {g \in gaps : Len(g.signal) = n}}
  <2>1. IsAudit(body) /\ gaps = content_gap(body)
    BY BodiesAreAudits DEF AnsweredFromBody, competitor_audit
  <2>2. \A g \in gaps :
           /\ g.status = IF \A page \in body.subjects : page.complete
                         THEN "supportedGap" ELSE "coverageUnknown"
           /\ {e[1] : e \in g.evidence} = g.sources
           /\ g.confidence = "high" => \A page \in body.competitors : Shows(page, g.dimension)
    BY <2>1, GapsAreSound
  <2>3. /\ named(1) = {<< <<d>>, SourcesOf(Showing(body.competitors, d))>> : d \in Lacked(body)}
        /\ named(2) = {<< <<"topic", t>>, SourcesOf(Having(body.competitors, t))>> : t \in Unheaded(body)}
    BY <2>1, GapsNamed
  <2>. QED
    BY <2>2, <2>3 DEF GapsAreExact, Lacked, Unheaded
<1>. QED
  BY <1>1, AnswersAreFromBodies, PTL

\* The page with one more line.
Grown(page, line) == [page EXCEPT !.lines = Append(@, line)]

\* A page that grows keeps its matches: they are cut off at the end.
LEMMA GrownKeeps ==
    ASSUME NEW page, IsPage(page), NEW line
    PROVE  /\ Grown(page, line).source = page.source
           /\ Grown(page, line).complete = page.complete
           /\ \A d : Matches(page, d) \subseteq Matches(Grown(page, line), d)
           /\ \A d : Present(page, d) = "yes" => Present(Grown(page, line), d) = "yes"
           /\ TopicsOf(page) \subseteq TopicsOf(Grown(page, line))
<1>. DEFINE more == Grown(page, line)
<1>1. more = [source |-> page.source, owner |-> page.owner, complete |-> page.complete,
              lines |-> Append(page.lines, line)]
  BY DEF Grown, IsPage
<1>2. \A i \in DOMAIN page.lines : i \in DOMAIN more.lines /\ more.lines[i] = page.lines[i]
  <2>1. page.lines \in Seq(ToSet(page.lines) \union {line})
    BY DEF IsPage
  <2>2. more.lines = Append(page.lines, line)
    BY <1>1
  <2>3. Len(more.lines) = Len(page.lines) + 1 /\ DOMAIN more.lines = 1..(Len(page.lines) + 1)
        /\ \A i \in 1..Len(page.lines) : more.lines[i] = page.lines[i]
    BY <2>1, <2>2
  <2>. QED
    BY <2>3, LinesAre
<1>3. more.source = page.source /\ more.complete = page.complete
  BY <1>1
<1>. HIDE DEF more
<1>4. ASSUME NEW d PROVE Matches(page, d) \subseteq Matches(more, d)
  <2>. SUFFICES ASSUME NEW i \in Matches(page, d) PROVE i \in Matches(more, d)
    OBVIOUS
  <2>1. i \in DOMAIN page.lines /\ d \in page.lines[i].dims
        /\ Cardinality({j \in 1..(i - 1) : d \in page.lines[j].dims}) < MaxRows
    BY DEF Matches
  <2>2. \A j \in 1..(i - 1) : j \in DOMAIN page.lines
    BY <2>1, LinesAre
  <2>3. {j \in 1..(i - 1) : d \in more.lines[j].dims} = {j \in 1..(i - 1) : d \in page.lines[j].dims}
    BY <1>2, <2>2
  <2>. QED
    BY <1>2, <2>1, <2>3 DEF Matches
<1>5. ASSUME NEW d, Present(page, d) = "yes" PROVE Present(more, d) = "yes"
  BY <1>4, <1>5 DEF Present
<1>6. TopicsOf(page) \subseteq TopicsOf(more)
  <2>1. Matches(page, Topics) \subseteq Matches(more, Topics)
    BY <1>4
  <2>2. \A i \in Matches(page, Topics) : more.lines[i].says = page.lines[i].says
    BY <1>2 DEF Matches
  <2>3. Quoted(page, Topics) \subseteq Quoted(more, Topics)
    BY <2>1, <2>2 DEF Quoted
  <2>. QED
    BY <2>3 DEF TopicsOf
<1>. QED
  BY <1>3, <1>4, <1>5, <1>6 DEF more

\* A gap is asserted in an audit if there is one that says so.
Asserted(body, d, signal) ==
    \E g \in content_gap(body) : /\ g.status = "supportedGap"
                                 /\ g.dimension = d /\ g.signal = signal

\* What makes an audit assert a gap.
LEMMA AssertedBecause ==
    ASSUME NEW body, NEW dim, NEW signal
    PROVE  Asserted(body, dim, signal) <=>
               /\ ~SubjectPartial(body.subjects)
               /\ \/ /\ dim \in Dimensions /\ signal = <<dim>>
                     /\ \E page \in body.competitors : Present(page, dim) = "yes"
                     /\ SubjectCoverage(body.subjects, dim) # "yes"
                  \/ /\ dim = Topics
                     /\ \E t : /\ signal = <<"topic", t>>
                               /\ \E page \in body.competitors : t \in TopicsOf(page)
                               /\ \A page \in body.subjects : t \notin TopicsOf(page)
<1>1. (\E g \in DimensionGaps(body) : g.status = "supportedGap" /\ g.dimension = dim /\ g.signal = signal)
      <=> /\ ~SubjectPartial(body.subjects) /\ dim \in Dimensions /\ signal = <<dim>>
          /\ Covering(body.competitors, dim) # {} /\ SubjectCoverage(body.subjects, dim) # "yes"
  <2>. DEFINE gap(d) == Gap(d, <<d>>, SubjectPartial(body.subjects),
                            {page.source : page \in Covering(body.competitors, d)},
                            UNION {Evidence(page, d) : page \in Covering(body.competitors, d)},
                            IF Covering(body.competitors, d) = body.competitors THEN "high" ELSE "medium")
              lacked == {d \in Dimensions : /\ Covering(body.competitors, d) # {}
                                            /\ SubjectCoverage(body.subjects, d) # "yes"}
  <2>1. DimensionGaps(body) = {gap(d) : d \in lacked}
    BY DEF DimensionGaps
  <2>2. \A d : /\ gap(d).status = "supportedGap" <=> ~SubjectPartial(body.subjects)
               /\ gap(d).dimension = d /\ gap(d).signal = <<d>>
    BY DEF Gap
  <2>3. dim \in lacked <=> /\ dim \in Dimensions /\ Covering(body.competitors, dim) # {}
                          /\ SubjectCoverage(body.subjects, dim) # "yes"
    OBVIOUS
  <2>. HIDE DEF gap, lacked
  <2>4. (\E g \in DimensionGaps(body) : g.status = "supportedGap" /\ g.dimension = dim /\ g.signal = signal)
        <=> \E d \in lacked : /\ gap(d).status = "supportedGap"
                              /\ gap(d).dimension = dim /\ gap(d).signal = signal
    BY <2>1
  <2>. QED
    BY <2>2, <2>3, <2>4
<1>2. Covering(body.competitors, dim) # {} <=> \E page \in body.competitors : Present(page, dim) = "yes"
  BY DEF Covering
<1>. DEFINE all == UNION {TopicsOf(page) : page \in body.competitors}
            known == UNION {TopicsOf(page) : page \in body.subjects}
<1>3. (\E g \in TopicGaps(body) : g.status = "supportedGap" /\ g.dimension = dim /\ g.signal = signal)
      <=> /\ ~SubjectPartial(body.subjects) /\ dim = Topics
          /\ \E t \in all \ known : signal = <<"topic", t>>
  <2>. DEFINE having(t) == {page \in body.competitors : t \in TopicsOf(page)}
              gap(t) == Gap(Topics, <<"topic", t>>, SubjectPartial(body.subjects),
                            {page.source : page \in having(t)},
                            UNION {{<<page.source, i>> : i \in Places(page, t)} : page \in having(t)},
                            "medium")
              others == all \ known
  <2>1. TopicGaps(body) = {gap(t) : t \in others}
    BY DEF TopicGaps, Places
  <2>2. \A t : /\ gap(t).status = "supportedGap" <=> ~SubjectPartial(body.subjects)
               /\ gap(t).dimension = Topics /\ gap(t).signal = <<"topic", t>>
    BY DEF Gap
  <2>. HIDE DEF gap, all, known, others
  <2>3. (\E g \in TopicGaps(body) : g.status = "supportedGap" /\ g.dimension = dim /\ g.signal = signal)
        <=> \E t \in others : /\ gap(t).status = "supportedGap"
                              /\ gap(t).dimension = dim /\ gap(t).signal = signal
    BY <2>1
  <2>. QED
    BY <2>2, <2>3 DEF others
<1>4. \A t : t \in all <=> \E page \in body.competitors : t \in TopicsOf(page)
  OBVIOUS
<1>5. \A t : t \in known <=> \E page \in body.subjects : t \in TopicsOf(page)
  OBVIOUS
<1>6. Asserted(body, dim, signal) <=>
        \/ \E g \in DimensionGaps(body) : g.status = "supportedGap" /\ g.dimension = dim /\ g.signal = signal
        \/ \E g \in TopicGaps(body) : g.status = "supportedGap" /\ g.dimension = dim /\ g.signal = signal
  BY DEF Asserted, content_gap
<1>. HIDE DEF all, known
<1>. QED
  BY <1>1, <1>2, <1>3, <1>4, <1>5, <1>6

\* A body whose pages may be others, each with one for it that comes from where
\* it did, is as complete, and has what it had: if the subject is complete its
\* pages are the same.
LEMMA AssertedStays ==
    ASSUME NEW body, NEW later, NEW dim, NEW signal, Asserted(body, dim, signal),
           ~SubjectPartial(body.subjects) => later.subjects = body.subjects,
           \A p \in body.competitors : \E q \in later.competitors :
               /\ \A d : Present(p, d) = "yes" => Present(q, d) = "yes"
               /\ TopicsOf(p) \subseteq TopicsOf(q)
    PROVE  Asserted(later, dim, signal)
<1>1. ~SubjectPartial(body.subjects) /\ later.subjects = body.subjects
  BY AssertedBecause
<1>2. CASE /\ dim \in Dimensions /\ signal = <<dim>>
           /\ \E page \in body.competitors : Present(page, dim) = "yes"
           /\ SubjectCoverage(body.subjects, dim) # "yes"
  <2>1. \E page \in later.competitors : Present(page, dim) = "yes"
    BY <1>2
  <2>. QED
    BY <1>1, <1>2, <2>1, AssertedBecause
<1>3. CASE /\ dim = Topics
           /\ \E t : /\ signal = <<"topic", t>>
                     /\ \E page \in body.competitors : t \in TopicsOf(page)
                     /\ \A page \in body.subjects : t \notin TopicsOf(page)
  <2>1. PICK t : /\ signal = <<"topic", t>>
                 /\ \E page \in body.competitors : t \in TopicsOf(page)
                 /\ \A page \in body.subjects : t \notin TopicsOf(page)
    BY <1>3
  <2>2. \E page \in later.competitors : t \in TopicsOf(page)
    BY <2>1
  <2>3. \A page \in later.subjects : t \notin TopicsOf(page)
    BY <1>1, <2>1
  <2>. QED
    BY <1>1, <1>3, <2>1, <2>2, <2>3, AssertedBecause
<1>. QED
  BY <1>2, <1>3, AssertedBecause

\* What an audit asserts: gaps, what to do about them, what to do where a
\* complete page lacks something, and what is on the pages and is not.
LEMMA AssertionsAre ==
    ASSUME NEW body, NEW x
    PROVE  x \in Assertions(competitor_audit(body)) <=>
              \/ \E dim, signal : /\ Asserted(body, dim, signal)
                                  /\ x = <<"gap", dim, signal>> \/ x = <<"do", dim, signal>>
              \/ \E page \in body.competitors : \E d \in Dimensions :
                    /\ Present(page, d) = "no"
                    /\ x = <<"do", d, <<"page", page.owner>> >>
              \/ \E page \in body.subjects \union body.competitors : \E d \in Dimensions :
                    /\ Present(page, d) # "unknown"
                    /\ x = <<page.source, d, Present(page, d)>>
<1>. DEFINE audit == competitor_audit(body)
            all == body.subjects \union body.competitors
            about(g) == [origin |-> g.status, priority |-> Priority(g), dimension |-> g.dimension,
                         about |-> g.signal, evidence |-> g.evidence]
            lack(page, d) == [origin |-> "pageOpportunity", priority |-> "medium", dimension |-> d,
                              about |-> <<"page", page.owner>>, evidence |-> {}]
<1>1. /\ audit.gaps = content_gap(body) /\ audit.actions = Actions(body)
      /\ DOMAIN audit.present = all
      /\ \A page \in all : \A d \in Dimensions : audit.present[page][d] = Present(page, d)
  BY DEF competitor_audit
<1>2. \A g \in content_gap(body) : Priority(g) # "low" <=> g.status = "supportedGap"
  BY DEF Priority
<1>3. (\E a \in Actions(body) : a.priority # "low" /\ x = <<"do", a.dimension, a.about>>)
      <=> \/ \E g \in content_gap(body) : /\ g.status = "supportedGap"
                                          /\ x = <<"do", g.dimension, g.signal>>
          \/ \E page \in body.competitors : \E d \in Dimensions :
                    /\ Present(page, d) = "no"
                    /\ x = <<"do", d, <<"page", page.owner>> >>
  <2>1. Actions(body) = {about(g) : g \in content_gap(body)}
                        \union UNION {{lack(page, d) : d \in Opportunities(page)} : page \in body.competitors}
    BY DEF Actions
  <2>2. \A g : /\ about(g).priority = Priority(g) /\ about(g).dimension = g.dimension
               /\ about(g).about = g.signal
    OBVIOUS
  <2>3. \A page, d : /\ lack(page, d).priority # "low" /\ lack(page, d).dimension = d
                     /\ lack(page, d).about = <<"page", page.owner>>
    OBVIOUS
  <2>. HIDE DEF about, lack
  <2>4. \A a : a \in Actions(body) <=> \/ \E g \in content_gap(body) : a = about(g)
                                       \/ \E page \in body.competitors : \E d \in Opportunities(page) :
                                             a = lack(page, d)
    BY <2>1
  <2>5. \A page, d : d \in Opportunities(page) <=> d \in Dimensions /\ Present(page, d) = "no"
    BY DEF Opportunities
  <2>6. (\E a \in Actions(body) : a.priority # "low" /\ x = <<"do", a.dimension, a.about>>)
        <=> \/ \E g \in content_gap(body) : /\ about(g).priority # "low"
                                            /\ x = <<"do", about(g).dimension, about(g).about>>
            \/ \E page \in body.competitors : \E d \in Opportunities(page) :
                  /\ lack(page, d).priority # "low"
                  /\ x = <<"do", lack(page, d).dimension, lack(page, d).about>>
    BY <2>4
  <2>7. (\E g \in content_gap(body) : /\ about(g).priority # "low"
                                      /\ x = <<"do", about(g).dimension, about(g).about>>)
        <=> \E g \in content_gap(body) : g.status = "supportedGap" /\ x = <<"do", g.dimension, g.signal>>
    BY <1>2, <2>2
  <2>8. (\E page \in body.competitors : \E d \in Opportunities(page) :
            /\ lack(page, d).priority # "low"
            /\ x = <<"do", lack(page, d).dimension, lack(page, d).about>>)
        <=> \E page \in body.competitors : \E d \in Dimensions :
               /\ Present(page, d) = "no"
               /\ x = <<"do", d, <<"page", page.owner>> >>
    <3>1. ASSUME NEW page \in body.competitors
          PROVE  (\E d \in Opportunities(page) :
                     /\ lack(page, d).priority # "low"
                     /\ x = <<"do", lack(page, d).dimension, lack(page, d).about>>)
                 <=> \E d \in Dimensions :
                        /\ Present(page, d) = "no"
                        /\ x = <<"do", d, <<"page", page.owner>> >>
      <4>1. \A d : d \in Opportunities(page) <=> d \in Dimensions /\ Present(page, d) = "no"
        BY <2>5
      <4>2. \A d : /\ lack(page, d).priority # "low"
                   /\ <<"do", lack(page, d).dimension, lack(page, d).about>>
                      = <<"do", d, <<"page", page.owner>> >>
        BY <2>3
      <4>. QED
        BY <4>1, <4>2
    <3>. QED
      BY <3>1
  <2>. QED
    BY <2>6, <2>7, <2>8
<1>. HIDE DEF audit, all
<1>4. x \in Assertions(audit) <=>
        \/ \E g \in content_gap(body) : g.status = "supportedGap" /\ x = <<"gap", g.dimension, g.signal>>
        \/ \E a \in Actions(body) : a.priority # "low" /\ x = <<"do", a.dimension, a.about>>
        \/ \E pd \in all \X Dimensions : /\ audit.present[pd[1]][pd[2]] # "unknown"
                                         /\ x = <<pd[1].source, pd[2], audit.present[pd[1]][pd[2]]>>
  BY <1>1 DEF Assertions
<1>5. (\E pd \in all \X Dimensions : /\ audit.present[pd[1]][pd[2]] # "unknown"
                                     /\ x = <<pd[1].source, pd[2], audit.present[pd[1]][pd[2]]>>)
      <=> \E page \in all : \E d \in Dimensions :
             Present(page, d) # "unknown" /\ x = <<page.source, d, Present(page, d)>>
  <2>1. ASSUME NEW page \in all, NEW d \in Dimensions,
               Present(page, d) # "unknown" /\ x = <<page.source, d, Present(page, d)>>
        PROVE  \E pd \in all \X Dimensions :
                  /\ audit.present[pd[1]][pd[2]] # "unknown"
                  /\ x = <<pd[1].source, pd[2], audit.present[pd[1]][pd[2]]>>
    <3>1. <<page, d>> \in all \X Dimensions /\ <<page, d>>[1] = page /\ <<page, d>>[2] = d
      OBVIOUS
    <3>2. audit.present[page][d] = Present(page, d)
      BY <1>1
    <3>. QED
      BY <2>1, <3>1, <3>2
  <2>2. ASSUME NEW pd \in all \X Dimensions,
               /\ audit.present[pd[1]][pd[2]] # "unknown"
               /\ x = <<pd[1].source, pd[2], audit.present[pd[1]][pd[2]]>>
        PROVE  \E page \in all : \E d \in Dimensions :
                  Present(page, d) # "unknown" /\ x = <<page.source, d, Present(page, d)>>
    <3>1. pd[1] \in all /\ pd[2] \in Dimensions
      OBVIOUS
    <3>2. audit.present[pd[1]][pd[2]] = Present(pd[1], pd[2])
      BY <1>1, <3>1
    <3>. QED
      BY <2>2, <3>1, <3>2
  <2>. QED
    BY <2>1, <2>2
<1>6. (\E g \in content_gap(body) : g.status = "supportedGap" /\ x = <<"gap", g.dimension, g.signal>>)
      <=> \E dim, signal : Asserted(body, dim, signal) /\ x = <<"gap", dim, signal>>
  BY DEF Asserted
<1>7. (\E g \in content_gap(body) : g.status = "supportedGap" /\ x = <<"do", g.dimension, g.signal>>)
      <=> \E dim, signal : Asserted(body, dim, signal) /\ x = <<"do", dim, signal>>
  BY DEF Asserted
<1>. QED
  BY <1>3, <1>4, <1>5, <1>6, <1>7 DEF audit, all

\* More of a partial page takes no assertion back.
LEMMA GrownAsserts ==
    ASSUME NEW body, IsAudit(body), NEW page \in body.subjects \union body.competitors,
           ~page.complete, NEW line
    PROVE  Assertions(competitor_audit(body))
           \subseteq Assertions(competitor_audit(Known(body, page, line)))
<1>. DEFINE more == Grown(page, line)
            later == Known(body, page, line)
            all == body.subjects \union body.competitors
<1>1. /\ later.subjects = IF page \in body.subjects
                          THEN (body.subjects \ {page}) \union {more} ELSE body.subjects
      /\ later.competitors = IF page \in body.competitors
                             THEN (body.competitors \ {page}) \union {more} ELSE body.competitors
  BY DEF Known, Grown
<1>2. /\ more.source = page.source
      /\ \A d : Present(page, d) = "yes" => Present(more, d) = "yes"
      /\ TopicsOf(page) \subseteq TopicsOf(more)
  BY GrownKeeps DEF IsAudit
<1>. HIDE DEF more, later
<1>3. /\ \A p \in body.competitors : p # page => p \in later.competitors
      /\ \A p \in all : p # page => p \in later.subjects \union later.competitors
      /\ page \in body.competitors => more \in later.competitors
      /\ more \in later.subjects \union later.competitors
  BY <1>1
<1>4. ~SubjectPartial(body.subjects) => later.subjects = body.subjects
  BY <1>1 DEF SubjectPartial
<1>5. \A p \in body.competitors : \E q \in later.competitors :
         /\ \A d : Present(p, d) = "yes" => Present(q, d) = "yes"
         /\ TopicsOf(p) \subseteq TopicsOf(q)
  BY <1>2, <1>3
<1>6. \A d : Present(page, d) # "no" /\ (Present(page, d) # "unknown" => Present(page, d) = "yes")
  BY DEF Present
<1>. SUFFICES ASSUME NEW x \in Assertions(competitor_audit(body))
              PROVE  x \in Assertions(competitor_audit(later))
  BY DEF later
<1>7. CASE \E dim, signal : /\ Asserted(body, dim, signal)
                            /\ x = <<"gap", dim, signal>> \/ x = <<"do", dim, signal>>
  <2>1. PICK dim, signal : /\ Asserted(body, dim, signal)
                           /\ x = <<"gap", dim, signal>> \/ x = <<"do", dim, signal>>
    BY <1>7
  <2>2. Asserted(later, dim, signal)
    BY <1>4, <1>5, <2>1, AssertedStays
  <2>. QED
    BY <2>1, <2>2, AssertionsAre
<1>8. CASE \E p \in body.competitors : \E d \in Dimensions :
              Present(p, d) = "no" /\ x = <<"do", d, <<"page", p.owner>> >>
  <2>1. \E p \in later.competitors : \E d \in Dimensions :
              Present(p, d) = "no" /\ x = <<"do", d, <<"page", p.owner>> >>
    BY <1>3, <1>6, <1>8
  <2>. QED
    BY <2>1, AssertionsAre
<1>9. CASE \E p \in all : \E d \in Dimensions :
              Present(p, d) # "unknown" /\ x = <<p.source, d, Present(p, d)>>
  <2>1. PICK p \in all : \E d \in Dimensions :
              Present(p, d) # "unknown" /\ x = <<p.source, d, Present(p, d)>>
    BY <1>9
  <2>2. PICK d \in Dimensions : Present(p, d) # "unknown" /\ x = <<p.source, d, Present(p, d)>>
    BY <2>1
  <2>3. \E q \in later.subjects \union later.competitors :
           Present(q, d) # "unknown" /\ x = <<q.source, d, Present(q, d)>>
    <3>1. CASE p # page
      BY <1>3, <2>2, <3>1
    <3>2. CASE p = page
      <4>1. Present(page, d) = "yes" /\ Present(more, d) = "yes"
        BY <1>2, <1>6, <2>2, <3>2
      <4>2. x = <<more.source, d, Present(more, d)>>
        BY <1>2, <2>2, <3>2, <4>1
      <4>. QED
        BY <1>3, <4>1, <4>2
    <3>. QED
      BY <3>1, <3>2
  <2>. QED
    BY <2>3, AssertionsAre
<1>. QED
  BY <1>7, <1>8, <1>9, AssertionsAre

\* Whatever the rest of a partial page turns out to say, what an audit asserts
\* stays asserted: absence is never concluded from what was not supplied
\* (_analyze_page: present is None; content_gap: coverageUnknown).
THEOREM PartialPagesAssertNoAbsence == AnalysesSpec => []AssertionsSurvive
<1>1. AnsweredFromBody => AssertionsSurvive
  <2>. SUFFICES ASSUME AnsweredFromBody, Audited,
                       NEW page \in analysis.body.subjects \union analysis.body.competitors,
                       ~page.complete, NEW line
                PROVE  Assertions(analysis.artifact)
                       \subseteq Assertions(competitor_audit(Known(analysis.body, page, line)))
    BY DEF AssertionsSurvive
  <2>. DEFINE body == analysis.body
  <2>1. IsAudit(body) /\ analysis.artifact = competitor_audit(body)
    BY BodiesAreAudits DEF AnsweredFromBody
  <2>. HIDE DEF body
  <2>2. page \in body.subjects \union body.competitors
    BY DEF body
  <2>3. Assertions(competitor_audit(body)) \subseteq Assertions(competitor_audit(Known(body, page, line)))
    BY <2>1, <2>2, GrownAsserts
  <2>. QED
    BY <2>1, <2>3 DEF body
<1>. QED
  BY <1>1, AnswersAreFromBodies, PTL

-----------------------------------------------------------------------------
(* The plan of queries.                                                     *)

Made == "generatedHypothesis"

IsQuery(query) == query.marker \in DOMAIN IntentScore /\ query.tokens \in Nat

IsRow(row) == row.origin \in DOMAIN ProvenanceScore /\ IsQuery(row.query)

\* Scores are numbers, and a hypothesis has at most 5 + 40 + 20.
LEMMA RowScores ==
    ASSUME NEW row, IsRow(row)
    PROVE  Score(row) \in Nat /\ (row.origin = Made => Score(row) <= 65)
<1>1. IntentScore[row.query.marker] \in 0..40
  BY DEF IsRow, IsQuery, IntentScore
<1>2. ProvenanceScore[row.origin] \in Nat /\ (row.origin = Made => ProvenanceScore[row.origin] = 5)
  BY DEF IsRow, ProvenanceScore, Made
<1>3. SpecificityScore(row.query.tokens) \in 0..20
  BY DEF SpecificityScore
<1>. DEFINE a == ProvenanceScore[row.origin]
            b == IntentScore[row.query.marker]
            d == SpecificityScore(row.query.tokens)
<1>4. Score(row) = a + b + d
  BY DEF Score
<1>. HIDE DEF a, b, d
<1>5. a \in Nat /\ (row.origin = Made => a = 5) /\ b \in 0..40 /\ d \in 0..20
  BY <1>1, <1>2, <1>3 DEF a, b, d
<1>. QED
  BY <1>4, <1>5

\* The rows sorted: each once, and none after one of a lower score.
LEMMA SortedByScore ==
    ASSUME NEW T, NEW rows \in Seq(T), \A i \in 1..Len(rows) : Score(rows[i]) \in Nat
    PROVE  \E pi \in [1..Len(rows) -> 1..Len(rows)] :
              /\ ByScore(rows) = [k \in 1..Len(rows) |-> rows[pi[k]]]
              /\ \A i, j \in 1..Len(rows) : pi[i] = pi[j] => i = j
              /\ \A i \in 1..Len(rows) : \E k \in 1..Len(rows) : pi[k] = i
              /\ \A i, j \in 1..Len(rows) : i < j => Score(rows[pi[i]]) >= Score(rows[pi[j]])
<1>. DEFINE N == Len(rows)
            D == 1..N
            val(i) == Score(rows[i])
            A(i) == Ahead(rows, i)
            c(i) == Cardinality(A(i))
            place == [i \in D |-> c(i) + 1]
            pi == [k \in D |-> CHOOSE i \in D : k = c(i) + 1]
<1>1. N \in Nat /\ DOMAIN rows = D /\ \A i \in D : val(i) \in Nat
  OBVIOUS
<1>2. \A i : A(i) = {j \in D : val(j) > val(i) \/ (val(j) = val(i) /\ j < i)}
  BY <1>1 DEF Ahead
<1>3. IsFiniteSet(D) /\ Cardinality(D) = N
  BY <1>1, FS_Interval
<1>4. ByScore(rows) = [k \in D |-> rows[pi[k]]]
  BY <1>1 DEF ByScore
<1>. HIDE DEF N, val, A
<1>5. ASSUME NEW i \in D
      PROVE  IsFiniteSet(A(i)) /\ c(i) \in Nat /\ c(i) + 1 \in 1..N
  <2>1. A(i) \in SUBSET (D \ {i})
    BY <1>1, <1>2
  <2>2. IsFiniteSet(D \ {i}) /\ Cardinality(D \ {i}) = N - 1
    BY <1>3, FS_RemoveElement
  <2>3. IsFiniteSet(A(i)) /\ c(i) <= N - 1
    BY <2>1, <2>2, FS_Subset
  <2>4. c(i) \in Nat
    BY <2>3, FS_CardinalityType
  <2>. HIDE DEF c
  <2>. QED
    BY <1>1, <2>3, <2>4
<1>6. ASSUME NEW i \in D, NEW j \in D, i \in A(j) PROVE c(i) < c(j)
  <2>0. i \notin A(i) /\ i \in A(j)
    BY <1>1, <1>2, <1>6
  <2>00. ASSUME NEW x \in A(i) PROVE x \in A(j)
    <3>1. x \in D /\ (val(x) > val(i) \/ (val(x) = val(i) /\ x < i))
      BY <1>2
    <3>2. val(i) > val(j) \/ (val(i) = val(j) /\ i < j)
      BY <1>2, <2>0
    <3>3. val(x) \in Nat /\ val(i) \in Nat /\ val(j) \in Nat
      BY <1>1, <3>1
    <3>4. val(x) > val(j) \/ (val(x) = val(j) /\ x < j)
      BY <1>1, <3>1, <3>2, <3>3
    <3>. QED
      BY <1>2, <3>1, <3>4
  <2>1. A(i) \cup {i} \in SUBSET A(j) /\ i \notin A(i)
    BY <2>0, <2>00
  <2>2. Cardinality(A(i) \cup {i}) = c(i) + 1
    BY <1>5, <2>1, FS_AddElement
  <2>3. Cardinality(A(i) \cup {i}) <= c(j)
    BY <1>5, <2>1, FS_Subset
  <2>4. c(i) \in Nat /\ c(j) \in Nat
    BY <1>5
  <2>. HIDE DEF c
  <2>. QED
    BY <2>2, <2>3, <2>4
<1>7. \A i, j \in D : i # j => i \in A(j) \/ j \in A(i)
  BY <1>1, <1>2, SMTT(30)
<1>8. \A i, j \in D : c(i) + 1 = c(j) + 1 => i = j
  <2>. HIDE DEF c
  <2>. QED
    BY <1>5, <1>6, <1>7
<1>9. \A k \in D : \E i \in D : k = c(i) + 1
  <2>1. place \in Injection(D, D)
    BY <1>5, <1>8 DEF Injection, IsInjective
  <2>2. place \in Surjection(D, D)
    BY <1>3, <2>1, FS_Injection
  <2>. QED
    BY <2>2 DEF Surjection
<1>. HIDE DEF c, D
<1>10. \A k \in D : pi[k] \in D /\ k = c(pi[k]) + 1
  <2>. SUFFICES ASSUME NEW k \in D PROVE pi[k] \in D /\ k = c(pi[k]) + 1
    OBVIOUS
  <2>1. \E i \in D : k = c(i) + 1
    BY <1>9
  <2>. QED
    BY <2>1
<1>11. pi = [k \in D |-> pi[k]]
  OBVIOUS
<1>. HIDE DEF pi
<1>12. pi \in [D -> D] /\ \A i, j \in D : pi[i] = pi[j] => i = j
  BY <1>10, <1>11
<1>13. \A i \in D : \E k \in D : pi[k] = i
  <2>. SUFFICES ASSUME NEW i \in D PROVE \E k \in D : pi[k] = i
    OBVIOUS
  <2>1. c(i) + 1 \in D
    BY <1>5 DEF D
  <2>. QED
    BY <1>8, <1>10, <2>1
<1>14. \A i, j \in D : i < j => val(pi[i]) >= val(pi[j])
  <2>. SUFFICES ASSUME NEW i \in D, NEW j \in D, i < j PROVE val(pi[i]) >= val(pi[j])
    OBVIOUS
  <2>0. c(pi[i]) \in Nat /\ c(pi[j]) \in Nat /\ i = c(pi[i]) + 1 /\ j = c(pi[j]) + 1
    BY <1>5, <1>10
  <2>1. c(pi[i]) < c(pi[j])
    BY <2>0
  <2>2. pi[j] \notin A(pi[i])
    BY <1>5, <1>6, <1>10, <2>1
  <2>. QED
    BY <1>1, <1>2, <1>10, <2>2
<1>. QED
  BY <1>4, <1>12, <1>13, <1>14 DEF N, D, val

Asked(topics) == {Generated(t, f) : t \in ToSet(topics), f \in ToSet(Forms)}

IsTopics(topics) == topics \in Seq([tokens : Nat, marker : DOMAIN IntentScore])

\* Every query made of a topic can be scored.
LEMMA AskedAreQueries ==
    ASSUME NEW topics, IsTopics(topics), NEW query \in Asked(topics)
    PROVE  IsQuery(query)
<1>1. PICK t \in ToSet(topics), f \in ToSet(Forms) : query = Generated(t, f)
  BY DEF Asked
<1>2. t.tokens \in Nat /\ t.marker \in DOMAIN IntentScore
  <2>. DEFINE T == [tokens : Nat, marker : DOMAIN IntentScore]
  <2>1. t \in T
    <3>. HIDE DEF T
    <3>1. topics \in Seq(T)
      BY DEF IsTopics, T
    <3>2. \A i \in DOMAIN topics : topics[i] \in T
      BY <3>1
    <3>. QED
      BY <3>2 DEF ToSet
  <2>. QED
    BY <2>1
<1>3. "transactional" \in DOMAIN IntentScore
  BY DEF IntentScore
<1>4. query.marker \in {t.marker, "transactional"} /\ query.tokens \in {t.tokens + 2, t.tokens + 1}
  BY <1>1 DEF Generated
<1>. QED
  BY <1>2, <1>3, <1>4 DEF IsQuery

\* The loops over topics and templates make each of these queries, and no other.
LEMMA CandidatesAre ==
    ASSUME NEW topics, IsTopics(topics)
    PROVE  /\ Candidates(topics) \in Seq(Asked(topics))
           /\ \A query \in Asked(topics) : \E i \in DOMAIN Candidates(topics) :
                 Candidates(topics)[i] = query
<1>. DEFINE Q == Asked(topics)
            T == Seq(Q)
            made(t) == [f \in DOMAIN Forms |-> Generated(topics[t], Forms[f])]
            seqs == [t \in DOMAIN topics |-> made(t)]
            N == Len(topics)
<1>1. DOMAIN topics = 1..N /\ N \in Nat /\ DOMAIN Forms = 1..3
  BY DEF IsTopics, Forms
<1>2. \A t \in 1..N : made(t) \in T
  <2>. SUFFICES ASSUME NEW t \in 1..N PROVE made(t) \in T
    OBVIOUS
  <2>1. \A f \in 1..3 : made(t)[f] \in Q
    BY <1>1 DEF Asked, ToSet
  <2>. HIDE DEF Q
  <2>. QED
    BY <1>1, <2>1
<1>3. seqs \in Seq(T) /\ Len(seqs) = N
  <2>. HIDE DEF T, made, N
  <2>. QED
    BY <1>1, <1>2
<1>4. Candidates(topics) = FlattenSeq(seqs)
  BY DEF Candidates
<1>5. \A t \in 1..N : seqs[t] = made(t)
  BY <1>1
<1>. HIDE DEF seqs, Q
<1>6. FlattenSeq(seqs) \in Seq(Q)
  BY <1>3, FlattenTypes
<1>7. ASSUME NEW query \in Q PROVE \E i \in DOMAIN FlattenSeq(seqs) : FlattenSeq(seqs)[i] = query
  <2>1. PICK t \in 1..N, f \in 1..3 : query = Generated(topics[t], Forms[f])
    BY <1>1 DEF Q, Asked, ToSet
  <2>. DEFINE piece == seqs[t]
  <2>2. PICK a \in Seq(Q), b \in Seq(Q) : FlattenSeq(seqs) = (a \o piece) \o b
    <3>1. t \in 1..Len(seqs)
      BY <1>3
    <3>2. \E a, b \in Seq(Q) : FlattenSeq(seqs) = (a \o seqs[t]) \o b
      BY <1>3, <3>1, FlattenPart
    <3>. QED
      BY <3>2
  <2>3. piece \in Seq(Q) /\ f \in 1..Len(piece) /\ piece[f] = query
    <3>1. piece = [g \in 1..3 |-> Generated(topics[t], Forms[g])]
      BY <1>1, <1>5
    <3>2. piece \in Seq(Q)
      BY <1>2, <1>5
    <3>3. Len(piece) = 3
      BY <3>1, <3>2
    <3>. QED
      BY <2>1, <3>1, <3>2, <3>3
  <2>. HIDE DEF piece, made
  <2>4. /\ Len(a) + f \in 1..Len((a \o piece) \o b)
        /\ ((a \o piece) \o b)[Len(a) + f] = piece[f]
    BY <2>3
  <2>5. DOMAIN ((a \o piece) \o b) = 1..Len((a \o piece) \o b)
    BY <2>3
  <2>. QED
    BY <2>2, <2>3, <2>4, <2>5
<1>. QED
  BY <1>4, <1>6, <1>7 DEF Q

IsPlan(request) ==
    /\ request.max \in Nat
    /\ IsTopics(request.topics)
    /\ request.queries \in Seq(ToSet(request.queries))
    /\ \A row \in ToSet(request.queries) : IsRow(row) /\ row.origin # Made

\* The hypotheses are new, different from one another, and stop at the limit only.
LEMMA HypothesesAre ==
    ASSUME NEW request, IsPlan(request)
    PROVE  /\ Hypotheses(request) \in Seq([query : Asked(request.topics), origin : {Made}])
           /\ Len(Hypotheses(request)) <= request.max
           /\ \A k \in 1..Len(Hypotheses(request)) : IsNew(Hypotheses(request)[k].query, request)
           /\ \A j, k \in 1..Len(Hypotheses(request)) :
                 Hypotheses(request)[j].query = Hypotheses(request)[k].query => j = k
           /\ Len(Hypotheses(request)) < request.max =>
                 \A query \in Asked(request.topics) : IsNew(query, request) =>
                     \E k \in 1..Len(Hypotheses(request)) : Hypotheses(request)[k].query = query
<1>. DEFINE Q == Asked(request.topics)
            all == Candidates(request.topics)
            N == Len(all)
            ids == [i \in DOMAIN all |-> i]
            S == {i \in Distinct(all) : IsNew(all[i], request)}
            fresh == Fresh(all, request)
            max == request.max
            M == IF Len(fresh) < max THEN Len(fresh) ELSE max
            hs == Hypotheses(request)
<1>1. /\ all \in Seq(Q) /\ DOMAIN all = 1..N /\ N \in Nat /\ max \in Nat
      /\ \A query \in Q : \E i \in 1..N : all[i] = query
  <2>1. all \in Seq(Q) /\ max \in Nat
    BY CandidatesAre DEF IsPlan
  <2>2. DOMAIN all = 1..N /\ N \in Nat
    <3>. HIDE DEF all, Q
    <3>. QED
      BY <2>1
  <2>. QED
    BY <2>1, <2>2, CandidatesAre DEF IsPlan
<1>2. fresh = Filter(ids, S)
  BY DEF Fresh
<1>3. hs = [k \in 1..M |-> [query |-> all[fresh[k]], origin |-> Made]]
  BY DEF Hypotheses, Made
<1>4. \A i : i \in S <=> i \in 1..N /\ (\A j \in 1..(i - 1) : all[j] # all[i]) /\ IsNew(all[i], request)
  BY <1>1 DEF Distinct
<1>. HIDE DEF all, Q, fresh, hs, S, max
<1>5. ids \in Seq(1..N) /\ Len(ids) = N /\ CountsUp(ids)
  BY <1>1 DEF CountsUp
<1>. HIDE DEF N, ids
<1>6. /\ fresh \in Seq((1..N) \cap S) /\ ToSet(fresh) = (1..N) \cap S
      /\ \A i, j \in DOMAIN fresh : i < j => fresh[i] < fresh[j]
  <2>. DEFINE A == 1..N
  <2>1. A = 1..Len(ids) /\ ids \in Seq(A) /\ CountsUp(ids)
    BY <1>5
  <2>. HIDE DEF A
  <2>2. /\ Filter(ids, S) \in Seq(A \cap S) /\ ToSet(Filter(ids, S)) = A \cap S
        /\ \A i, j \in DOMAIN Filter(ids, S) : i < j => Filter(ids, S)[i] < Filter(ids, S)[j]
    BY <2>1, FilterPlaces
  <2>. QED
    BY <1>2, <2>2 DEF A
<1>7. /\ Len(fresh) \in Nat /\ DOMAIN fresh = 1..Len(fresh)
      /\ \A k \in 1..Len(fresh) : fresh[k] \in (1..N) \cap S
      /\ \A i \in (1..N) \cap S : \E k \in 1..Len(fresh) : fresh[k] = i
  <2>. DEFINE P == (1..N) \cap S
  <2>1. fresh \in Seq(P) /\ ToSet(fresh) = P
    BY <1>6
  <2>. HIDE DEF P
  <2>2. Len(fresh) \in Nat /\ DOMAIN fresh = 1..Len(fresh)
    BY <2>1
  <2>3. \A k \in 1..Len(fresh) : fresh[k] \in P
    BY <2>1
  <2>4. \A i \in P : \E k \in 1..Len(fresh) : fresh[k] = i
    BY <2>1, <2>2 DEF ToSet
  <2>. QED
    BY <2>2, <2>3, <2>4 DEF P
<1>8. M \in Nat /\ M <= max /\ M <= Len(fresh) /\ (M < max => M = Len(fresh))
  <2>. DEFINE L == Len(fresh)
  <2>1. L \in Nat /\ max \in Nat
    BY <1>1, <1>7
  <2>. HIDE DEF L
  <2>. QED
    BY <2>1
<1>. HIDE DEF M
<1>9. \A k \in 1..M : k \in 1..Len(fresh) /\ all[fresh[k]] \in Q /\ IsNew(all[fresh[k]], request)
  <2>. SUFFICES ASSUME NEW k \in 1..M
                PROVE  k \in 1..Len(fresh) /\ all[fresh[k]] \in Q /\ IsNew(all[fresh[k]], request)
    OBVIOUS
  <2>1. k \in 1..Len(fresh)
    <3>. DEFINE L == Len(fresh)
    <3>1. M \in Nat /\ L \in Nat /\ M <= L
      BY <1>7, <1>8
    <3>. HIDE DEF L
    <3>2. k \in 1..L
      BY <3>1
    <3>. QED
      BY <3>2 DEF L
  <2>2. fresh[k] \in 1..N /\ fresh[k] \in S
    BY <1>7, <2>1
  <2>3. \A i \in 1..N : all[i] \in Q
    BY <1>1
  <2>. QED
    BY <1>4, <2>1, <2>2, <2>3
<1>10. \A j, k \in 1..M : all[fresh[j]] = all[fresh[k]] => j = k
  <2>1. ASSUME NEW j \in 1..M, NEW k \in 1..M, j < k PROVE all[fresh[j]] # all[fresh[k]]
    <3>1. fresh[j] < fresh[k] /\ fresh[j] \in 1..N /\ fresh[k] \in S
      BY <1>6, <1>7, <1>9, <2>1
    <3>2. fresh[k] \in 1..N
      BY <1>4, <3>1
    <3>3. fresh[j] \in 1..(fresh[k] - 1)
      BY <1>1, <3>1, <3>2
    <3>. QED
      BY <1>4, <3>1, <3>3
  <2>2. \A j, k \in 1..M : j # k => j < k \/ k < j
    BY <1>8
  <2>. QED
    BY <2>1, <2>2
<1>11. ASSUME NEW query \in Q, IsNew(query, request), M < max
       PROVE  \E k \in 1..M : all[fresh[k]] = query
  <2>. DEFINE at == {i \in 1..N : all[i] = query}
  <2>1. at \in SUBSET Nat /\ at # {}
    BY <1>1, <1>11
  <2>. HIDE DEF at
  <2>2. PICK i \in at : \A j \in at : i <= j
    BY <2>1, LeastNat
  <2>3. i \in 1..N /\ all[i] = query
    BY DEF at
  <2>4. \A j \in 1..(i - 1) : all[j] # all[i]
    <3>. SUFFICES ASSUME NEW j \in 1..(i - 1), all[j] = all[i] PROVE FALSE
      OBVIOUS
    <3>1. j \in 1..N /\ j < i
      BY <1>1, <2>3
    <3>2. j \in at
      BY <2>3, <3>1 DEF at
    <3>. QED
      BY <1>1, <2>2, <2>3, <3>1, <3>2
  <2>5. i \in S
    BY <1>4, <1>11, <2>3, <2>4
  <2>. QED
    BY <1>7, <1>8, <1>11, <2>3, <2>5
<1>12. Len(hs) = M /\ \A k \in 1..M : hs[k].query = all[fresh[k]]
  BY <1>3, <1>8
<1>13. hs \in Seq([query : Q, origin : {Made}])
  <2>. DEFINE R == [query : Q, origin : {Made}]
  <2>1. \A k \in 1..M : [query |-> all[fresh[k]], origin |-> Made] \in R
    BY <1>9
  <2>. HIDE DEF R
  <2>2. hs \in [1..M -> R]
    BY <1>3, <2>1
  <2>. QED
    BY <1>8, <2>2, OfLength DEF R
<1>14. Len(hs) <= max
  BY <1>8, <1>12
<1>15. \A k \in 1..M : IsNew(hs[k].query, request)
  BY <1>9, <1>12
<1>16. \A j, k \in 1..M : hs[j].query = hs[k].query => j = k
  BY <1>10, <1>12
<1>17. M < max => \A query \in Q : IsNew(query, request) => \E k \in 1..M : hs[k].query = query
  BY <1>11, <1>12
<1>. QED
  BY <1>12, <1>13, <1>14, <1>15, <1>16, <1>17 DEF hs, Q, max

\* What PlanInventsNoDemand says of a plan.
MadePlaces(plan) == {i \in DOMAIN plan : plan[i].origin = Made}

QueriesAt(plan, places) == {plan[i].query : i \in places}

KeepsDemand(plan, request) ==
    LET made == MadePlaces(plan)
        supplied == (DOMAIN plan) \ made
    IN  /\ Cardinality(supplied) = Len(request.queries)
        /\ {plan[i] : i \in supplied} = ToSet(request.queries)
        /\ \A i, j \in made : plan[i].query = plan[j].query => i = j
        /\ QueriesAt(plan, made) \intersect QueriesAt(plan, supplied) = {}
        /\ Cardinality(made) <= request.max
        /\ Cardinality(made) < request.max =>
              \A query \in Asked(request.topics) : query \in QueriesAt(plan, DOMAIN plan)
        /\ \A i \in made : Tier(plan[i]) # "high"
        /\ \A i, j \in DOMAIN plan : i < j => Score(plan[i]) >= Score(plan[j])

\* Sorting the supplied rows and the hypotheses loses and doubles none of them.
LEMMA PlanKeepsDemand ==
    ASSUME NEW request, IsPlan(request)
    PROVE  KeepsDemand(query_plan(request), request)
<1>. DEFINE given == request.queries
            hs == Hypotheses(request)
            rows == given \o hs
            plan == query_plan(request)
            K == Len(given)
            H == Len(hs)
            N == K + H
            Q == Asked(request.topics)
            R == ToSet(given) \cup [query : Q, origin : {Made}]
            max == request.max
<1>1. /\ given \in Seq(ToSet(given)) /\ hs \in Seq([query : Q, origin : {Made}])
      /\ K \in Nat /\ H \in Nat /\ max \in Nat /\ H <= max
      /\ DOMAIN given = 1..K
  BY HypothesesAre DEF IsPlan
<1>2. /\ \A k \in 1..H : hs[k].origin = Made /\ hs[k].query \in Q /\ IsNew(hs[k].query, request)
      /\ \A k \in 1..H : hs[k].origin = Made /\ IsRow(hs[k])
  <2>1. \A k \in 1..H : hs[k] \in [query : Q, origin : {Made}]
    <3>. DEFINE Y == [query : Q, origin : {Made}]
    <3>1. hs \in Seq(Y)
      BY <1>1
    <3>. HIDE DEF hs, Y
    <3>2. \A k \in 1..Len(hs) : hs[k] \in Y
      BY <3>1
    <3>. QED
      BY <3>2 DEF Y
  <2>2. \A k \in 1..H : IsNew(hs[k].query, request)
    BY HypothesesAre
  <2>3. Made \in DOMAIN ProvenanceScore
    BY DEF ProvenanceScore, Made
  <2>4. \A query \in Q : IsQuery(query)
    BY AskedAreQueries DEF IsPlan
  <2>. HIDE DEF hs, Q
  <2>5. \A k \in 1..H : hs[k].origin = Made /\ hs[k].query \in Q
    BY <2>1
  <2>. QED
    BY <2>2, <2>3, <2>4, <2>5 DEF IsRow
<1>3. \A i \in 1..K : given[i] \in ToSet(given) /\ IsRow(given[i]) /\ given[i].origin # Made
  BY <1>1 DEF IsPlan, ToSet
<1>4. /\ \A j, k \in 1..H : hs[j].query = hs[k].query => j = k
      /\ H < max => \A query \in Q : IsNew(query, request) => \E k \in 1..H : hs[k].query = query
  BY HypothesesAre
<1>5. plan = ByScore(rows)
  BY DEF query_plan
<1>. HIDE DEF given, hs, plan, Q, max
<1>6. /\ rows \in Seq(R) /\ Len(rows) = N
      /\ \A i \in 1..K : rows[i] = given[i]
      /\ \A k \in 1..H : rows[K + k] = hs[k]
  <2>1. given \in Seq(R) /\ hs \in Seq(R)
    <3>. DEFINE X == ToSet(given)
                Y == [query : Q, origin : {Made}]
    <3>1. given \in Seq(X) /\ hs \in Seq(Y) /\ R = X \cup Y
      BY <1>1
    <3>. HIDE DEF X, Y, R
    <3>2. Seq(X) \subseteq Seq(R) /\ Seq(Y) \subseteq Seq(R)
      <4>1. \A s \in Seq(X) : s \in Seq(R)
        BY <3>1
      <4>2. \A s \in Seq(Y) : s \in Seq(R)
        BY <3>1
      <4>. QED
        BY <4>1, <4>2
    <3>. QED
      BY <3>1, <3>2
  <2>. HIDE DEF R
  <2>. QED
    BY <2>1
<1>. HIDE DEF rows, K, H, R
<1>7. N \in Nat /\ \A i \in 1..N : i \in 1..K \/ (i - K \in 1..H /\ i = K + (i - K))
  BY <1>1
<1>8. \A k \in 1..H : K + k \in 1..N /\ K + k \notin 1..K
  BY <1>1
<1>9. 1..K \subseteq 1..N
  BY <1>1
<1>10. \A i \in 1..N : IsRow(rows[i]) /\ (rows[i].origin = Made <=> i \notin 1..K)
  <2>. SUFFICES ASSUME NEW i \in 1..N
                PROVE  IsRow(rows[i]) /\ (rows[i].origin = Made <=> i \notin 1..K)
    OBVIOUS
  <2>1. CASE i \in 1..K
    BY <1>3, <1>6, <2>1
  <2>2. CASE i \notin 1..K
    <3>1. PICK k \in 1..H : i = K + k
      BY <1>7, <2>2
    <3>. QED
      BY <1>2, <1>6, <2>2, <3>1
  <2>. QED
    BY <2>1, <2>2
<1>. HIDE DEF N
<1>11. PICK pi \in [1..N -> 1..N] :
          /\ plan = [k \in 1..N |-> rows[pi[k]]]
          /\ \A i, j \in 1..N : pi[i] = pi[j] => i = j
          /\ \A i \in 1..N : \E k \in 1..N : pi[k] = i
          /\ \A i, j \in 1..N : i < j => Score(rows[pi[i]]) >= Score(rows[pi[j]])
  <2>1. \A i \in 1..Len(rows) : Score(rows[i]) \in Nat
    BY <1>6, <1>10, RowScores
  <2>2. \E pi \in [1..Len(rows) -> 1..Len(rows)] :
              /\ ByScore(rows) = [k \in 1..Len(rows) |-> rows[pi[k]]]
              /\ \A i, j \in 1..Len(rows) : pi[i] = pi[j] => i = j
              /\ \A i \in 1..Len(rows) : \E k \in 1..Len(rows) : pi[k] = i
              /\ \A i, j \in 1..Len(rows) : i < j => Score(rows[pi[i]]) >= Score(rows[pi[j]])
    <3>1. rows \in Seq(R)
      BY <1>6
    <3>. QED
      BY <2>1, <3>1, SortedByScore
  <2>. QED
    BY <1>5, <1>6, <2>2, ZenonT(40)
<1>. DEFINE made == MadePlaces(plan)
            supplied == (DOMAIN plan) \ made
<1>12. DOMAIN plan = 1..N /\ \A i \in 1..N : plan[i] = rows[pi[i]] /\ pi[i] \in 1..N
  BY <1>11
<1>13. made = {i \in 1..N : pi[i] \notin 1..K} /\ supplied = {i \in 1..N : pi[i] \in 1..K}
  <2>1. \A i \in 1..N : plan[i].origin = Made <=> pi[i] \notin 1..K
    BY <1>10, <1>12
  <2>. QED
    BY <1>12, <2>1 DEF MadePlaces
<1>. HIDE DEF made, supplied
<1>14. Cardinality(supplied) = K
  <2>. DEFINE f == [i \in supplied |-> pi[i]]
  <2>1. \A i \in supplied : pi[i] \in 1..K /\ i \in 1..N
    BY <1>13
  <2>2. f \in Bijection(supplied, 1..K)
    <3>1. f \in Injection(supplied, 1..K)
      BY <1>11, <2>1 DEF Injection, IsInjective
    <3>2. \A n \in 1..K : \E i \in supplied : f[i] = n
      BY <1>9, <1>11, <1>13
    <3>4. f \in [supplied -> 1..K]
      BY <2>1
    <3>. HIDE DEF f
    <3>5. f \in Surjection(supplied, 1..K)
      BY <3>2, <3>4 DEF Surjection
    <3>. QED
      BY <3>1, <3>5 DEF Bijection
  <2>3. IsFiniteSet(1..K) /\ Cardinality(1..K) = K
    BY <1>1, FS_Interval
  <2>4. IsFiniteSet(supplied)
    <3>1. IsFiniteSet(1..N)
      BY <1>7, FS_Interval
    <3>2. supplied \in SUBSET (1..N)
      BY <1>13
    <3>. QED
      BY <3>1, <3>2, FS_Subset
  <2>5. ExistsBijection(supplied, 1..K)
    BY <2>2 DEF ExistsBijection
  <2>. HIDE DEF f
  <2>. QED
    BY <2>3, <2>4, <2>5, FS_Bijection
<1>15. Cardinality(made) = H
  <2>. DEFINE f == [i \in made |-> pi[i] - K]
  <2>1. \A i \in made : pi[i] - K \in 1..H /\ i \in 1..N /\ pi[i] = K + (pi[i] - K)
    BY <1>7, <1>12, <1>13
  <2>2. f \in Bijection(made, 1..H)
    <3>1. \A i, j \in made : pi[i] - K = pi[j] - K => i = j
      <4>. SUFFICES ASSUME NEW i \in made, NEW j \in made, pi[i] - K = pi[j] - K PROVE i = j
        OBVIOUS
      <4>1. pi[i] = pi[j]
        BY <2>1
      <4>. QED
        BY <1>11, <2>1, <4>1
    <3>2. f \in Injection(made, 1..H)
      BY <2>1, <3>1 DEF Injection, IsInjective
    <3>3. \A n \in 1..H : \E i \in made : f[i] = n
      <4>. SUFFICES ASSUME NEW n \in 1..H PROVE \E i \in made : f[i] = n
        OBVIOUS
      <4>1. PICK i \in 1..N : pi[i] = K + n
        BY <1>8, <1>11
      <4>2. i \in made
        BY <1>8, <1>13, <4>1
      <4>3. pi[i] - K = n
        BY <1>1, <4>1
      <4>. QED
        BY <4>2, <4>3
    <3>4. f \in [made -> 1..H]
      BY <2>1
    <3>. HIDE DEF f
    <3>5. f \in Surjection(made, 1..H)
      BY <3>3, <3>4 DEF Surjection
    <3>. QED
      BY <3>2, <3>5 DEF Bijection
  <2>3. IsFiniteSet(1..H) /\ Cardinality(1..H) = H
    BY <1>1, FS_Interval
  <2>4. IsFiniteSet(made)
    <3>1. IsFiniteSet(1..N)
      BY <1>7, FS_Interval
    <3>2. made \in SUBSET (1..N)
      BY <1>13
    <3>. QED
      BY <3>1, <3>2, FS_Subset
  <2>5. ExistsBijection(made, 1..H)
    BY <2>2 DEF ExistsBijection
  <2>. HIDE DEF f
  <2>. QED
    BY <2>3, <2>4, <2>5, FS_Bijection
<1>16. {plan[i] : i \in supplied} = ToSet(given)
  <2>1. ASSUME NEW i \in supplied PROVE plan[i] \in ToSet(given)
    <3>1. i \in 1..N /\ pi[i] \in 1..K
      BY <1>13, <2>1
    <3>. QED
      BY <1>3, <1>6, <1>12, <3>1
  <2>2. ASSUME NEW row \in ToSet(given) PROVE \E i \in supplied : plan[i] = row
    <3>1. PICK n \in 1..K : given[n] = row
      BY <1>1 DEF ToSet
    <3>2. PICK i \in 1..N : pi[i] = n
      BY <1>9, <1>11
    <3>. QED
      BY <1>6, <1>12, <1>13, <3>1, <3>2
  <2>. QED
    BY <2>1, <2>2
<1>17. \A i \in made : \E k \in 1..H : pi[i] = K + k /\ plan[i] = hs[k] /\ i \in 1..N
  <2>. SUFFICES ASSUME NEW i \in made
                PROVE  \E k \in 1..H : pi[i] = K + k /\ plan[i] = hs[k] /\ i \in 1..N
    OBVIOUS
  <2>1. i \in 1..N /\ pi[i] \in 1..N /\ pi[i] \notin 1..K
    BY <1>12, <1>13
  <2>2. PICK k \in 1..H : pi[i] = K + k
    BY <1>7, <2>1
  <2>. QED
    BY <1>6, <1>12, <2>1, <2>2
<1>18. \A i, j \in made : plan[i].query = plan[j].query => i = j
  <2>. SUFFICES ASSUME NEW i \in made, NEW j \in made, plan[i].query = plan[j].query PROVE i = j
    OBVIOUS
  <2>1. PICK k \in 1..H : pi[i] = K + k /\ plan[i] = hs[k] /\ i \in 1..N
    BY <1>17
  <2>2. PICK l \in 1..H : pi[j] = K + l /\ plan[j] = hs[l] /\ j \in 1..N
    BY <1>17
  <2>3. k = l
    BY <1>4, <2>1, <2>2
  <2>. QED
    BY <1>11, <2>1, <2>2, <2>3
<1>19. QueriesAt(plan, made) \intersect QueriesAt(plan, supplied) = {}
  <2>. SUFFICES ASSUME NEW i \in made, NEW j \in supplied, plan[i].query = plan[j].query PROVE FALSE
    BY DEF QueriesAt
  <2>1. PICK k \in 1..H : plan[i] = hs[k]
    BY <1>17
  <2>2. plan[j] \in ToSet(given)
    BY <1>16
  <2>. QED
    BY <1>2, <2>1, <2>2 DEF IsNew, given
<1>20. \A n \in 1..N : rows[n].query \in QueriesAt(plan, DOMAIN plan)
  <2>. SUFFICES ASSUME NEW n \in 1..N PROVE rows[n].query \in QueriesAt(plan, DOMAIN plan)
    OBVIOUS
  <2>1. PICK i \in 1..N : pi[i] = n
    BY <1>11
  <2>. QED
    BY <1>12, <2>1 DEF QueriesAt
<1>21. H < max => \A query \in Q : query \in QueriesAt(plan, DOMAIN plan)
  <2>. SUFFICES ASSUME H < max, NEW query \in Q PROVE query \in QueriesAt(plan, DOMAIN plan)
    OBVIOUS
  <2>1. CASE IsNew(query, request)
    <3>1. PICK k \in 1..H : hs[k].query = query
      BY <1>4, <2>1
    <3>. QED
      BY <1>6, <1>8, <1>20, <3>1
  <2>2. CASE ~IsNew(query, request)
    <3>1. PICK row \in ToSet(given) : row.query = query
      BY <2>2 DEF IsNew, given
    <3>2. PICK n \in 1..K : given[n] = row
      BY <1>1 DEF ToSet
    <3>. QED
      BY <1>6, <1>9, <1>20, <3>1, <3>2
  <2>. QED
    BY <2>1, <2>2
<1>22. \A i \in made : Tier(plan[i]) # "high"
  <2>. SUFFICES ASSUME NEW i \in made PROVE Tier(plan[i]) # "high"
    OBVIOUS
  <2>1. PICK k \in 1..H : plan[i] = hs[k]
    BY <1>17
  <2>2. Score(plan[i]) \in Nat /\ Score(plan[i]) <= 65
    BY <1>2, <2>1, RowScores
  <2>3. ~(Score(plan[i]) >= 70)
    BY <2>2
  <2>. QED
    BY <2>3 DEF Tier
<1>23. \A i, j \in DOMAIN plan : i < j => Score(plan[i]) >= Score(plan[j])
  BY <1>11, <1>12
<1>24. Cardinality(made) <= max /\ (Cardinality(made) < max => H < max)
  BY <1>1, <1>15
<1>25. Cardinality(made) < max => \A query \in Q : query \in QueriesAt(plan, DOMAIN plan)
  BY <1>21, <1>24
<1>. QED
  BY <1>14, <1>16, <1>18, <1>19, <1>22, <1>23, <1>24, <1>25
  DEF KeepsDemand, made, supplied, given, K, Q, max, plan

PlannedFromBody ==
    analysis.route = "plan" =>
        /\ analysis.body \in PlanBodies /\ ValidPlan(analysis.body)
        /\ analysis.artifact = query_plan(analysis.body)

LEMMA BodiesArePlans ==
    ASSUME NEW body \in PlanBodies, ValidPlan(body)
    PROVE  IsPlan(body)
BY PlanBodiesAssumption DEF ValidPlan, IsPlan, IsTopics, IsRow, IsQuery, Made

\* Every supplied query is in the plan and nothing besides but distinct
\* hypotheses, none of which repeats one of those or gets a high priority
\* (query_plan), for every list of queries and topics and every limit.
THEOREM PlansInventNoDemand == AnalysesSpec => []PlanInventsNoDemand
<1>1. AnalysesInit => PlannedFromBody
  BY DEF AnalysesInit, None, PlannedFromBody
<1>2. PlannedFromBody /\ [AnalysesNext]_analysis => PlannedFromBody'
  <2>. SUFFICES ASSUME PlannedFromBody, [AnalysesNext]_analysis PROVE PlannedFromBody'
    OBVIOUS
  <2>1. ASSUME NEW body \in AuditBodies, Audit(body) PROVE PlannedFromBody'
    BY <2>1 DEF Audit, PlannedFromBody
  <2>2. ASSUME NEW body \in PlanBodies, Plan(body) PROVE PlannedFromBody'
    BY <2>2 DEF Plan, PlannedFromBody
  <2>3. CASE Sent
    BY <2>3 DEF Sent, None, PlannedFromBody
  <2>4. CASE UNCHANGED analysis
    BY <2>4 DEF PlannedFromBody
  <2>. QED
    BY <2>1, <2>2, <2>3, <2>4 DEF AnalysesNext
<1>3. PlannedFromBody => PlanInventsNoDemand
  <2>. SUFFICES ASSUME PlannedFromBody, analysis.route = "plan" PROVE PlanInventsNoDemand
    BY DEF PlanInventsNoDemand
  <2>. DEFINE body == analysis.body
              plan == analysis.artifact
  <2>1. IsPlan(body) /\ plan = query_plan(body)
    BY BodiesArePlans DEF PlannedFromBody
  <2>. HIDE DEF body, plan
  <2>2. KeepsDemand(plan, body)
    BY <2>1, PlanKeepsDemand
  <2>3. \A t \in ToSet(body.topics) : \A f \in ToSet(Forms) : Generated(t, f) \in Asked(body.topics)
    BY DEF Asked
  <2>. QED
    BY <2>2, <2>3 DEF PlanInventsNoDemand, KeepsDemand, MadePlaces, QueriesAt, Made, body, plan
<1>. QED
  BY <1>1, <1>2, <1>3, PTL DEF AnalysesSpec
=============================================================================
