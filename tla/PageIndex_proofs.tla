--------------------------- MODULE PageIndex_proofs ---------------------------
(***************************************************************************)
(* What an index attempt leaves in the collection, for every corpus of pages, *)
(* every size of window and batch, and wherever attempts fail: each point has *)
(* the vector of its text, one page owns a text, what is sent to the model    *)
(* fits it, what is quarantined is what failed, the counters add up, and each *)
(* short passage of a run that completes can be quoted.                      *)
(***************************************************************************)
EXTENDS PageIndex, Lists_proofs, FiniteSetTheorems, SequenceTheorems

-----------------------------------------------------------------------------
(* Windows: whatever the size and the overlap, a window is a nonempty slice   *)
(* of its text that measures no more than the size.                          *)

\* The texts that fit a size.
Fitting(size) == {t \in Seq(Tokens) : t # <<>> /\ Measure(t) <= size}

\* A slice of a text measures no more than the text.
LEMMA SliceMeasures ==
    ASSUME NEW text \in Seq(Tokens), NEW i \in 1..Len(text), NEW j \in i..Len(text)
    PROVE  /\ Measure(text) \in Nat
           /\ SubSeq(text, i, j) \in Fitting(Measure(text))
<1>. DEFINE s == SubSeq(text, i, j)
<1>1. s \in Seq(Tokens) /\ Len(s) = j - i + 1 /\ s # <<>> /\ s[1] = text[i]
  OBVIOUS
<1>2. Head(s) = s[1] /\ Head(text) = text[1] /\ text # <<>>
  BY <1>1
<1>3. Measure(text) \in Nat /\ Measure(text) >= Len(text)
  BY DEF Measure
<1>4. Measure(s) <= Measure(text)
  <2>1. CASE i = 1
    <3>. HIDE DEF s
    <3>. QED
      BY <1>1, <1>2, <2>1 DEF Measure
  <2>2. CASE i # 1
    <3>1. Len(s) + 1 <= Len(text)
      BY <1>1, <2>2
    <3>. HIDE DEF s
    <3>. QED
      BY <1>1, <1>3, <3>1 DEF Measure
  <2>. QED
    BY <2>1, <2>2
<1>. QED
  BY <1>1, <1>3, <1>4 DEF Fitting

\* The window that _fit_window cuts measures no more than asked, nor than its text.
LEMMA WindowFits ==
    ASSUME NEW text \in Seq(Tokens), NEW start \in Nat, NEW end \in 0..Len(text), NEW size \in Nat
    PROVE  LET w == FitWindow(text, start, end, size)
           IN  w.piece # <<>> => w.piece \in Fitting(size) \cap Fitting(Measure(text))
<1>. DEFINE fits == {e \in (start + 1)..end : Measure(SubSeq(text, start + 1, e)) <= size}
            w == FitWindow(text, start, end, size)
<1>1. CASE fits = {}
  <2>1. w.piece = <<>>
    BY <1>1 DEF FitWindow
  <2>. QED
    BY <2>1
<1>2. CASE fits # {}
  <2>1. w.piece = SubSeq(text, start + 1, Max(fits))
    BY <1>2 DEF FitWindow
  <2>2. Max(fits) \in fits
    <3>1. fits \in SUBSET (0..Len(text)) /\ Len(text) \in Nat
      OBVIOUS
    <3>. HIDE DEF fits
    <3>. QED
      BY <1>2, <3>1, GreatestIsMax
  <2>3. PICK e \in (start + 1)..end :
           e = Max(fits) /\ Measure(SubSeq(text, start + 1, e)) <= size
    BY <2>2
  <2>4. start + 1 \in 1..Len(text) /\ e \in (start + 1)..Len(text)
    OBVIOUS
  <2>5. SubSeq(text, start + 1, e) \in Fitting(Measure(text))
    BY <2>4, SliceMeasures
  <2>. QED
    BY <2>1, <2>3, <2>5 DEF Fitting
<1>. QED
  BY <1>1, <1>2

\* Each window of a text fits its size, and measures no more than the text.
LEMMA ChunksFit ==
    ASSUME NEW text \in Seq(Tokens), NEW size \in Nat, NEW overlap \in Nat, overlap < size
    PROVE  ChunkText(text, size, overlap) \in Seq(Fitting(size) \cap Fitting(Measure(text)))
<1>. DEFINE fit == Fitting(size) \cap Fitting(Measure(text))
            step == Step(size, overlap)
            window(k) == FitWindow(text, k * step, Min({k * step + size, Len(text)}), size)
            stops == {k \in 0..Len(text) : \/ window(k).end >= Len(text)
                                           \/ (k + 1) * step >= Len(text)}
            last == Min(stops)
            pieces == [k \in 1..(last + 1) |-> window(k - 1).piece]
<1>1. CASE text = <<>>
  BY <1>1 DEF ChunkText
<1>2. CASE text # <<>>
  <2>1. step \in Nat \ {0}
    BY DEF Step
  <2>2. last \in Nat
    <3>1. stops \in SUBSET Nat
      <4>. HIDE DEF window
      <4>. QED
        OBVIOUS
    <3>2. Len(text) \in stops
      <4>1. (Len(text) + 1) * step >= Len(text)
        <5>. HIDE DEF step
        <5>1. (Len(text) + 1) * step >= Len(text) + 1 /\ (Len(text) + 1) * step \in Nat
          BY <2>1, Multiple
        <5>. QED
          BY <5>1
      <4>. HIDE DEF window, step
      <4>. QED
        BY <4>1
    <3>. HIDE DEF stops
    <3>. QED
      BY <3>1, <3>2, LeastIsMin
  <2>3. ASSUME NEW k \in Nat PROVE window(k).piece \in fit \cup {<<>>}
    <3>. DEFINE start == k * step
                ends == {start + size, Len(text)}
    <3>1. start \in Nat
      <4>. HIDE DEF step
      <4>. QED
        BY <2>1, Multiple
    <3>. HIDE DEF start
    <3>2. Min(ends) \in 0..Len(text)
      <4>1. ends \in SUBSET Nat /\ ends # {} /\ Len(text) \in ends
        BY <3>1
      <4>. HIDE DEF ends
      <4>2. Min(ends) \in ends /\ \A n \in ends : Min(ends) <= n
        BY <4>1, LeastIsMin
      <4>3. Min(ends) \in Nat /\ Min(ends) <= Len(text)
        BY <4>1, <4>2
      <4>. QED
        BY <4>3
    <3>. HIDE DEF ends
    <3>3. FitWindow(text, start, Min(ends), size).piece \in fit \cup {<<>>}
      BY <3>1, <3>2, WindowFits
    <3>. QED
      BY <3>3 DEF start, ends
  <2>4. pieces \in Seq(fit \cup {<<>>})
    <3>. HIDE DEF window, last, fit
    <3>. QED
      BY <2>2, <2>3
  <2>5. ChunkText(text, size, overlap) = Filter(pieces, ToSet(pieces) \ {<<>>})
    BY <1>2 DEF ChunkText
  <2>6. Filter(pieces, ToSet(pieces) \ {<<>>})
            \in Seq((fit \cup {<<>>}) \cap (ToSet(pieces) \ {<<>>}))
    <3>. HIDE DEF pieces, fit
    <3>. QED
      BY <2>4, FilterTypes
  <2>. HIDE DEF pieces, fit
  <2>7. (fit \cup {<<>>}) \cap (ToSet(pieces) \ {<<>>}) \subseteq fit
    OBVIOUS
  <2>. QED
    BY <2>5, <2>6, <2>7, SeqMonotonic DEF fit
<1>. QED
  BY <1>1, <1>2

-----------------------------------------------------------------------------
(* From blocks to nodes: every node of a page is of that page, and its text   *)
(* fits a parent.                                                            *)

BlockType   == [kind : STRING, text : Seq(Tokens)]
SectionType == [title : Seq(Tokens), text : Seq(Tokens) \ {<<>>}]
ParentType  == [text : Fitting(ParentSize), title : Seq(Tokens)]
UnitType    == [parent : Nat, parentText : Fitting(ParentSize),
                childText : Fitting(ParentSize), title : Seq(Tokens)]
NodeType(id) == [page : {id}, key : {"parent", "child"} \X Nat, text : Fitting(ParentSize)]

\* The plain text of blocks is a sequence of tokens.
LEMMA PlainTextTypes ==
    ASSUME NEW blocks \in Seq(BlockType)
    PROVE  PlainText(blocks) \in Seq(Tokens)
<1>. DEFINE texts == [i \in DOMAIN blocks |-> blocks[i].text]
<1>1. texts \in Seq(Seq(Tokens))
  <2>1. DOMAIN blocks = 1..Len(blocks) /\ Len(blocks) \in Nat
    OBVIOUS
  <2>2. ASSUME NEW i \in DOMAIN blocks PROVE blocks[i].text \in Seq(Tokens)
    <3>1. blocks[i] \in BlockType
      OBVIOUS
    <3>. QED
      BY <3>1 DEF BlockType
  <2>. DEFINE T == Seq(Tokens)
  <2>3. texts \in [1..Len(blocks) -> T]
    BY <2>1, <2>2
  <2>. HIDE DEF T, texts
  <2>4. texts \in Seq(T)
    BY <2>1, <2>3
  <2>. QED
    BY <2>4 DEF T
<1>. HIDE DEF texts
<1>2. FlattenSeq(texts) \in Seq(Tokens)
  BY <1>1, FlattenTypes
<1>. QED
  BY <1>2 DEF PlainText, texts

\* A section has a text that is a sequence of tokens.
LEMMA SectionTypes ==
    ASSUME NEW blocks \in Seq(BlockType)
    PROVE  Sections(blocks) \in Seq(SectionType)
<1>. DEFINE N == Len(blocks)
            opens == {i \in DOMAIN blocks : i = 1 \/ blocks[i].kind = "heading"}
            close(i) == Min({j \in opens : j > i} \cup {Len(blocks) + 1}) - 1
            section(i) ==
                [title |-> IF blocks[i].kind = "heading" THEN blocks[i].text ELSE NoTitle,
                 text  |-> PlainText(SubSeq(blocks, i, close(i)))]
            places == [i \in DOMAIN blocks |-> i]
            first == Filter(places, opens)
            rendered == [n \in DOMAIN first |-> section(first[n])]
            Rendered == [title : Seq(Tokens), text : Seq(Tokens)]
<1>1. N \in Nat /\ DOMAIN blocks = 1..N
  OBVIOUS
<1>2. ASSUME NEW i \in 1..N PROVE section(i) \in Rendered
  <2>. DEFINE after == {j \in opens : j > i} \cup {N + 1}
  <2>1. after \in SUBSET Nat /\ after # {} /\ N + 1 \in after /\ \A j \in after : j > i
    BY <1>1
  <2>2. Min(after) \in Nat /\ Min(after) > i /\ Min(after) <= N + 1
    <3>. HIDE DEF after
    <3>1. Min(after) \in after /\ \A n \in after : Min(after) <= n
      BY <2>1, LeastIsMin
    <3>. QED
      BY <2>1, <3>1
  <2>. HIDE DEF after
  <2>3. Min(after) - 1 \in i..N
    BY <1>1, <2>2
  <2>4. SubSeq(blocks, i, Min(after) - 1) \in Seq(BlockType)
    <3>. HIDE DEF N
    <3>. QED
      BY <1>1, <2>3, SubSeqProperties DEF N
  <2>5. PlainText(SubSeq(blocks, i, Min(after) - 1)) \in Seq(Tokens)
    BY <2>4, PlainTextTypes
  <2>6. blocks[i].text \in Seq(Tokens)
    <3>1. blocks[i] \in BlockType
      BY <1>1
    <3>. QED
      BY <3>1 DEF BlockType
  <2>7. NoTitle \in Seq(Tokens)
    BY DEF NoTitle
  <2>. QED
    BY <2>5, <2>6, <2>7 DEF after
<1>3. first \in Seq(1..N)
  <2>1. places \in Seq(1..N)
    BY <1>1
  <2>. HIDE DEF places, opens, N
  <2>2. first \in Seq((1..N) \cap opens)
    BY <2>1, FilterTypes
  <2>. QED
    BY <2>2, SeqMonotonic
<1>. HIDE DEF section, first
<1>4. rendered \in Seq(Rendered)
  <2>1. DOMAIN first = 1..Len(first) /\ Len(first) \in Nat /\ first \in [1..Len(first) -> 1..N]
    <3>. DEFINE whole == 1..N
    <3>1. first \in Seq(whole)
      BY <1>3
    <3>. HIDE DEF whole
    <3>2. DOMAIN first = 1..Len(first) /\ Len(first) \in Nat /\ first \in [1..Len(first) -> whole]
      BY <3>1
    <3>. QED
      BY <3>2 DEF whole
  <2>2. rendered \in [1..Len(first) -> Rendered]
    <3>. HIDE DEF N, Rendered
    <3>. QED
      BY <1>2, <2>1
  <2>. HIDE DEF rendered, Rendered
  <2>. QED
    BY <2>1, <2>2
<1>. DEFINE shown == {s \in ToSet(rendered) : s.text # <<>>}
<1>5. Filter(rendered, shown) \in Seq(Rendered \cap shown)
  <2>. HIDE DEF rendered, Rendered, shown
  <2>. QED
    BY <1>4, FilterTypes
<1>6. Rendered \cap shown \subseteq SectionType
  <2>. HIDE DEF rendered
  <2>. QED
    BY DEF SectionType
<1>7. Filter(rendered, shown) \in Seq(SectionType)
  <2>. HIDE DEF rendered, Rendered, shown
  <2>. QED
    BY <1>5, <1>6, SeqMonotonic
<1>. QED
  BY <1>7 DEF Sections, section, first

\* A parent is a nonempty text that fits the size of parents.
LEMMA ParentTypes ==
    ASSUME NEW blocks \in Seq(BlockType)
    PROVE  Parents(blocks) \in Seq(ParentType)
<1>. DEFINE secs == Sections(blocks)
            windows(s) == ChunkText(s.text, ParentSize, ParentOverlap)
            parts == [n \in DOMAIN secs |->
                         [w \in DOMAIN windows(secs[n]) |->
                             [text |-> windows(secs[n])[w], title |-> secs[n].title]]]
            T == Seq(ParentType)
<1>1. secs \in Seq(SectionType)
  BY SectionTypes
<1>2. ASSUME NEW s \in SectionType
      PROVE  [w \in DOMAIN windows(s) |-> [text |-> windows(s)[w], title |-> s.title]] \in T
  <2>. DEFINE ws == windows(s)
              fit == Fitting(ParentSize)
  <2>1. s.text \in Seq(Tokens) /\ s.title \in Seq(Tokens)
    BY DEF SectionType
  <2>2. ws \in Seq(fit \cap Fitting(Measure(s.text)))
    BY <2>1, ChunksFit, ChunkingAssumption
  <2>. HIDE DEF ws, fit
  <2>3. ws \in Seq(fit)
    BY <2>2, SeqMonotonic
  <2>4. DOMAIN ws = 1..Len(ws) /\ Len(ws) \in Nat /\ ws \in [1..Len(ws) -> fit]
    BY <2>3
  <2>5. [w \in DOMAIN ws |-> [text |-> ws[w], title |-> s.title]] \in [1..Len(ws) -> ParentType]
    BY <2>1, <2>4 DEF ParentType, fit
  <2>6. [w \in DOMAIN ws |-> [text |-> ws[w], title |-> s.title]] \in T
    <3>. HIDE DEF T
    <3>. DEFINE part == [w \in DOMAIN ws |-> [text |-> ws[w], title |-> s.title]]
    <3>. HIDE DEF part
    <3>1. part \in [1..Len(ws) -> ParentType]
      BY <2>5 DEF part
    <3>2. part \in T
      BY <2>4, <3>1 DEF T
    <3>. QED
      BY <3>2 DEF part
  <2>. QED
    BY <2>6 DEF ws
<1>3. parts \in Seq(T)
  <2>. HIDE DEF windows, secs, T
  <2>1. DOMAIN secs = 1..Len(secs) /\ Len(secs) \in Nat /\ secs \in [1..Len(secs) -> SectionType]
    BY <1>1
  <2>2. parts \in [1..Len(secs) -> T]
    BY <1>2, <2>1
  <2>. HIDE DEF parts
  <2>. QED
    BY <2>1, <2>2
<1>4. FlattenSeq(parts) \in T
  <2>. HIDE DEF parts
  <2>. QED
    BY <1>3, FlattenTypes
<1>. QED
  BY <1>4 DEF Parents

\* A child is a nonempty text that fits its parent.
LEMMA ChildTypes ==
    ASSUME NEW parent \in Fitting(ParentSize)
    PROVE  Children(parent) \in Seq(Fitting(ParentSize))
<1>. DEFINE windows == ChunkText(parent, ChildSize, ChildOverlap)
<1>1. parent \in Seq(Tokens) /\ parent # <<>> /\ Measure(parent) <= ParentSize
  BY DEF Fitting
<1>2. windows \in Seq(Fitting(ChildSize) \cap Fitting(Measure(parent)))
  BY <1>1, ChunksFit, ChunkingAssumption
<1>3. Fitting(Measure(parent)) \subseteq Fitting(ParentSize)
  <2>1. \A t \in Seq(Tokens) : Measure(t) \in Nat
    BY DEF Measure
  <2>. QED
    BY <1>1, <2>1, ChunkingAssumption DEF Fitting
<1>. HIDE DEF windows
<1>4. windows \in Seq(Fitting(ParentSize))
  BY <1>2, <1>3, SeqMonotonic
<1>5. <<parent>> \in Seq(Fitting(ParentSize))
  OBVIOUS
<1>. QED
  BY <1>4, <1>5 DEF Children, windows

\* The units of a page are parents and children that fit.
LEMMA UnitTypes ==
    ASSUME NEW blocks \in Seq(BlockType)
    PROVE  Units(blocks) \in Seq(UnitType)
<1>. DEFINE parents == Parents(blocks)
            part(p) == LET children == Children(parents[p].text)
                       IN [c \in DOMAIN children |->
                              [parent |-> p, parentText |-> parents[p].text,
                               childText |-> children[c], title |-> parents[p].title]]
            parts == [p \in DOMAIN parents |-> part(p)]
            T == Seq(UnitType)
<1>1. parents \in Seq(ParentType)
  BY ParentTypes
<1>. HIDE DEF parents
<1>2. DOMAIN parents = 1..Len(parents) /\ Len(parents) \in Nat
      /\ parents \in [1..Len(parents) -> ParentType]
  BY <1>1
<1>3. ASSUME NEW p \in 1..Len(parents) PROVE part(p) \in T
  <2>. DEFINE children == Children(parents[p].text)
              fit == Fitting(ParentSize)
  <2>1. p \in Nat /\ parents[p].text \in fit /\ parents[p].title \in Seq(Tokens)
    BY <1>2 DEF ParentType
  <2>2. children \in Seq(fit)
    BY <2>1, ChildTypes
  <2>. HIDE DEF children, fit
  <2>3. DOMAIN children = 1..Len(children) /\ Len(children) \in Nat
        /\ children \in [1..Len(children) -> fit]
    BY <2>2
  <2>. DEFINE piece == [c \in DOMAIN children |->
                           [parent |-> p, parentText |-> parents[p].text,
                            childText |-> children[c], title |-> parents[p].title]]
  <2>4. piece \in [1..Len(children) -> UnitType]
    BY <2>1, <2>3 DEF UnitType, fit
  <2>. HIDE DEF piece
  <2>5. piece \in Seq(UnitType)
    BY <2>3, <2>4
  <2>. QED
    BY <2>5 DEF piece, children
<1>4. parts \in Seq(T)
  <2>. HIDE DEF part, T
  <2>1. parts \in [1..Len(parents) -> T]
    BY <1>2, <1>3
  <2>. HIDE DEF parts
  <2>. QED
    BY <1>2, <2>1
<1>5. FlattenSeq(parts) \in T
  <2>. HIDE DEF parts
  <2>. QED
    BY <1>4, FlattenTypes
<1>. QED
  BY <1>5 DEF Units, parents

\* The nodes of a page are that page's, and fit a parent.
LEMMA PageNodeTypes ==
    ASSUME NEW page, NEW units \in Seq(UnitType)
    PROVE  PageNodes(page, units) \in Seq(NodeType(page.id))
<1>. DEFINE node(key, text) == [page |-> page.id, key |-> key, text |-> text]
            emitted(u) ==
                IF u \notin Kept(units) THEN <<>>
                ELSE (IF EmitsParent(units, u)
                      THEN <<node(ParentKey(units, u), units[u].parentText)>>
                      ELSE <<>>)
                     \o <<node(ChildKey(units, u), units[u].childText)>>
            parts == [u \in DOMAIN units |-> emitted(u)]
            N == NodeType(page.id)
            T == Seq(N)
<1>1. DOMAIN units = 1..Len(units) /\ Len(units) \in Nat
      /\ units \in [1..Len(units) -> UnitType]
  OBVIOUS
<1>2. ASSUME NEW u \in 1..Len(units) PROVE emitted(u) \in T
  <2>1. /\ units[u].parent \in Nat /\ u \in Nat
        /\ units[u].parentText \in Fitting(ParentSize)
        /\ units[u].childText \in Fitting(ParentSize)
    <3>1. u \in Nat /\ units[u] \in UnitType
      BY <1>1
    <3>. QED
      BY <3>1 DEF UnitType
  <2>2. node(ParentKey(units, u), units[u].parentText) \in N
    BY <2>1 DEF NodeType, ParentKey
  <2>3. node(ChildKey(units, u), units[u].childText) \in N
    BY <2>1 DEF NodeType, ChildKey
  <2>. HIDE DEF node, N
  <2>. QED
    BY <2>2, <2>3
<1>3. parts \in Seq(T)
  <2>. HIDE DEF emitted, T
  <2>1. parts \in [1..Len(units) -> T]
    BY <1>1, <1>2
  <2>. HIDE DEF parts
  <2>. QED
    BY <1>1, <2>1
<1>4. FlattenSeq(parts) \in T
  <2>. HIDE DEF parts, N
  <2>. QED
    BY <1>3, FlattenTypes
<1>. QED
  BY <1>4 DEF PageNodes

-----------------------------------------------------------------------------
(* The inductive invariant.                                                 *)

Short    == Fitting(ParentSize)
NodesAny == [page : PageIds, key : {"parent", "child"} \X Nat, text : Short]
Vectors  == [model : Models, text : Short]
Batches  == {b \in Seq(Short) : Len(b) \in 1..BatchSize /\ BatchTokens(b) <= MaxTokens}

\* The attempt has emptied the collection of its run and is not over.
Active   == job.pc \notin {"idle", "delete"}
\* It has a flush under way, and knows what is missing.
Flushing == job.pc \in {"embed", "put", "upsert"}

\* The locals of the attempt and of the flush.
LocalTypes ==
    /\ DOMAIN job = {"pc", "state", "run", "pages", "at", "pending", "owners",
                     "counts", "quarantine"}
    /\ job.pending \in Seq(NodesAny)
    /\ DOMAIN job.owners \subseteq Short
    /\ DOMAIN flush = {"missing", "found", "batches", "vectors"}
    /\ flush.missing \in Seq(Short)
    /\ flush.batches \in Seq(Batches)
    /\ flush.vectors \in Seq(Vectors)
    /\ \A p \in points : p.text \in Short

\* A vector is kept under its own model and text.
CacheKeyed ==
    \A c \in cache : /\ c.vector \in Vectors
                       /\ c.key = <<c.vector.model, c.vector.text>>

\* What is pending are nodes of pages that were read, and what the collection
\* holds of the run is of pages that were read before those.
PendingWasRead ==
    \A n \in ToSet(job.pending) :
        \E i \in 1..job.at : job.pages[i].id = n.page /\ n \in ToSet(NodesOf[job.pages[i]])

PointsWereRead ==
    Active => \A p \in RunPoints(job.run) :
                 /\ \E i \in 1..job.at : job.pages[i].id = p.page
                 /\ \A n \in ToSet(job.pending) : p.page # n.page

\* A text that is pending or upserted is its page's.
TextsOwned ==
    Active =>
    /\ \A p \in RunPoints(job.run) : p.text \in DOMAIN job.owners /\ job.owners[p.text] = p.page
    /\ \A n \in ToSet(job.pending) :
          TextDigest(n) \in DOMAIN job.owners /\ job.owners[TextDigest(n)] = n.page

\* The flush: each text of what is pending was found or is missing, and the
\* vectors at hand are those of the first texts that were missing.
FlushCovers ==
    Flushing =>
    /\ DOMAIN flush.found \cup ToSet(flush.missing) = ToSet(Texts)
    /\ \A t \in DOMAIN flush.found : flush.found[t] = Vector(t)
    /\ Len(flush.vectors) <= Len(flush.missing)
    /\ \A i \in DOMAIN flush.vectors : flush.vectors[i] = Vector(flush.missing[i])
    /\ FlattenSeq(flush.batches) =
          SubSeq(flush.missing, Len(flush.vectors) + 1, Len(flush.missing))

\* An attempt starts with nothing pending, and nothing is quarantined before it
\* ends.
StartsEmpty == job.pc = "delete" => job.pending = <<>>

NoneQuarantined == job.pc # "idle" => job.quarantine = <<>>

PageIndexInv ==
    /\ TypeOK /\ LocalTypes /\ CacheKeyed
    /\ PendingWasRead /\ PointsWereRead /\ TextsOwned /\ FlushCovers
    /\ VectorsMatch /\ OnePageOwnsText
    /\ StartsEmpty /\ NoneQuarantined /\ QuarantineIsExact

-----------------------------------------------------------------------------
(* What the steps compute.                                                  *)

\* The same of each page of the corpus.
LEMMA NodesOfAPage ==
    ASSUME NEW page \in Pages
    PROVE  /\ NodesOf[page] \in Seq(NodeType(page.id))
           /\ UnitsOf[page] \in Seq(UnitType)
           /\ page.id \in PageIds
<1>1. page.blocks \in Seq(BlockType)
  <2>1. PICK pages \in PageLists : page \in ToSet(pages)
    BY DEF Pages
  <2>2. PICK i \in DOMAIN pages : page = pages[i]
    BY <2>1 DEF ToSet
  <2>. QED
    BY <2>2, PageIndexAssumption DEF BlockType
<1>2. UnitsOf[page] = Units(page.blocks)
  BY DEF UnitsOf
<1>3. NodesOf[page] = PageNodes(page, UnitsOf[page])
  BY DEF NodesOf
<1>4. UnitsOf[page] \in Seq(UnitType)
  BY <1>1, <1>2, UnitTypes
<1>. QED
  BY <1>3, <1>4, PageNodeTypes DEF PageIds

\* What is sanitised measures what it measured.
LEMMA SanitizeFits ==
    ASSUME NEW text \in Short
    PROVE  Sanitize(text) \in Short
<1>1. text \in Seq(Tokens) /\ text # <<>> /\ Measure(text) <= ParentSize
  BY DEF Short, Fitting
<1>2. \A i \in 1..Len(text) : Clean[text[i]] \in Tokens /\ (Clean[text[i]] \in Joined <=> text[i] \in Joined)
  BY <1>1, ChunkingAssumption
<1>3. /\ Sanitize(text) \in Seq(Tokens) /\ Len(Sanitize(text)) = Len(text)
      /\ Sanitize(text)[1] = Clean[text[1]]
  <2>1. DOMAIN text = 1..Len(text) /\ Len(text) \in Nat /\ 1 \in 1..Len(text)
    BY <1>1
  <2>2. Sanitize(text) \in [1..Len(text) -> Tokens]
    BY <1>2, <2>1 DEF Sanitize
  <2>3. Sanitize(text)[1] = Clean[text[1]]
    BY <2>1 DEF Sanitize
  <2>. QED
    BY <2>1, <2>2, <2>3
<1>4. 1 \in 1..Len(text) /\ Head(text) = text[1] /\ Head(Sanitize(text)) = Sanitize(text)[1]
  BY <1>1, <1>3
<1>5. Sanitize(text) # <<>>
  BY <1>1, <1>3
<1>6. Measure(Sanitize(text)) = Measure(text)
  <2>1. Head(Sanitize(text)) \in Joined <=> Head(text) \in Joined
    BY <1>2, <1>3, <1>4
  <2>. QED
    BY <1>1, <1>3, <1>5, <2>1 DEF Measure
<1>. QED
  BY <1>1, <1>3, <1>5, <1>6 DEF Short, Fitting

\* list(dict.fromkeys(texts)) holds the texts, and no other.
LEMMA DistinctHoldsAll ==
    ASSUME NEW A, NEW texts \in Seq(A)
    PROVE  Distinct(texts) \in Seq(A) /\ ToSet(Distinct(texts)) = ToSet(texts)
<1>. DEFINE N == Len(texts)
            I == 1..N
            firsts == {i \in DOMAIN texts : \A j \in 1..(i - 1) : texts[j] # texts[i]}
            places == [i \in DOMAIN texts |-> i]
            first == Filter(places, firsts)
            distinct == [n \in DOMAIN first |-> texts[first[n]]]
<1>1. N \in Nat /\ DOMAIN texts = I /\ texts \in [I -> A]
  OBVIOUS
<1>2. places \in Seq(I) /\ ToSet(places) = I
  <2>1. places \in [1..N -> I]
    BY <1>1
  <2>2. ToSet(places) = I
    BY <1>1 DEF ToSet
  <2>. HIDE DEF places, I
  <2>. QED
    BY <1>1, <2>1, <2>2
<1>3. first \in Seq(I \cap firsts) /\ ToSet(first) = I \cap firsts
  <2>. HIDE DEF places, I, firsts
  <2>. QED
    BY <1>2, FilterTypes
<1>4. \A i \in I : \E k \in I \cap firsts : texts[k] = texts[i]
  <2>. SUFFICES ASSUME NEW i \in I PROVE \E k \in I \cap firsts : texts[k] = texts[i]
    OBVIOUS
  <2>. DEFINE same == {k \in I : texts[k] = texts[i]}
  <2>1. same \in SUBSET Nat /\ same # {}
    OBVIOUS
  <2>2. PICK k \in same : \A m \in same : k <= m
    <3>. HIDE DEF same
    <3>. QED
      BY <2>1, LeastNat
  <2>3. \A j \in 1..(k - 1) : texts[j] # texts[k]
    <3>. SUFFICES ASSUME NEW j \in 1..(k - 1), texts[j] = texts[k] PROVE FALSE
      OBVIOUS
    <3>1. k \in I /\ texts[k] = texts[i]
      BY <2>2
    <3>2. j \in I /\ j < k
      BY <1>1, <3>1
    <3>3. j \in same
      BY <3>1, <3>2
    <3>. QED
      BY <2>2, <3>1, <3>2, <3>3
  <2>. QED
    BY <1>1, <2>2, <2>3
<1>. HIDE DEF first, firsts, places
<1>5. DOMAIN first = 1..Len(first) /\ Len(first) \in Nat /\ first \in [1..Len(first) -> I \cap firsts]
  <2>. DEFINE F == I \cap firsts
  <2>1. first \in Seq(F)
    BY <1>3
  <2>. HIDE DEF F
  <2>2. DOMAIN first = 1..Len(first) /\ Len(first) \in Nat /\ first \in [1..Len(first) -> F]
    BY <2>1
  <2>. QED
    BY <2>2 DEF F
<1>6. distinct \in Seq(A)
  <2>1. distinct \in [1..Len(first) -> A]
    <3>. HIDE DEF I
    <3>. QED
      BY <1>1, <1>5
  <2>. HIDE DEF distinct
  <2>. QED
    BY <1>5, <2>1
<1>7. ToSet(distinct) = ToSet(texts)
  <2>. HIDE DEF I, N
  <2>1. ToSet(texts) = {texts[i] : i \in I}
    BY <1>1 DEF ToSet
  <2>2. ToSet(distinct) = {texts[first[n]] : n \in DOMAIN first}
    BY DEF ToSet
  <2>3. ToSet(first) = {first[n] : n \in DOMAIN first}
    BY DEF ToSet
  <2>4. {texts[first[n]] : n \in DOMAIN first} \subseteq {texts[i] : i \in I}
    BY <1>5
  <2>5. ASSUME NEW i \in I PROVE texts[i] \in {texts[first[n]] : n \in DOMAIN first}
    <3>1. PICK k \in I \cap firsts : texts[k] = texts[i]
      BY <1>4
    <3>2. PICK n \in DOMAIN first : first[n] = k
      BY <1>3, <2>3
    <3>. QED
      BY <3>1, <3>2
  <2>. QED
    BY <2>1, <2>2, <2>4, <2>5
<1>8. Distinct(texts) = distinct
  BY DEF Distinct, first, firsts, places
<1>. QED
  BY <1>6, <1>7, <1>8

\* One more text adds its own measure to a batch.
LEMMA BatchTokensAppend ==
    ASSUME NEW b \in Seq(Short), NEW t \in Short
    PROVE  /\ BatchTokens(b) \in Nat /\ BatchTokens(<<>>) = 0
           /\ BatchTokens(Append(b, t)) = BatchTokens(b) + Measure(t)
           /\ Measure(t) \in Nat /\ Measure(t) <= ParentSize
<1>. DEFINE numbers == [i \in DOMAIN b |-> Measure(b[i])]
            more == [i \in DOMAIN Append(b, t) |-> Measure(Append(b, t)[i])]
<1>1. \A x \in Short : Measure(x) \in Nat /\ Measure(x) <= ParentSize
  BY DEF Short, Fitting, Measure
<1>. HIDE DEF Short
<1>2. DOMAIN b = 1..Len(b) /\ Len(b) \in Nat /\ b \in [1..Len(b) -> Short]
  OBVIOUS
<1>3. numbers \in [1..Len(b) -> Nat] /\ \A i \in 1..Len(b) : numbers[i] = Measure(b[i])
  BY <1>1, <1>2
<1>4. /\ DOMAIN more = 1..(Len(b) + 1)
      /\ more[Len(b) + 1] = Measure(t)
      /\ \A i \in 1..Len(b) : more[i] = Measure(b[i])
      /\ more = [i \in 1..(Len(b) + 1) |-> more[i]]
  OBVIOUS
<1>5. numbers \in Seq(Nat) /\ Len(numbers) = Len(b)
  <2>. HIDE DEF numbers
  <2>. QED
    BY <1>2, <1>3
<1>6. more = Append(numbers, Measure(t))
  <2>. DEFINE longer == Append(numbers, Measure(t))
  <2>1. /\ DOMAIN longer = 1..(Len(b) + 1)
        /\ longer[Len(b) + 1] = Measure(t)
        /\ \A i \in 1..Len(b) : longer[i] = numbers[i]
        /\ longer = [i \in 1..(Len(b) + 1) |-> longer[i]]
    <3>. DEFINE x == Measure(t)
    <3>1. x \in Nat
      BY <1>1
    <3>. HIDE DEF numbers, x
    <3>2. /\ DOMAIN longer = 1..(Len(numbers) + 1)
          /\ longer[Len(numbers) + 1] = x
          /\ \A i \in 1..Len(numbers) : longer[i] = numbers[i]
          /\ longer \in [1..(Len(numbers) + 1) -> Nat]
      <4>1. /\ longer \in Seq(Nat) /\ Len(longer) = Len(numbers) + 1
            /\ longer[Len(numbers) + 1] = x
            /\ \A i \in 1..Len(numbers) : longer[i] = numbers[i]
        BY <1>5, <3>1, AppendProperties DEF x
      <4>. HIDE DEF longer
      <4>. QED
        BY <4>1
    <3>. HIDE DEF longer
    <3>. QED
      BY <1>5, <3>2 DEF x
  <2>2. \A i \in 1..(Len(b) + 1) : i = Len(b) + 1 \/ i \in 1..Len(b)
    BY <1>2
  <2>. HIDE DEF numbers, more, longer
  <2>3. \A i \in 1..(Len(b) + 1) : more[i] = longer[i]
    BY <1>3, <1>4, <2>1, <2>2
  <2>4. more = longer
    BY <1>4, <2>1, <2>3
  <2>. QED
    BY <2>4 DEF longer
<1>7. Total(numbers) \in Nat /\ Total(<<>>) = 0 /\ Total(more) = Total(numbers) + Measure(t)
  <2>. HIDE DEF numbers, more
  <2>. QED
    BY <1>1, <1>5, <1>6, TotalAppends
<1>8. BatchTokens(b) = Total(numbers) /\ BatchTokens(Append(b, t)) = Total(more)
  BY DEF BatchTokens
<1>9. BatchTokens(<<>>) = Total(<<>>)
  BY DEF BatchTokens
<1>. QED
  BY <1>1, <1>7, <1>8, <1>9

\* What partition_embedding_batches has of the first n texts: full batches, and the
\* one it is filling.
Filling == {acc \in [done : Seq(Batches), current : Seq(Short), tokens : Nat] :
               /\ Len(acc.current) <= BatchSize
               /\ acc.tokens = BatchTokens(acc.current) /\ acc.tokens <= MaxTokens}

Full(acc, t) ==
    acc.current # <<>> /\ (Len(acc.current) >= BatchSize \/ acc.tokens + Measure(t) > MaxTokens)

Placed(acc, t) ==
    IF Full(acc, t)
    THEN [done |-> Append(acc.done, acc.current), current |-> <<t>>, tokens |-> Measure(t)]
    ELSE [done |-> acc.done, current |-> Append(acc.current, t),
          tokens |-> acc.tokens + Measure(t)]

\* Appending and concatenating associate.
LEMMA AppendToConcat ==
    ASSUME NEW A, NEW a \in Seq(A), NEW b \in Seq(A), NEW t \in A
    PROVE  a \o Append(b, t) = Append(a \o b, t) /\ (a \o b) \o <<t>> = Append(a \o b, t)
  OBVIOUS

\* One more text keeps the limits and the order.
LEMMA PlacedFits ==
    ASSUME NEW acc \in Filling, NEW t \in Short
    PROVE  /\ Placed(acc, t) \in Filling
           /\ FlattenSeq(acc.done) \o acc.current \in Seq(Short)
           /\ FlattenSeq(Placed(acc, t).done) \o Placed(acc, t).current
                 = Append(FlattenSeq(acc.done) \o acc.current, t)
<1>1. /\ acc.done \in Seq(Batches) /\ acc.current \in Seq(Short) /\ acc.tokens \in Nat
      /\ Len(acc.current) <= BatchSize
      /\ acc.tokens = BatchTokens(acc.current) /\ acc.tokens <= MaxTokens
  BY DEF Filling
<1>2. /\ BatchTokens(<<>>) = 0 /\ Measure(t) \in Nat /\ Measure(t) <= MaxTokens
      /\ BatchTokens(Append(acc.current, t)) = acc.tokens + Measure(t)
      /\ BatchTokens(<<t>>) = Measure(t)
  <2>1. <<>> \in Seq(Short) /\ Append(<<>>, t) = <<t>>
    OBVIOUS
  <2>2. ParentSize \in Nat /\ MaxTokens \in Nat /\ ParentSize <= MaxTokens
    BY ChunkingAssumption, PageIndexAssumption
  <2>3. BatchTokens(<<t>>) = 0 + Measure(t)
    BY <2>1, BatchTokensAppend
  <2>4. Measure(t) \in Nat /\ Measure(t) <= ParentSize /\ BatchTokens(<<>>) = 0
        /\ BatchTokens(Append(acc.current, t)) = BatchTokens(acc.current) + Measure(t)
    BY <1>1, <2>1, BatchTokensAppend
  <2>. QED
    BY <1>1, <2>2, <2>3, <2>4
<1>3. acc.done \in Seq(Seq(Short)) /\ FlattenSeq(acc.done) \in Seq(Short)
  <2>1. acc.done \in Seq(Seq(Short))
    <3>1. Batches \subseteq Seq(Short)
      BY DEF Batches
    <3>. QED
      BY <1>1, <3>1, SeqMonotonic
  <2>. QED
    BY <2>1, FlattenTypes
<1>4. BatchSize \in Nat /\ BatchSize >= 1 /\ MaxTokens \in Nat
  BY PageIndexAssumption
<1>. DEFINE flat == FlattenSeq(acc.done)
            cur == acc.current
<1>7. /\ flat \o Append(cur, t) = Append(flat \o cur, t)
      /\ (flat \o cur) \o <<t>> = Append(flat \o cur, t)
      /\ flat \o cur \in Seq(Short)
  <2>1. flat \in Seq(Short) /\ cur \in Seq(Short)
    BY <1>1, <1>3
  <2>. HIDE DEF flat, cur
  <2>. QED
    BY <2>1, AppendToConcat
<1>5. CASE Full(acc, t)
  <2>1. Placed(acc, t) = [done |-> Append(acc.done, acc.current), current |-> <<t>>,
                          tokens |-> Measure(t)]
    BY <1>5 DEF Placed
  <2>2. acc.current \in Batches
    <3>1. Len(acc.current) \in 1..BatchSize
      BY <1>1, <1>4, <1>5 DEF Full
    <3>. QED
      BY <1>1, <3>1 DEF Batches
  <2>3. Append(acc.done, acc.current) \in Seq(Batches) /\ <<t>> \in Seq(Short) /\ Len(<<t>>) = 1
    BY <1>1, <2>2
  <2>4. Placed(acc, t) \in Filling
    <3>1. Placed(acc, t) \in [done : Seq(Batches), current : Seq(Short), tokens : Nat]
      BY <1>2, <2>1, <2>3
    <3>2. Len(Placed(acc, t).current) <= BatchSize
      BY <1>4, <2>1, <2>3
    <3>3. /\ Placed(acc, t).tokens = BatchTokens(Placed(acc, t).current)
          /\ Placed(acc, t).tokens <= MaxTokens
      BY <1>2, <2>1
    <3>. QED
      BY <3>1, <3>2, <3>3 DEF Filling
  <2>5. FlattenSeq(Append(acc.done, acc.current)) = FlattenSeq(acc.done) \o acc.current
    <3>1. <<acc.current>> \in Seq(Seq(Short))
          /\ Append(acc.done, acc.current) = acc.done \o <<acc.current>>
      BY <1>1, <1>3
    <3>2. FlattenSeq(<<acc.current>>) = acc.current
      BY <1>1, FlattenOne
    <3>. QED
      BY <1>3, <3>1, <3>2, FlattenConcat
  <2>6. Placed(acc, t).done = Append(acc.done, acc.current) /\ Placed(acc, t).current = <<t>>
    BY <2>1
  <2>. QED
    BY <1>7, <2>4, <2>5, <2>6, Zenon
<1>6. CASE ~Full(acc, t)
  <2>1. Placed(acc, t) = [done |-> acc.done, current |-> Append(acc.current, t),
                          tokens |-> acc.tokens + Measure(t)]
    BY <1>6 DEF Placed
  <2>2. Append(acc.current, t) \in Seq(Short) /\ Len(Append(acc.current, t)) = Len(acc.current) + 1
    BY <1>1
  <2>3. Len(acc.current) + 1 <= BatchSize /\ acc.tokens + Measure(t) <= MaxTokens
    <3>1. CASE acc.current = <<>>
      <4>1. Len(acc.current) = 0 /\ acc.tokens = 0
        BY <1>1, <1>2, <3>1
      <4>. QED
        BY <1>2, <1>4, <4>1
    <3>2. CASE acc.current # <<>>
      <4>1. ~(Len(acc.current) >= BatchSize) /\ ~(acc.tokens + Measure(t) > MaxTokens)
        BY <1>6, <3>2 DEF Full
      <4>2. Len(acc.current) \in Nat
        BY <1>1
      <4>. QED
        BY <1>1, <1>2, <1>4, <4>1, <4>2
    <3>. QED
      BY <3>1, <3>2
  <2>4. Placed(acc, t) \in Filling
    <3>1. Placed(acc, t) \in [done : Seq(Batches), current : Seq(Short), tokens : Nat]
      BY <1>1, <1>2, <2>1, <2>2
    <3>2. Len(Placed(acc, t).current) <= BatchSize
      BY <2>1, <2>2, <2>3
    <3>3. /\ Placed(acc, t).tokens = BatchTokens(Placed(acc, t).current)
          /\ Placed(acc, t).tokens <= MaxTokens
      BY <1>2, <2>1, <2>3
    <3>. QED
      BY <3>1, <3>2, <3>3 DEF Filling
  <2>5. Placed(acc, t).done = acc.done /\ Placed(acc, t).current = Append(acc.current, t)
    BY <2>1
  <2>. QED
    BY <1>7, <2>4, <2>5, Zenon
<1>. QED
  BY <1>5, <1>6

\* The batches of the texts fit the model, and hold each text once, in order.
LEMMA PartitionFits ==
    ASSUME NEW texts \in Seq(Short)
    PROVE  /\ Partition(texts) \in Seq(Batches)
           /\ FlattenSeq(Partition(texts)) = texts
           /\ Partition(texts) = <<>> <=> texts = <<>>
<1>. DEFINE N == Len(texts)
            base == [done |-> <<>>, current |-> <<>>, tokens |-> 0]
            step == [x \in Filling \X (1..N) |-> Placed(x[1], texts[x[2]])]
            K == CHOOSE filling : filling = [n \in 0..N |->
                    IF n = 0 THEN base ELSE Placed(filling[n - 1], texts[n])]
<1>1. N \in Nat /\ texts \in [1..N -> Short] /\ \A n \in 1..N : texts[n] \in Short
  <2>. HIDE DEF Short
  <2>. QED
    OBVIOUS
<1>2. base \in Filling
  <2>1. base \in [done : Seq(Batches), current : Seq(Short), tokens : Nat]
    OBVIOUS
  <2>2. BatchTokens(<<>>) = 0
    <3>1. <<>> \in Seq(Nat)
      OBVIOUS
    <3>2. Total(<<>>) = 0
      BY <3>1, TotalAppends
    <3>. QED
      BY <3>2 DEF BatchTokens
  <2>3. Len(<<>>) = 0 /\ BatchSize \in Nat /\ MaxTokens \in Nat
    BY PageIndexAssumption
  <2>. QED
    BY <2>1, <2>2, <2>3 DEF Filling
<1>3. \A x \in Filling, n \in 1..N : step[<<x, n>>] = Placed(x, texts[n])
  OBVIOUS
<1>4. step \in [Filling \X (1..N) -> Filling]
  <2>1. ASSUME NEW x \in Filling, NEW n \in 1..N PROVE Placed(x, texts[n]) \in Filling
    BY <1>1, PlacedFits
  <2>. QED
    BY <2>1
<1>. HIDE DEF step, base
<1>5. PICK f \in [0..N -> Filling] : Builds(f, N, base, step)
  BY <1>1, <1>2, <1>4, Recursion
<1>6. \A n \in 1..N : n - 1 \in 0..N /\ f[n - 1] \in Filling
  <2>. HIDE DEF N
  <2>. QED
    BY <1>1
<1>7. f[0] = base /\ \A n \in 1..N : f[n] = Placed(f[n - 1], texts[n])
  BY <1>3, <1>5, <1>6 DEF Builds
<1>8. f = [n \in 0..N |-> IF n = 0 THEN base ELSE Placed(f[n - 1], texts[n])]
  <2>. DEFINE body(n) == IF n = 0 THEN base ELSE Placed(f[n - 1], texts[n])
  <2>1. ASSUME NEW n \in 0..N PROVE f[n] = body(n)
    <3>1. n = 0 \/ (n \in 1..N /\ n # 0)
      BY <1>1
    <3>. QED
      BY <1>7, <3>1
  <2>2. f = [n \in 0..N |-> f[n]]
    OBVIOUS
  <2>. HIDE DEF body
  <2>3. f = [n \in 0..N |-> body(n)]
    BY <2>1, <2>2
  <2>. QED
    BY <2>3 DEF body
<1>9. K = [n \in 0..N |-> IF n = 0 THEN base ELSE Placed(K[n - 1], texts[n])]
  BY <1>8
<1>10. Filled(texts) = K[N]
  BY DEF Filled, Placed, Full, base
<1>. HIDE DEF K
<1>11. Follows(K, Filling, N, base, step)
  <2>1. K[0] = base
    BY <1>1, <1>9
  <2>2. ASSUME NEW n \in 1..N, K[n - 1] \in Filling PROVE K[n] = step[<<K[n - 1], n>>]
    <3>1. n \in 0..N /\ n # 0
      BY <1>1
    <3>2. K[n] = Placed(K[n - 1], texts[n])
      BY <1>9, <3>1
    <3>. QED
      BY <1>3, <2>2, <3>2
  <2>. QED
    BY <2>1, <2>2 DEF Follows
<1>12. Filled(texts) = f[N]
  <2>. HIDE DEF N
  <2>1. \A n \in 0..N : K[n] = f[n]
    BY <1>1, <1>5, <1>11, OnlyRecursion
  <2>. QED
    BY <1>1, <1>10, <2>1
<1>. DEFINE held(acc) == FlattenSeq(acc.done) \o acc.current
            G == {n \in 0..N : held(f[n]) = SubSeq(texts, 1, n)}
<1>13. 0 \in G
  <2>1. FlattenSeq(<<>>) = <<>>
    BY DEF FlattenSeq
  <2>2. held(base) = <<>>
    BY <2>1 DEF base
  <2>3. SubSeq(texts, 1, 0) = <<>>
    OBVIOUS
  <2>4. 0 \in 0..N
    BY <1>1
  <2>. HIDE DEF held
  <2>5. held(f[0]) = SubSeq(texts, 1, 0)
    BY <1>7, <2>2, <2>3
  <2>. HIDE DEF N
  <2>. QED
    BY <2>4, <2>5
<1>14. ASSUME NEW n \in 0..N, n # N, n \in G PROVE n + 1 \in G
  <2>. HIDE DEF held
  <2>1. n + 1 \in 1..N /\ (n + 1) - 1 = n /\ n + 1 \in 0..N /\ f[n] \in Filling
    <3>. HIDE DEF N, G
    <3>. QED
      BY <1>1, <1>14
  <2>2. texts[n + 1] \in Short
    BY <1>1, <2>1
  <2>3. held(Placed(f[n], texts[n + 1])) = Append(held(f[n]), texts[n + 1])
    BY <2>1, <2>2, PlacedFits DEF held
  <2>4. f[n + 1] = Placed(f[n], texts[n + 1])
    BY <1>7, <2>1
  <2>5. SubSeq(texts, 1, n + 1) = Append(SubSeq(texts, 1, n), texts[n + 1])
    <3>. HIDE DEF Short
    <3>. QED
      BY <1>1, <2>1
  <2>. QED
    BY <1>14, <2>1, <2>3, <2>4, <2>5
<1>15. held(f[N]) = texts
  <2>1. N \in G
    <3>. HIDE DEF G
    <3>1. 0..N \subseteq G
      BY <1>1, <1>13, <1>14, Upto
    <3>. QED
      BY <1>1, <3>1
  <2>2. SubSeq(texts, 1, N) = texts
    <3>. HIDE DEF Short
    <3>. QED
      OBVIOUS
  <2>. QED
    BY <2>1, <2>2
<1>16. f[N] \in Filling
  BY <1>1
<1>. DEFINE acc == f[N]
<1>17. /\ acc.done \in Seq(Batches) /\ acc.current \in Seq(Short)
       /\ Len(acc.current) <= BatchSize
       /\ acc.tokens = BatchTokens(acc.current) /\ acc.tokens <= MaxTokens
  BY <1>16 DEF Filling
<1>18. acc.done \in Seq(Seq(Short)) /\ FlattenSeq(acc.done) \in Seq(Short)
  <2>1. Batches \subseteq Seq(Short)
    BY DEF Batches
  <2>2. acc.done \in Seq(Seq(Short))
    BY <1>17, <2>1, SeqMonotonic
  <2>. QED
    BY <2>2, FlattenTypes
<1>19. FlattenSeq(acc.done) \o acc.current = texts
  BY <1>15
<1>20. CASE acc.current = <<>>
  <2>1. Partition(texts) = acc.done
    BY <1>12, <1>20 DEF Partition
  <2>2. FlattenSeq(acc.done) = texts
    <3>. DEFINE flat == FlattenSeq(acc.done)
    <3>1. flat \in Seq(Short) /\ flat \o <<>> = texts
      BY <1>18, <1>19, <1>20
    <3>. HIDE DEF flat, Short
    <3>2. flat = texts
      BY <3>1
    <3>. QED
      BY <3>2 DEF flat
  <2>3. acc.done = <<>> => texts = <<>>
    BY <2>2 DEF FlattenSeq
  <2>4. texts = <<>> => acc.done = <<>>
    <3>. SUFFICES ASSUME texts = <<>> PROVE f[N].done = <<>>
      OBVIOUS
    <3>1. N = 0
      OBVIOUS
    <3>. QED
      BY <1>7, <3>1 DEF base
  <2>. QED
    BY <1>17, <2>1, <2>2, <2>3, <2>4
<1>21. CASE acc.current # <<>>
  <2>1. Partition(texts) = Append(acc.done, acc.current)
    BY <1>12, <1>21 DEF Partition
  <2>2. acc.current \in Batches
    <3>1. Len(acc.current) \in 1..BatchSize
      <4>. HIDE DEF acc, Short
      <4>. QED
        BY <1>17, <1>21, PageIndexAssumption
    <3>. QED
      BY <1>17, <3>1 DEF Batches
  <2>. DEFINE done == acc.done
              cur == acc.current
  <2>3. /\ done \in Seq(Batches) /\ cur \in Batches /\ done \in Seq(Seq(Short)) /\ cur \in Seq(Short)
        /\ FlattenSeq(done) \o cur = texts
    BY <1>17, <1>18, <1>19, <2>2
  <2>. HIDE DEF acc, done, cur, Short
  <2>4. Append(done, cur) \in Seq(Batches) /\ Append(done, cur) = done \o <<cur>>
        /\ <<cur>> \in Seq(Seq(Short)) /\ Append(done, cur) # <<>>
    <3>1. Append(done, cur) \in Seq(Batches) /\ Append(done, cur) # <<>>
      BY <2>3, AppendProperties
    <3>2. Append(done, cur) = done \o <<cur>>
      BY <2>3, AppendIsConcat
    <3>3. <<cur>> \in Seq(Seq(Short))
      <4>. DEFINE A == Seq(Short)
      <4>1. cur \in A
        BY <2>3
      <4>. HIDE DEF A
      <4>2. <<cur>> \in Seq(A)
        BY <4>1
      <4>. QED
        BY <4>2 DEF A
    <3>. QED
      BY <3>1, <3>2, <3>3
  <2>5. FlattenSeq(<<cur>>) = cur
    BY <2>3, FlattenOne
  <2>6. FlattenSeq(Append(done, cur)) = texts
    BY <2>3, <2>4, <2>5, FlattenConcat
  <2>7. texts # <<>>
    <3>. DEFINE flat == FlattenSeq(done)
    <3>1. flat \in Seq(Short) /\ cur # <<>> /\ flat \o cur = texts
      BY <1>18, <1>21, <2>3 DEF done, cur
    <3>. HIDE DEF flat
    <3>2. Len(flat \o cur) = Len(flat) + Len(cur) /\ Len(flat) \in Nat /\ Len(cur) \in Nat
      <4>1. cur \in Seq(Short)
        BY <2>3
      <4>. QED
        BY <3>1, <4>1, ConcatProperties, LenProperties
    <3>3. Len(cur) # 0
      BY <2>3, <3>1
    <3>. QED
      BY <3>1, <3>2, <3>3
  <2>. QED
    BY <2>1, <2>4, <2>6, <2>7 DEF done, cur
<1>. QED
  BY <1>20, <1>21

-----------------------------------------------------------------------------
(* The steps.                                                               *)

\* What holds of the empty sequence.
LEMMA NothingInIt == ToSet(<<>>) = {} /\ <<>> \in Seq({}) /\ FlattenSeq(<<>>) = <<>>
  BY DEF ToSet, FlattenSeq

\* The pages of a run are pages of the corpus, each with an id of its own.
LEMMA PagesOfAList ==
    ASSUME NEW pages \in PageLists \cup {<<>>}
    PROVE  /\ Len(pages) \in Nat /\ DOMAIN pages = 1..Len(pages)
           /\ \A i, j \in 1..Len(pages) : pages[i].id = pages[j].id => i = j
           /\ \A i \in 1..Len(pages) : pages[i] \in Pages
<1>1. CASE pages = <<>>
  BY <1>1
<1>2. CASE pages \in PageLists
  <2>1. \A i \in DOMAIN pages : pages[i] \in Pages
    BY <1>2 DEF Pages, ToSet
  <2>. QED
    BY <1>2, <2>1, PageIndexAssumption
<1>. QED
  BY <1>1, <1>2

\* The invariant holds before the first attempt.
LEMMA StartKeeps == Init => PageIndexInv
<1>. SUFFICES ASSUME Init PROVE PageIndexInv
  OBVIOUS
<1>. USE NothingInIt
<1>1. PICK r \in Runs : job = NoJob(r, "pending")
  BY DEF Init
<1>2. /\ job = [pc |-> "idle", state |-> "pending", run |-> r, pages |-> <<>>, at |-> 0,
                pending |-> <<>>, owners |-> <<>>, counts |-> NoCounts, quarantine |-> <<>>]
      /\ model \in Models /\ points = {} /\ cache = {}
      /\ flush = [missing |-> <<>>, found |-> <<>>, batches |-> <<>>, vectors |-> <<>>]
  BY <1>1 DEF Init, NoJob, NewJob, NoFlush
<1>3. NoCounts \in Counts
  BY DEF NoCounts, Counts
<1>4. TypeOK
  BY <1>2, <1>3 DEF TypeOK
<1>5. LocalTypes
  BY <1>2 DEF LocalTypes
<1>. QED
  BY <1>2, <1>4, <1>5
     DEF PageIndexInv, CacheKeyed, PendingWasRead, PointsWereRead, TextsOwned, FlushCovers,
         VectorsMatch, OnePageOwnsText, StartsEmpty, NoneQuarantined, QuarantineIsExact, Active, Flushing

\* An attempt starts with nothing in hand (_index_run).
LEMMA BeginStep ==
    ASSUME PageIndexInv, NEW run \in Runs, Begin(run)
    PROVE  PageIndexInv'
<1>. USE NothingInIt DEF PageIndexInv
<1>1. PICK pages \in PageLists : job' = NewJob(run, pages)
  BY DEF Begin
<1>2. /\ job' = [pc |-> "delete", state |-> "running", run |-> run, pages |-> pages, at |-> 0,
                 pending |-> <<>>, owners |-> <<>>, counts |-> NoCounts, quarantine |-> <<>>]
      /\ job.pc = "idle" /\ UNCHANGED <<model, points, cache, flush>>
  BY <1>1 DEF Begin, NewJob
<1>3. NoCounts \in Counts /\ Len(pages) \in Nat
  BY PageIndexAssumption DEF NoCounts, Counts
<1>4. TypeOK'
  BY <1>2, <1>3 DEF TypeOK
<1>5. LocalTypes'
  BY <1>2 DEF LocalTypes
<1>6. CacheKeyed' /\ VectorsMatch' /\ OnePageOwnsText'
  BY <1>2 DEF CacheKeyed, VectorsMatch, OnePageOwnsText
<1>. QED
  BY <1>2, <1>4, <1>5, <1>6
     DEF PendingWasRead, PointsWereRead, TextsOwned, FlushCovers, StartsEmpty,
         NoneQuarantined, QuarantineIsExact, Active, Flushing

\* A new model leaves points and cache as they are.
LEMMA DeployStep ==
    ASSUME PageIndexInv, Deploy
    PROVE  PageIndexInv'
<1>. USE DEF PageIndexInv
<1>1. model' \in Models /\ job.pc = "idle" /\ UNCHANGED <<points, cache, job, flush>>
  BY DEF Deploy
<1>2. TypeOK'
  BY <1>1 DEF TypeOK
<1>3. LocalTypes' /\ CacheKeyed' /\ VectorsMatch' /\ OnePageOwnsText' /\ PendingWasRead'
  BY <1>1 DEF LocalTypes, CacheKeyed, VectorsMatch, OnePageOwnsText, PendingWasRead
<1>4. QuarantineIsExact'
  BY <1>1 DEF QuarantineIsExact, RunPoints
<1>. QED
  BY <1>1, <1>2, <1>3, <1>4
     DEF PointsWereRead, TextsOwned, FlushCovers, StartsEmpty, NoneQuarantined, Active, Flushing

\* The delete leaves no point of the run (_delete_run_points).
LEMMA DeleteStep ==
    ASSUME PageIndexInv, DeleteRunPoints
    PROVE  PageIndexInv'
<1>. USE NothingInIt DEF PageIndexInv
<1>1. /\ job.pc = "delete" /\ points' = points \ RunPoints(job.run)
      /\ job' = [job EXCEPT !.pc = "pages"]
      /\ UNCHANGED <<model, cache, flush>>
  BY DEF DeleteRunPoints
<1>2. /\ job'.pc = "pages" /\ job'.state = job.state /\ job'.run = job.run
      /\ job'.pages = job.pages /\ job'.at = job.at /\ job'.pending = job.pending
      /\ job'.owners = job.owners /\ job'.counts = job.counts
      /\ job'.quarantine = job.quarantine /\ DOMAIN job' = DOMAIN job
  BY <1>1 DEF LocalTypes
<1>3. RunPoints(job.run)' = {}
  BY <1>1, <1>2 DEF RunPoints
<1>4. TypeOK'
  BY <1>1, <1>2 DEF TypeOK
<1>5. LocalTypes' /\ CacheKeyed' /\ VectorsMatch' /\ OnePageOwnsText' /\ PendingWasRead'
  BY <1>1, <1>2 DEF LocalTypes, CacheKeyed, VectorsMatch, OnePageOwnsText, PendingWasRead
<1>6. job.pending = <<>> /\ job.quarantine = <<>> /\ job'.pc = "pages"
  BY <1>1, <1>2 DEF StartsEmpty, NoneQuarantined
<1>7. PointsWereRead' /\ TextsOwned' /\ FlushCovers' /\ StartsEmpty' /\ NoneQuarantined'
  BY <1>2, <1>3, <1>6 DEF PointsWereRead, TextsOwned, FlushCovers, StartsEmpty,
                         NoneQuarantined, Active, Flushing, RunPoints
<1>8. QuarantineIsExact'
  BY <1>2, <1>6 DEF QuarantineIsExact
<1>. QED
  BY <1>4, <1>5, <1>7, <1>8

\* A filter lengthens nothing.
LEMMA FilterShorter ==
    ASSUME NEW A, NEW s \in Seq(A), NEW S
    PROVE  Len(Filter(s, S)) \in 0..Len(s)
<1>. DEFINE N == Len(s)
            T == Seq(A \cap S)
<1>1. PICK kept \in [0..N -> T] :
         /\ kept[0] = <<>>
         /\ \A n \in 1..N : s[n] \in S => kept[n] = Append(kept[n - 1], s[n])
         /\ \A n \in 1..N : s[n] \notin S => kept[n] = kept[n - 1]
         /\ Filter(s, S) = kept[N]
  BY FilterUnfolds
<1>2. N \in Nat /\ N \in 0..N /\ \A n \in 1..N : s[n] \in A
  OBVIOUS
<1>. DEFINE G == {n \in 0..N : Len(kept[n]) \in 0..n}
<1>3. 0 \in G
  BY <1>1, <1>2
<1>4. ASSUME NEW n \in 0..N, n # N, n \in G PROVE n + 1 \in G
  <2>1. n + 1 \in 1..N /\ (n + 1) - 1 = n /\ n + 1 \in 0..N
    <3>. HIDE DEF G, N
    <3>. QED
      BY <1>2, <1>4
  <2>. DEFINE k == kept[n]
  <2>2. k \in T /\ Len(k) \in 0..n
    <3>. HIDE DEF T
    <3>. QED
      BY <1>4
  <2>3. kept[n + 1] = k \/ (s[n + 1] \in A \cap S /\ kept[n + 1] = Append(k, s[n + 1]))
    <3>. HIDE DEF G, T
    <3>. QED
      BY <1>1, <1>2, <2>1
  <2>. HIDE DEF k
  <2>4. Len(kept[n + 1]) \in 0..(n + 1)
    <3>1. \A x \in A \cap S : Len(Append(k, x)) = Len(k) + 1
      BY <2>2
    <3>. QED
      BY <2>2, <2>3, <3>1
  <2>. QED
    BY <2>1, <2>4
<1>5. 0..N \subseteq G
  <2>. HIDE DEF G
  <2>. QED
    BY <1>2, <1>3, <1>4, Upto
<1>. QED
  BY <1>1, <1>2, <1>5

\* A concatenation holds what both hold.
LEMMA ConcatHolds ==
    ASSUME NEW A, NEW a \in Seq(A), NEW b \in Seq(A)
    PROVE  a \o b \in Seq(A) /\ ToSet(a \o b) = ToSet(a) \cup ToSet(b)
<1>1. /\ DOMAIN a = 1..Len(a) /\ Len(a) \in Nat /\ DOMAIN b = 1..Len(b) /\ Len(b) \in Nat
      /\ a \o b \in Seq(A) /\ DOMAIN (a \o b) = 1..(Len(a) + Len(b))
      /\ \A i \in 1..Len(a) : (a \o b)[i] = a[i]
      /\ \A i \in 1..Len(b) : (a \o b)[Len(a) + i] = b[i]
  OBVIOUS
<1>2. ASSUME NEW i \in 1..(Len(a) + Len(b)) PROVE i \in 1..Len(a) \/ \E j \in 1..Len(b) : i = Len(a) + j
  <2>1. i \in 1..Len(a) \/ (i - Len(a) \in 1..Len(b) /\ i = Len(a) + (i - Len(a)))
    BY <1>1
  <2>. QED
    BY <2>1
<1>3. \A j \in 1..Len(b) : Len(a) + j \in 1..(Len(a) + Len(b))
  BY <1>1
<1>4. \A i \in 1..Len(a) : i \in 1..(Len(a) + Len(b))
  BY <1>1
<1>. DEFINE c == a \o b
<1>. HIDE DEF c
<1>5. /\ DOMAIN c = 1..(Len(a) + Len(b))
      /\ \A i \in 1..Len(a) : c[i] = a[i]
      /\ \A i \in 1..Len(b) : c[Len(a) + i] = b[i]
  BY <1>1 DEF c
<1>6. ToSet(c) \subseteq ToSet(a) \cup ToSet(b)
  <2>. SUFFICES ASSUME NEW i \in 1..(Len(a) + Len(b))
                PROVE  c[i] \in ToSet(a) \cup ToSet(b)
    BY <1>5 DEF ToSet
  <2>1. CASE i \in 1..Len(a)
    BY <1>1, <1>5, <2>1 DEF ToSet
  <2>2. CASE \E j \in 1..Len(b) : i = Len(a) + j
    BY <1>1, <1>5, <2>2 DEF ToSet
  <2>. QED
    BY <1>2, <2>1, <2>2
<1>7. ToSet(a) \subseteq ToSet(c) /\ ToSet(b) \subseteq ToSet(c)
  <2>1. \A i \in 1..Len(a) : i \in DOMAIN c /\ c[i] = a[i]
    BY <1>4, <1>5
  <2>2. \A i \in 1..Len(b) : Len(a) + i \in DOMAIN c /\ c[Len(a) + i] = b[i]
    BY <1>3, <1>5
  <2>. QED
    BY <1>1, <2>1, <2>2 DEF ToSet
<1>. QED
  BY <1>1, <1>6, <1>7 DEF c

\* The stubs of a page are finitely many.
LEMMA StubsAreCounted ==
    ASSUME NEW units \in Seq(UnitType)
    PROVE  StubsSkipped(units) \in Nat
<1>1. IsFiniteSet(1..Len(units)) /\ Cardinality(1..Len(units)) = Len(units)
  <2>1. Len(units) \in Nat
    OBVIOUS
  <2>. QED
    BY <2>1, FS_Interval, SMTT(30)
<1>2. Kept(units) \in SUBSET (1..Len(units))
  BY DEF Kept
<1>3. /\ Cardinality(Kept(units)) \in Nat /\ Cardinality(Kept(units)) <= Len(units)
  BY <1>1, <1>2, FS_Subset, FS_CardinalityType
<1>. QED
  BY <1>3 DEF StubsSkipped

\* What a page adds: its nodes whose text no other page owns, and those texts.
LEMMA AdmittedNodes ==
    ASSUME NEW page \in Pages, NEW owners
    PROVE  LET nodes == NodesOf[page]
               admitted == Admitted(nodes, owners, page)
               after == OwnersAfter(admitted, owners, page)
           IN  /\ admitted \in Seq(NodeType(page.id)) /\ ToSet(admitted) \subseteq ToSet(nodes)
               /\ Len(nodes) - Len(admitted) \in Nat
               /\ \A d \in DOMAIN owners : d \in DOMAIN after /\ after[d] = owners[d]
               /\ \A n \in ToSet(admitted) :
                     /\ n \in NodeType(page.id)
                     /\ TextDigest(n) \in DOMAIN after /\ after[TextDigest(n)] = page.id
               /\ \A d \in DOMAIN after :
                     \/ d \in DOMAIN owners /\ after[d] = owners[d]
                     \/ after[d] = page.id /\ \E n \in ToSet(admitted) : d = TextDigest(n)
<1>. DEFINE nodes == NodesOf[page]
            own == {n \in ToSet(nodes) : TextDigest(n) \in DOMAIN owners
                                            => owners[TextDigest(n)] = page.id}
            admitted == Admitted(nodes, owners, page)
            after == OwnersAfter(admitted, owners, page)
            N == NodeType(page.id)
<1>1. nodes \in Seq(N)
  BY NodesOfAPage
<1>2. admitted = Filter(nodes, own)
  BY DEF Admitted
<1>3. /\ admitted \in Seq(N \cap own) /\ ToSet(admitted) = ToSet(nodes) \cap own
      /\ Len(admitted) \in 0..Len(nodes)
  <2>. HIDE DEF N, own, nodes, admitted
  <2>. QED
    BY <1>1, <1>2, FilterTypes, FilterShorter
<1>4. Len(nodes) - Len(admitted) \in Nat
  <2>1. Len(nodes) \in Nat
    <3>. HIDE DEF N, nodes
    <3>. QED
      BY <1>1
  <2>. HIDE DEF nodes, admitted
  <2>. QED
    BY <1>3, <2>1
<1>5. admitted \in Seq(N)
  <2>. HIDE DEF N, own, nodes, admitted
  <2>. QED
    BY <1>3, SeqMonotonic
<1>6. \A n \in ToSet(admitted) : n \in N /\ n \in own
  <2>. HIDE DEF N, own, admitted, nodes
  <2>1. admitted \in [1..Len(admitted) -> N] /\ DOMAIN admitted = 1..Len(admitted)
    BY <1>5
  <2>. QED
    BY <1>3, <2>1 DEF ToSet
<1>7. after = [d \in DOMAIN owners \cup {TextDigest(n) : n \in ToSet(admitted)} |->
                  IF d \in DOMAIN owners THEN owners[d] ELSE page.id]
  BY DEF OwnersAfter
<1>. HIDE DEF after, admitted, nodes, N
<1>8. \A d \in DOMAIN owners : d \in DOMAIN after /\ after[d] = owners[d]
  BY <1>7
<1>9. \A n \in ToSet(admitted) : TextDigest(n) \in DOMAIN after /\ after[TextDigest(n)] = page.id
  BY <1>6, <1>7
<1>10. \A d \in DOMAIN after :
          \/ d \in DOMAIN owners /\ after[d] = owners[d]
          \/ after[d] = page.id /\ \E n \in ToSet(admitted) : d = TextDigest(n)
  BY <1>7
<1>. QED
  BY <1>3, <1>4, <1>5, <1>6, <1>8, <1>9, <1>10 DEF after, admitted, nodes, N

\* The last flush takes what is pending.
LEMMA FlushRestStep ==
    ASSUME PageIndexInv, FlushRest
    PROVE  PageIndexInv'
<1>. USE DEF PageIndexInv
<1>1. /\ job.pc = "pages" /\ job' = [job EXCEPT !.pc = "cache"]
      /\ UNCHANGED <<model, points, cache, flush>>
  BY DEF FlushRest
<1>2. /\ job'.pc = "cache" /\ job'.state = job.state /\ job'.run = job.run
      /\ job'.pages = job.pages /\ job'.at = job.at /\ job'.pending = job.pending
      /\ job'.owners = job.owners /\ job'.counts = job.counts
      /\ job'.quarantine = job.quarantine /\ DOMAIN job' = DOMAIN job
  BY <1>1 DEF LocalTypes
<1>3. TypeOK'
  BY <1>1, <1>2 DEF TypeOK
<1>4. LocalTypes' /\ CacheKeyed' /\ VectorsMatch' /\ OnePageOwnsText' /\ PendingWasRead'
  BY <1>1, <1>2 DEF LocalTypes, CacheKeyed, VectorsMatch, OnePageOwnsText, PendingWasRead
<1>5. PointsWereRead' /\ TextsOwned'
  BY <1>1, <1>2 DEF PointsWereRead, TextsOwned, Active, RunPoints
<1>6. FlushCovers' /\ StartsEmpty' /\ NoneQuarantined' /\ QuarantineIsExact'
  BY <1>1, <1>2 DEF FlushCovers, Flushing, StartsEmpty, NoneQuarantined, QuarantineIsExact, RunPoints
<1>. QED
  BY <1>3, <1>4, <1>5, <1>6

\* A run completes with nothing pending.
LEMMA FinishStep ==
    ASSUME PageIndexInv, Finish
    PROVE  PageIndexInv'
<1>. USE DEF PageIndexInv
<1>1. /\ job.pc = "pages" /\ job' = [job EXCEPT !.pc = "idle", !.state = "complete"]
      /\ UNCHANGED <<model, points, cache, flush>>
  BY DEF Finish
<1>2. /\ job'.pc = "idle" /\ job'.state = "complete" /\ job'.run = job.run
      /\ job'.pages = job.pages /\ job'.at = job.at /\ job'.pending = job.pending
      /\ job'.owners = job.owners /\ job'.counts = job.counts
      /\ job'.quarantine = job.quarantine /\ DOMAIN job' = DOMAIN job
  BY <1>1 DEF LocalTypes
<1>3. TypeOK'
  BY <1>1, <1>2 DEF TypeOK
<1>4. LocalTypes' /\ CacheKeyed' /\ VectorsMatch' /\ OnePageOwnsText' /\ PendingWasRead'
  BY <1>1, <1>2 DEF LocalTypes, CacheKeyed, VectorsMatch, OnePageOwnsText, PendingWasRead
<1>5. PointsWereRead' /\ TextsOwned' /\ FlushCovers' /\ StartsEmpty' /\ NoneQuarantined'
  BY <1>2 DEF PointsWereRead, TextsOwned, FlushCovers, StartsEmpty, NoneQuarantined, Active, Flushing
<1>6. QuarantineIsExact'
  BY <1>1, <1>2 DEF QuarantineIsExact, RunPoints
<1>. QED
  BY <1>3, <1>4, <1>5, <1>6

\* The page that is read next.
LEMMA NextPage ==
    ASSUME PageIndexInv, job.at < Len(job.pages)
    PROVE  /\ job.at + 1 \in 1..Len(job.pages) /\ job.at \in Nat
           /\ job.pages[job.at + 1] \in Pages
           /\ \A i \in 1..job.at : /\ i \in 1..(job.at + 1)
                                   /\ job.pages[i].id # job.pages[job.at + 1].id
<1>1. job.pages \in PageLists \cup {<<>>} /\ job.at \in 0..Len(job.pages)
  BY DEF PageIndexInv, TypeOK
<1>. DEFINE pages == job.pages
<1>2. /\ Len(pages) \in Nat
      /\ \A i, j \in 1..Len(pages) : pages[i].id = pages[j].id => i = j
      /\ \A i \in 1..Len(pages) : pages[i] \in Pages
  BY <1>1, PagesOfAList
<1>3. job.at + 1 \in 1..Len(pages) /\ \A i \in 1..job.at : i \in 1..Len(pages) /\ i # job.at + 1
  BY <1>1, <1>2
<1>. QED
  BY <1>1, <1>2, <1>3

\* Counting is a step from counts to counts.
LEMMA CountsAreCounts ==
    ASSUME NEW c \in Counts
    PROVE  /\ Counts = [{"seen", "english", "unusable", "lang", "empty", "upserted",
                         "repeat", "stub"} -> Nat]
           /\ \A verdict : Skip(c, verdict) \in Counts
           /\ \A more, stubs \in Nat :
                 [c EXCEPT !.seen = @ + 1, !.english = @ + 1, !.stub = @ + stubs,
                           !.repeat = @ + more] \in Counts
           /\ \A more \in Nat : [c EXCEPT !.upserted = @ + more] \in Counts
<1>. DEFINE F == {"seen", "english", "unusable", "lang", "empty", "upserted", "repeat", "stub"}
<1>1. DOMAIN NoCounts = F
  BY DEF NoCounts
<1>2. Counts = [F -> Nat]
  BY <1>1 DEF Counts
<1>3. /\ DOMAIN c = F /\ \A f \in F : c[f] \in Nat
  BY <1>2
<1>4. ASSUME NEW verdict PROVE Skip(c, verdict) \in [F -> Nat]
  <2>1. DOMAIN Skip(c, verdict) = F /\ Skip(c, verdict) = [f \in F |-> Skip(c, verdict)[f]]
    BY <1>3 DEF Skip
  <2>. DEFINE d == Skip(c, verdict)
  <2>3. /\ d["seen"] = c["seen"] + 1 /\ d["english"] = c["english"]
        /\ d["unusable"] = c["unusable"] + 1
        /\ d["lang"] \in {c["lang"], c["lang"] + 1} /\ d["empty"] \in {c["empty"], c["empty"] + 1}
        /\ d["upserted"] = c["upserted"] /\ d["repeat"] = c["repeat"] /\ d["stub"] = c["stub"]
    BY <1>3 DEF Skip
  <2>. HIDE DEF d
  <2>2. \A f \in F : d[f] \in Nat
    BY <1>3, <2>3
  <2>. USE DEF d
  <2>. QED
    BY <2>1, <2>2
<1>5. ASSUME NEW more \in Nat, NEW stubs \in Nat
      PROVE  [c EXCEPT !.seen = @ + 1, !.english = @ + 1, !.stub = @ + stubs,
                       !.repeat = @ + more] \in [F -> Nat]
  <2>. DEFINE d == [c EXCEPT !.seen = @ + 1, !.english = @ + 1, !.stub = @ + stubs,
                             !.repeat = @ + more]
  <2>1. DOMAIN d = F /\ d = [f \in F |-> d[f]]
    BY <1>3
  <2>4. /\ d["seen"] = c["seen"] + 1 /\ d["english"] = c["english"] + 1
        /\ d["unusable"] = c["unusable"] /\ d["lang"] = c["lang"] /\ d["empty"] = c["empty"]
        /\ d["upserted"] = c["upserted"] /\ d["repeat"] = c["repeat"] + more
        /\ d["stub"] = c["stub"] + stubs
    BY <1>3
  <2>. HIDE DEF d
  <2>2. \A f \in F : d[f] \in Nat
    BY <1>3, <2>4
  <2>3. d \in [F -> Nat]
    BY <2>1, <2>2
  <2>. QED
    BY <2>3 DEF d
<1>6. \A more \in Nat : [c EXCEPT !.upserted = @ + more] \in [F -> Nat]
  BY <1>2
<1>. QED
  BY <1>2, <1>4, <1>5, <1>6

\* A page that is skipped leaves nodes and owners alone (_skip_unusable).
LEMMA SkipStep ==
    ASSUME PageIndexInv, ReadPage, SkipPage(job.pages[job.at + 1])
    PROVE  PageIndexInv'
<1>. USE DEF PageIndexInv
<1>. DEFINE counted == Skip(job.counts, Verdict(job.pages[job.at + 1]))
<1>1. /\ job.pc = "pages" /\ job.at < Len(job.pages)
      /\ job' = [job EXCEPT !.at = @ + 1, !.counts = counted]
      /\ UNCHANGED <<model, points, cache, flush>>
  BY DEF ReadPage, SkipPage
<1>2. counted \in Counts
  BY CountsAreCounts DEF TypeOK
<1>3. /\ job'.pc = job.pc /\ job'.state = job.state /\ job'.run = job.run
      /\ job'.pages = job.pages /\ job'.at = job.at + 1 /\ job'.pending = job.pending
      /\ job'.owners = job.owners /\ job'.counts = counted
      /\ job'.quarantine = job.quarantine /\ DOMAIN job' = DOMAIN job
  BY <1>1 DEF LocalTypes
<1>. HIDE DEF counted
<1>4. job.at + 1 \in 1..Len(job.pages) /\ \A i \in 1..job.at : i \in 1..(job.at + 1)
  BY <1>1, NextPage
<1>5. TypeOK'
  <2>1. job.at + 1 \in 0..Len(job.pages)
    BY <1>4
  <2>. QED
    BY <1>1, <1>2, <1>3, <2>1 DEF TypeOK
<1>6. LocalTypes' /\ CacheKeyed' /\ VectorsMatch' /\ OnePageOwnsText'
  BY <1>1, <1>3 DEF LocalTypes, CacheKeyed, VectorsMatch, OnePageOwnsText
<1>7. PendingWasRead'
  BY <1>3, <1>4 DEF PendingWasRead
<1>8. PointsWereRead' /\ TextsOwned'
  BY <1>1, <1>3, <1>4 DEF PointsWereRead, TextsOwned, Active, RunPoints
<1>9. FlushCovers'
  BY <1>1, <1>3 DEF FlushCovers, Flushing
<1>10. StartsEmpty'
  BY <1>1, <1>3 DEF StartsEmpty, RunPoints
<1>11. NoneQuarantined'
  BY <1>1, <1>3 DEF NoneQuarantined
<1>12. QuarantineIsExact'
  BY <1>1, <1>3 DEF QuarantineIsExact, RunPoints
<1>. QED
  BY <1>5, <1>6, <1>7, <1>8, <1>9, <1>10, <1>11, <1>12

\* A page that is indexed adds nodes of its own and owns their texts
\* (_admit_page_nodes).
LEMMA IndexStep ==
    ASSUME PageIndexInv, ReadPage, IndexPage(job.pages[job.at + 1])
    PROVE  PageIndexInv'
<1>. USE DEF PageIndexInv
<1>. DEFINE page == job.pages[job.at + 1]
            nodes == NodesOf[page]
            admitted == Admitted(nodes, job.owners, page)
            after == OwnersAfter(admitted, job.owners, page)
            pending == job.pending \o admitted
            counted == [job.counts EXCEPT !.seen = @ + 1,
                                          !.english = @ + 1,
                                          !.stub = @ + StubsSkipped(UnitsOf[page]),
                                          !.repeat = @ + (Len(nodes) - Len(admitted))]
            next == IF Len(pending) >= BatchSize THEN "cache" ELSE "pages"
<1>1. /\ job.pc = "pages" /\ job.at < Len(job.pages)
      /\ job' = [job EXCEPT !.at = @ + 1, !.owners = after, !.counts = counted,
                            !.pending = pending, !.pc = next]
      /\ UNCHANGED <<model, points, cache, flush>>
  <2>1. job.pc = "pages" /\ job.at < Len(job.pages) /\ UNCHANGED <<model, points, cache, flush>>
    BY DEF ReadPage
  <2>2. IndexPage(page)
    OBVIOUS
  <2>3. job' = [job EXCEPT !.at = @ + 1, !.owners = after, !.counts = counted,
                           !.pending = pending, !.pc = next]
    <3>. HIDE DEF page
    <3>. QED
      BY <2>2, Zenon DEF IndexPage
  <2>. QED
    BY <2>1, <2>3
<1>2. /\ page \in Pages /\ job.at + 1 \in 1..Len(job.pages) /\ job.at \in Nat
      /\ \A i \in 1..job.at : i \in 1..(job.at + 1) /\ job.pages[i].id # page.id
  BY <1>1, NextPage
<1>3. page.id \in PageIds /\ StubsSkipped(UnitsOf[page]) \in Nat
  BY <1>2, NodesOfAPage, StubsAreCounted
<1>4. /\ admitted \in Seq(NodeType(page.id)) /\ ToSet(admitted) \subseteq ToSet(nodes)
      /\ Len(nodes) - Len(admitted) \in Nat
      /\ \A d \in DOMAIN job.owners : d \in DOMAIN after /\ after[d] = job.owners[d]
      /\ \A n \in ToSet(admitted) :
            /\ n \in NodeType(page.id)
            /\ TextDigest(n) \in DOMAIN after /\ after[TextDigest(n)] = page.id
      /\ \A d \in DOMAIN after :
            \/ d \in DOMAIN job.owners /\ after[d] = job.owners[d]
            \/ after[d] = page.id /\ \E n \in ToSet(admitted) : d = TextDigest(n)
  BY <1>2, AdmittedNodes
<1>5. counted \in Counts
  <2>. DEFINE more == Len(nodes) - Len(admitted)
              stubs == StubsSkipped(UnitsOf[page])
  <2>1. more \in Nat /\ stubs \in Nat /\ job.counts \in Counts
    BY <1>3, <1>4 DEF TypeOK
  <2>2. counted = [job.counts EXCEPT !.seen = @ + 1, !.english = @ + 1, !.stub = @ + stubs,
                                     !.repeat = @ + more]
    OBVIOUS
  <2>. HIDE DEF more, stubs, counted
  <2>. QED
    BY <2>1, <2>2, CountsAreCounts
<1>6. \A n \in ToSet(admitted) : n.page = page.id /\ TextDigest(n) \in Short /\ n \in NodesAny
  <2>1. ASSUME NEW n \in ToSet(admitted)
        PROVE  n.page = page.id /\ TextDigest(n) \in Short /\ n \in NodesAny
    <3>1. n \in NodeType(page.id)
      BY <1>4
    <3>2. n.page = page.id /\ n.text \in Short
      BY <3>1 DEF NodeType, Short
    <3>. QED
      BY <1>3, <3>1, <3>2, SanitizeFits DEF NodeType, NodesAny, Short, TextDigest
  <2>. QED
    BY <2>1
<1>. HIDE DEF nodes, admitted
<1>7. pending \in Seq(NodesAny) /\ ToSet(pending) = ToSet(job.pending) \cup ToSet(admitted)
  <2>1. NodeType(page.id) \subseteq NodesAny
    BY <1>3 DEF NodeType, NodesAny, Short
  <2>2. admitted \in Seq(NodesAny)
    BY <1>4, <2>1, SeqMonotonic
  <2>3. job.pending \in Seq(NodesAny)
    BY DEF LocalTypes
  <2>. QED
    BY <2>2, <2>3, ConcatHolds
<1>8. next \in {"cache", "pages"}
  OBVIOUS
<1>. HIDE DEF pending, after, counted, next
<1>9. /\ job'.pc = next /\ job'.state = job.state /\ job'.run = job.run
      /\ job'.pages = job.pages /\ job'.at = job.at + 1 /\ job'.pending = pending
      /\ job'.owners = after /\ job'.counts = counted
      /\ job'.quarantine = job.quarantine /\ DOMAIN job' = DOMAIN job
  BY <1>1 DEF LocalTypes
<1>. HIDE DEF page
<1>10. TypeOK'
  <2>1. \A d \in DOMAIN after : after[d] \in PageIds
    BY <1>3, <1>4 DEF TypeOK
  <2>2. \A n \in ToSet(pending) : n.page \in PageIds
    BY <1>3, <1>6, <1>7 DEF TypeOK
  <2>3. job.at + 1 \in 0..Len(job.pages)
    BY <1>2
  <2>. QED
    BY <1>1, <1>5, <1>8, <1>9, <2>1, <2>2, <2>3 DEF TypeOK
<1>11. LocalTypes'
  <2>1. DOMAIN after \subseteq Short
    BY <1>4, <1>6 DEF LocalTypes
  <2>. QED
    BY <1>1, <1>7, <1>9, <2>1 DEF LocalTypes
<1>12. CacheKeyed' /\ VectorsMatch' /\ OnePageOwnsText'
  BY <1>1 DEF CacheKeyed, VectorsMatch, OnePageOwnsText
<1>13. PendingWasRead'
  <2>1. \A n \in ToSet(admitted) : n.page = page.id /\ n \in ToSet(NodesOf[page])
    BY <1>4, <1>6 DEF nodes
  <2>2. job.at + 1 \in 1..(job.at + 1) /\ page = job.pages[job.at + 1]
    BY <1>2 DEF page
  <2>. QED
    BY <1>2, <1>7, <1>9, <2>1, <2>2, SMTT(30) DEF PendingWasRead
<1>14. PointsWereRead'
  <2>1. ASSUME NEW p \in RunPoints(job.run)
        PROVE  /\ \E i \in 1..(job.at + 1) : job.pages[i].id = p.page
               /\ \A n \in ToSet(pending) : p.page # n.page
    <3>1. PICK i \in 1..job.at : job.pages[i].id = p.page
      BY <1>1, <2>1 DEF PointsWereRead, Active
    <3>2. \A n \in ToSet(job.pending) : p.page # n.page
      BY <1>1, <2>1 DEF PointsWereRead, Active
    <3>3. \A n \in ToSet(admitted) : p.page # n.page
      BY <1>2, <1>6, <3>1
    <3>. QED
      BY <1>2, <1>7, <3>1, <3>2, <3>3
  <2>2. RunPoints(job.run)' = RunPoints(job.run)
    BY <1>1, <1>9 DEF RunPoints
  <2>. QED
    BY <1>9, <2>1, <2>2 DEF PointsWereRead, RunPoints
<1>15. TextsOwned'
  <2>1. \A p \in RunPoints(job.run) : p.text \in DOMAIN after /\ after[p.text] = p.page
    BY <1>1, <1>4 DEF TextsOwned, Active
  <2>2. \A n \in ToSet(pending) : TextDigest(n) \in DOMAIN after /\ after[TextDigest(n)] = n.page
    BY <1>1, <1>4, <1>6, <1>7 DEF TextsOwned, Active
  <2>. QED
    BY <1>1, <1>9, <2>1, <2>2 DEF TextsOwned, RunPoints
<1>16. FlushCovers' /\ StartsEmpty' /\ NoneQuarantined'
  BY <1>1, <1>8, <1>9 DEF FlushCovers, Flushing, StartsEmpty, NoneQuarantined
<1>17. QuarantineIsExact'
  BY <1>1, <1>9 DEF QuarantineIsExact, RunPoints
<1>. QED
  BY <1>10, <1>11, <1>12, <1>13, <1>14, <1>15, <1>16, <1>17

-----------------------------------------------------------------------------
(* The flush.                                                               *)

\* Domain and members of a sequence.
LEMMA ElementsOf ==
    ASSUME NEW A, NEW s \in Seq(A)
    PROVE  /\ DOMAIN s = 1..Len(s) /\ Len(s) \in Nat
           /\ \A x \in ToSet(s) : x \in A
           /\ \A i \in 1..Len(s) : s[i] \in ToSet(s)
  BY DEF ToSet

\* A prefix holds nothing else.
LEMMA PrefixHolds ==
    ASSUME NEW A, NEW s \in Seq(A), NEW n \in 0..Len(s)
    PROVE  ToSet(SubSeq(s, 1, n)) \subseteq ToSet(s)
<1>1. DOMAIN SubSeq(s, 1, n) = 1..n /\ \A i \in 1..n : SubSeq(s, 1, n)[i] = s[i] /\ i \in DOMAIN s
  OBVIOUS
<1>. DEFINE first == SubSeq(s, 1, n)
<1>. HIDE DEF first
<1>2. ToSet(first) \subseteq ToSet(s)
  BY <1>1 DEF ToSet, first
<1>. QED
  BY <1>2 DEF first

\* The texts that are sent to the model are those of what is pending, sanitised.
LEMMA TextsArePending ==
    ASSUME PageIndexInv
    PROVE  /\ Texts \in Seq(Short)
           /\ DOMAIN Texts = DOMAIN job.pending
           /\ \A i \in DOMAIN job.pending : Texts[i] = TextDigest(job.pending[i])
           /\ ToSet(Texts) = {TextDigest(n) : n \in ToSet(job.pending)}
           /\ \A n \in ToSet(job.pending) : n \in NodesAny /\ TextDigest(n) \in Short
<1>1. job.pending \in Seq(NodesAny)
  BY DEF PageIndexInv, LocalTypes
<1>. DEFINE pending == job.pending
<1>2. /\ DOMAIN pending = 1..Len(pending) /\ Len(pending) \in Nat
      /\ \A n \in ToSet(pending) : n \in NodesAny
      /\ \A i \in 1..Len(pending) : pending[i] \in ToSet(pending)
  BY <1>1, ElementsOf
<1>3. \A n \in ToSet(pending) : TextDigest(n) \in Short
  BY <1>2, SanitizeFits DEF NodesAny, TextDigest
<1>4. Texts = [i \in DOMAIN pending |-> TextDigest(pending[i])]
  BY DEF Texts, TextDigest
<1>5. Texts \in Seq(Short)
  <2>1. Texts \in [1..Len(pending) -> Short]
    BY <1>2, <1>3, <1>4
  <2>. QED
    BY <1>2, <2>1
<1>6. ToSet(Texts) = {TextDigest(n) : n \in ToSet(pending)}
  BY <1>4 DEF ToSet
<1>. QED
  BY <1>2, <1>3, <1>4, <1>5, <1>6

\* What the cache answers is the vector of the text.
LEMMA HitsMatch ==
    ASSUME PageIndexInv, NEW texts
    PROVE  /\ DOMAIN Hits(texts) \subseteq ToSet(texts)
           /\ \A t \in DOMAIN Hits(texts) : Hits(texts)[t] = Vector(t)
<1>. DEFINE hit == {t \in ToSet(texts) : \E c \in cache : c.key = CacheKey(t)
                                             /\ Width[c.vector.model] = Width[model]}
<1>1. Hits(texts) = [t \in hit |-> (CHOOSE c \in cache : c.key = CacheKey(t)).vector]
  BY DEF Hits
<1>2. ASSUME NEW t \in hit PROVE (CHOOSE c \in cache : c.key = CacheKey(t)).vector = Vector(t)
  <2>1. \E c \in cache : c.key = CacheKey(t)
    OBVIOUS
  <2>2. PICK c \in cache : c.key = CacheKey(t) /\ c = CHOOSE d \in cache : d.key = CacheKey(t)
    BY <2>1
  <2>3. c.vector \in Vectors /\ c.key = <<c.vector.model, c.vector.text>>
    BY DEF PageIndexInv, CacheKeyed
  <2>4. c.vector.model = model /\ c.vector.text = t
    BY <2>2, <2>3 DEF CacheKey
  <2>5. c.vector = [model |-> model, text |-> t]
    BY <2>3, <2>4 DEF Vectors
  <2>. QED
    BY <2>2, <2>5 DEF Vector
<1>. HIDE DEF hit
<1>3. DOMAIN Hits(texts) = hit /\ \A t \in hit : Hits(texts)[t] = Vector(t)
  BY <1>1, <1>2
<1>4. hit \subseteq ToSet(texts)
  BY DEF hit
<1>. QED
  BY <1>3, <1>4

\* What the cache answers decides what is missing, and the batches hold that.
LEMMA AskStep ==
    ASSUME PageIndexInv, job.pc = "cache", NEW found, Ask(found),
           DOMAIN found \subseteq ToSet(Texts), \A t \in DOMAIN found : found[t] = Vector(t),
           UNCHANGED <<model, points, cache>>
    PROVE  PageIndexInv'
<1>. USE DEF PageIndexInv
<1>. DEFINE missing == Filter(Distinct(Texts), ToSet(Texts) \ DOMAIN found)
            next == IF missing = <<>> THEN "upsert" ELSE "embed"
<1>1. /\ flush' = [missing |-> missing, found |-> found, batches |-> Partition(missing),
                   vectors |-> <<>>]
      /\ job' = [job EXCEPT !.pc = next]
  BY DEF Ask
<1>2. missing \in Seq(Short) /\ ToSet(missing) = ToSet(Texts) \ DOMAIN found
  <2>. DEFINE asked == ToSet(Texts) \ DOMAIN found
              distinct == Distinct(Texts)
  <2>1. distinct \in Seq(Short) /\ ToSet(distinct) = ToSet(Texts)
    BY TextsArePending, DistinctHoldsAll
  <2>2. missing \in Seq(Short \cap asked) /\ ToSet(missing) = ToSet(distinct) \cap asked
    <3>1. /\ Filter(distinct, asked) \in Seq(Short \cap asked)
          /\ ToSet(Filter(distinct, asked)) = ToSet(distinct) \cap asked
      <4>. HIDE DEF asked, distinct, PageIndexInv
      <4>. QED
        BY <2>1, FilterTypes
    <3>. QED
      BY <3>1
  <2>. HIDE DEF missing
  <2>3. missing \in Seq(Short)
    BY <2>2, SeqMonotonic
  <2>. QED
    BY <2>1, <2>2, <2>3
<1>. HIDE DEF missing
<1>3. /\ Partition(missing) \in Seq(Batches) /\ FlattenSeq(Partition(missing)) = missing
      /\ Partition(missing) = <<>> <=> missing = <<>>
  BY <1>2, PartitionFits
<1>4. SubSeq(missing, 1, Len(missing)) = missing /\ Len(missing) \in Nat
      /\ (missing = <<>> => Len(missing) = 0)
  <2>. HIDE DEF Short
  <2>. QED
    BY <1>2
<1>5. next \in {"upsert", "embed"} /\ (next = "embed" <=> missing # <<>>)
  OBVIOUS
<1>. HIDE DEF next
<1>6. /\ job'.pc = next /\ job'.state = job.state /\ job'.run = job.run
      /\ job'.pages = job.pages /\ job'.at = job.at /\ job'.pending = job.pending
      /\ job'.owners = job.owners /\ job'.counts = job.counts
      /\ job'.quarantine = job.quarantine /\ DOMAIN job' = DOMAIN job
  BY <1>1 DEF LocalTypes
<1>7. /\ flush'.missing = missing /\ flush'.found = found /\ flush'.vectors = <<>>
      /\ flush'.batches = Partition(missing)
      /\ DOMAIN flush' = {"missing", "found", "batches", "vectors"}
  BY <1>1
<1>8. TypeOK'
  <2>1. next \in {"put", "upsert"} => Len(<<>>) = Len(missing)
    BY <1>4, <1>5
  <2>2. flush'.batches # <<>> <=> job'.pc = "embed"
    BY <1>3, <1>5, <1>6, <1>7
  <2>. QED
    BY <1>5, <1>6, <1>7, <2>1, <2>2 DEF TypeOK
<1>9. LocalTypes'
  <2>1. <<>> \in Seq(Vectors)
    OBVIOUS
  <2>. QED
    BY <1>2, <1>3, <1>6, <1>7, <2>1 DEF LocalTypes
<1>10. CacheKeyed' /\ VectorsMatch' /\ OnePageOwnsText' /\ PendingWasRead'
  BY <1>6 DEF CacheKeyed, VectorsMatch, OnePageOwnsText, PendingWasRead
<1>11. PointsWereRead' /\ TextsOwned'
  BY <1>5, <1>6 DEF PointsWereRead, TextsOwned, Active, RunPoints
<1>12. FlushCovers'
  <2>1. Texts' = Texts
    BY <1>6 DEF Texts
  <2>2. DOMAIN found \cup ToSet(missing) = ToSet(Texts)
    BY <1>2
  <2>3. FlattenSeq(Partition(missing)) = SubSeq(missing, Len(<<>>) + 1, Len(missing))
    BY <1>3, <1>4
  <2>4. \A t : Vector(t)' = Vector(t)
    BY DEF Vector
  <2>5. DOMAIN <<>> = {} /\ Len(<<>>) = 0
    OBVIOUS
  <2>. QED
    BY <1>4, <1>7, <2>1, <2>2, <2>3, <2>4, <2>5 DEF FlushCovers
<1>13. StartsEmpty' /\ NoneQuarantined' /\ QuarantineIsExact'
  BY <1>5, <1>6 DEF StartsEmpty, NoneQuarantined, QuarantineIsExact, RunPoints
<1>. QED
  BY <1>8, <1>9, <1>10, <1>11, <1>12, <1>13

\* So it does when the cache cannot be read.
LEMMA ReadCacheStep ==
    ASSUME PageIndexInv, ReadCache
    PROVE  PageIndexInv'
<1>1. job.pc = "cache" /\ UNCHANGED <<model, points, cache>>
  BY DEF ReadCache
<1>2. CASE Ask(Hits(Texts))
  BY <1>1, <1>2, HitsMatch, AskStep
<1>3. CASE Ask(<<>>)
  <2>1. DOMAIN <<>> = {}
    OBVIOUS
  <2>. QED
    BY <1>1, <1>3, <2>1, AskStep
<1>. QED
  BY <1>2, <1>3 DEF ReadCache

\* The first of the batches that are left holds the next texts that are missing.
LEMMA NextBatch ==
    ASSUME NEW batches \in Seq(Batches), batches # <<>>, NEW missing \in Seq(Short),
           NEW L \in 0..Len(missing),
           FlattenSeq(batches) = SubSeq(missing, L + 1, Len(missing))
    PROVE  LET batch == Head(batches)
           IN  /\ batch \in Batches /\ batch \in Seq(Short) /\ Tail(batches) \in Seq(Batches)
               /\ Len(batch) \in Nat /\ L + Len(batch) <= Len(missing)
               /\ \A i \in 1..Len(batch) : batch[i] = missing[L + i]
               /\ FlattenSeq(Tail(batches))
                     = SubSeq(missing, L + Len(batch) + 1, Len(missing))
               /\ Tail(batches) = <<>> => L + Len(batch) = Len(missing)
<1>. DEFINE batch == Head(batches)
            rest == Tail(batches)
            flat == FlattenSeq(rest)
            M == Len(missing)
<1>1. batch \in Batches /\ rest \in Seq(Batches) /\ batches = <<batch>> \o rest
  <2>1. batches[1] \in Batches /\ Head(batches) = batches[1] /\ rest \in Seq(Batches)
    OBVIOUS
  <2>2. batches = <<Head(batches)>> \o Tail(batches)
    OBVIOUS
  <2>. QED
    BY <2>1, <2>2
<1>2. batch \in Seq(Short) /\ rest \in Seq(Seq(Short))
  <2>1. Batches \subseteq Seq(Short)
    BY DEF Batches
  <2>. HIDE DEF batch, rest
  <2>2. rest \in Seq(Seq(Short))
    BY <1>1, <2>1, SeqMonotonic
  <2>. QED
    BY <1>1, <2>1, <2>2
<1>3. flat \in Seq(Short) /\ batch \o flat = SubSeq(missing, L + 1, M)
  <2>. HIDE DEF batch, rest
  <2>1. <<batch>> \in Seq(Seq(Short))
    <3>. DEFINE A == Seq(Short)
    <3>1. batch \in A
      BY <1>2
    <3>. HIDE DEF A
    <3>2. <<batch>> \in Seq(A)
      BY <3>1
    <3>. QED
      BY <3>2 DEF A
  <2>2. FlattenSeq(<<batch>>) = batch
    BY <1>2, FlattenOne
  <2>. QED
    BY <1>1, <1>2, <2>1, <2>2, FlattenConcat, FlattenTypes
<1>. HIDE DEF batch, flat
<1>4. Len(batch) \in Nat /\ Len(flat) \in Nat /\ M \in Nat /\ L \in Nat /\ L <= M
  BY <1>2, <1>3, LenProperties
<1>. DEFINE unsent == SubSeq(missing, L + 1, M)
<1>5. /\ unsent \in Seq(Short) /\ Len(unsent) = M - L
      /\ \A i \in 1..(M - L) : unsent[i] = missing[L + i]
  BY <1>4, SubSeqProperties
<1>6. /\ Len(batch) + Len(flat) = M - L
      /\ \A i \in 1..Len(batch) : unsent[i] = batch[i]
      /\ \A i \in 1..Len(flat) : unsent[Len(batch) + i] = flat[i]
  <2>1. /\ Len(batch \o flat) = Len(batch) + Len(flat)
        /\ \A i \in 1..(Len(batch) + Len(flat)) :
              (batch \o flat)[i] = IF i <= Len(batch) THEN batch[i] ELSE flat[i - Len(batch)]
    BY <1>2, <1>3, ConcatProperties
  <2>2. \A i \in 1..Len(batch) : i \in 1..(Len(batch) + Len(flat)) /\ i <= Len(batch)
    BY <1>4
  <2>3. \A i \in 1..Len(flat) : /\ Len(batch) + i \in 1..(Len(batch) + Len(flat))
                                /\ ~(Len(batch) + i <= Len(batch))
                                /\ (Len(batch) + i) - Len(batch) = i
    BY <1>4
  <2>. HIDE DEF unsent
  <2>. QED
    BY <1>3, <1>5, <2>1, <2>2, <2>3 DEF unsent
<1>. HIDE DEF unsent
<1>7. L + Len(batch) <= M /\ \A i \in 1..Len(batch) : batch[i] = missing[L + i]
  <2>1. \A i \in 1..Len(batch) : i \in 1..(M - L)
    BY <1>4, <1>6
  <2>. QED
    BY <1>4, <1>5, <1>6, <2>1
<1>8. flat = SubSeq(missing, L + Len(batch) + 1, M)
  <2>. DEFINE later == SubSeq(missing, L + Len(batch) + 1, M)
  <2>1. /\ later \in Seq(Short) /\ Len(later) = M - (L + Len(batch))
        /\ \A i \in 1..(M - (L + Len(batch))) : later[i] = missing[L + Len(batch) + i]
    <3>1. L + Len(batch) + 1 \in 1..(M + 1) /\ M \in 0..M
      BY <1>4, <1>7
    <3>. QED
      BY <1>4, <1>7, <3>1, SubSeqProperties
  <2>2. Len(flat) = Len(later)
    BY <1>4, <1>6, <2>1
  <2>3. ASSUME NEW i \in 1..Len(flat) PROVE flat[i] = later[i]
    <3>1. /\ i \in 1..(M - (L + Len(batch))) /\ Len(batch) + i \in 1..(M - L)
          /\ L + (Len(batch) + i) = L + Len(batch) + i
      BY <1>4, <1>6
    <3>2. flat[i] = unsent[Len(batch) + i]
      BY <1>6
    <3>3. unsent[Len(batch) + i] = missing[L + (Len(batch) + i)]
      BY <1>5, <3>1
    <3>. QED
      BY <2>1, <3>1, <3>2, <3>3
  <2>. HIDE DEF later
  <2>4. flat = later
    BY <1>3, <2>1, <2>2, <2>3, SeqEqual
  <2>. QED
    BY <2>4 DEF later
<1>9. rest = <<>> => L + Len(batch) = M
  <2>. SUFFICES ASSUME rest = <<>> PROVE L + Len(batch) = M
    OBVIOUS
  <2>1. flat = <<>>
    BY NothingInIt DEF flat
  <2>2. Len(flat) = 0
    BY <2>1
  <2>. QED
    BY <1>4, <1>6, <2>2
<1>. QED
  BY <1>1, <1>2, <1>4, <1>7, <1>8, <1>9 DEF batch, flat

\* The model answers with a vector.
LEMMA VectorTypes ==
    ASSUME PageIndexInv, NEW t \in Short
    PROVE  Vector(t) \in Vectors
  BY DEF PageIndexInv, TypeOK, Vectors, Vector

\* An embed call moves one batch from the texts that are missing to the vectors
\* (_embed_batch).
LEMMA EmbedStep ==
    ASSUME PageIndexInv, EmbedBatch
    PROVE  PageIndexInv'
<1>. DEFINE batch == Head(flush.batches)
            rest == Tail(flush.batches)
            missing == flush.missing
            L == Len(flush.vectors)
            answer == [i \in DOMAIN batch |-> Vector(batch[i])]
            next == IF rest = <<>> THEN "put" ELSE "embed"
<1>1. job.pc = "embed" /\ UNCHANGED <<model, points, cache>>
  BY DEF EmbedBatch
<1>2. /\ flush' = [flush EXCEPT !.batches = rest, !.vectors = flush.vectors \o answer]
      /\ job' = [job EXCEPT !.pc = next]
  BY <1>1 DEF EmbedBatch
<1>3. /\ TypeOK /\ LocalTypes /\ FlushCovers /\ flush.batches # <<>>
      /\ flush.batches \in Seq(Batches) /\ missing \in Seq(Short) /\ flush.vectors \in Seq(Vectors)
  BY <1>1 DEF PageIndexInv, TypeOK, LocalTypes
<1>4. /\ DOMAIN flush.found \cup ToSet(missing) = ToSet(Texts)
      /\ \A t \in DOMAIN flush.found : flush.found[t] = Vector(t)
      /\ L <= Len(missing)
      /\ \A i \in DOMAIN flush.vectors : flush.vectors[i] = Vector(missing[i])
      /\ FlattenSeq(flush.batches) = SubSeq(missing, L + 1, Len(missing))
  BY <1>1, <1>3 DEF FlushCovers, Flushing
<1>5. L \in 0..Len(missing) /\ DOMAIN flush.vectors = 1..L /\ L \in Nat /\ Len(missing) \in Nat
  BY <1>3, <1>4, ElementsOf
<1>6. /\ batch \in Seq(Short) /\ rest \in Seq(Batches)
      /\ Len(batch) \in Nat /\ L + Len(batch) <= Len(missing)
      /\ \A i \in 1..Len(batch) : batch[i] = missing[L + i]
      /\ FlattenSeq(rest) = SubSeq(missing, L + Len(batch) + 1, Len(missing))
      /\ rest = <<>> => L + Len(batch) = Len(missing)
  BY <1>3, <1>4, <1>5, NextBatch
<1>. HIDE DEF batch, rest
<1>7. /\ answer \in Seq(Vectors) /\ Len(answer) = Len(batch)
      /\ \A i \in 1..Len(batch) : answer[i] = Vector(missing[L + i])
  <2>1. DOMAIN batch = 1..Len(batch) /\ \A i \in 1..Len(batch) : batch[i] \in Short
    BY <1>6, ElementsOf
  <2>2. answer \in [1..Len(batch) -> Vectors]
    BY <2>1, VectorTypes
  <2>3. \A i \in 1..Len(batch) : answer[i] = Vector(missing[L + i])
    BY <1>6, <2>1
  <2>. HIDE DEF answer
  <2>4. answer \in Seq(Vectors)
    BY <1>6, <2>2, SMTT(30)
  <2>5. Len(answer) = Len(batch)
    BY <1>6, <2>2
  <2>. QED
    BY <2>3, <2>4, <2>5
<1>. HIDE DEF answer
<1>. DEFINE vectors == flush.vectors \o answer
<1>8. /\ vectors \in Seq(Vectors) /\ Len(vectors) = L + Len(batch)
      /\ \A i \in 1..(L + Len(batch)) : vectors[i] = Vector(missing[i])
  <2>1. /\ vectors \in Seq(Vectors) /\ Len(vectors) = L + Len(batch)
        /\ \A i \in 1..(L + Len(batch)) :
              vectors[i] = IF i <= L THEN flush.vectors[i] ELSE answer[i - L]
    <3>1. flush.vectors \in Seq(Vectors) /\ answer \in Seq(Vectors)
      BY <1>3, <1>7
    <3>2. /\ vectors \in Seq(Vectors) /\ Len(vectors) = L + Len(answer)
          /\ \A i \in 1..(L + Len(answer)) :
                vectors[i] = IF i <= L THEN flush.vectors[i] ELSE answer[i - L]
      BY <3>1, ConcatProperties
    <3>. HIDE DEF vectors
    <3>. QED
      BY <1>7, <3>2
  <2>. HIDE DEF vectors
  <2>2. ASSUME NEW i \in 1..(L + Len(batch)) PROVE vectors[i] = Vector(missing[i])
    <3>1. CASE i <= L
      <4>1. i \in 1..L
        BY <1>5, <3>1
      <4>2. vectors[i] = flush.vectors[i]
        BY <2>1, <3>1
      <4>. QED
        BY <1>4, <1>5, <4>1, <4>2
    <3>2. CASE ~(i <= L)
      <4>1. i - L \in 1..Len(batch) /\ L + (i - L) = i
        BY <1>5, <1>6, <3>2
      <4>2. answer[i - L] = Vector(missing[L + (i - L)])
        BY <1>7, <4>1
      <4>. QED
        BY <2>1, <3>2, <4>1, <4>2
    <3>. QED
      BY <3>1, <3>2
  <2>. QED
    BY <2>1, <2>2
<1>. HIDE DEF vectors
<1>9. /\ flush'.missing = missing /\ flush'.found = flush.found /\ flush'.vectors = vectors
      /\ flush'.batches = rest
      /\ DOMAIN flush' = {"missing", "found", "batches", "vectors"}
  BY <1>2, <1>3 DEF LocalTypes, vectors
<1>10. next \in {"put", "embed"} /\ (next = "embed" <=> rest # <<>>)
  OBVIOUS
<1>. HIDE DEF next
<1>11. /\ job'.pc = next /\ job'.state = job.state /\ job'.run = job.run
       /\ job'.pages = job.pages /\ job'.at = job.at /\ job'.pending = job.pending
       /\ job'.owners = job.owners /\ job'.counts = job.counts
       /\ job'.quarantine = job.quarantine /\ DOMAIN job' = DOMAIN job
  BY <1>2, <1>3 DEF LocalTypes
<1>12. TypeOK'
  <2>1. flush'.batches # <<>> <=> job'.pc = "embed"
    BY <1>9, <1>10, <1>11
  <2>2. job'.pc \in {"put", "upsert"} => Len(flush'.vectors) = Len(flush'.missing)
    BY <1>6, <1>8, <1>9, <1>10, <1>11
  <2>. QED
    BY <1>1, <1>3, <1>10, <1>11, <2>1, <2>2 DEF TypeOK
<1>13. LocalTypes'
  BY <1>1, <1>3, <1>6, <1>8, <1>9, <1>11 DEF LocalTypes
<1>14. CacheKeyed' /\ VectorsMatch' /\ OnePageOwnsText' /\ PendingWasRead'
  BY <1>1, <1>11 DEF PageIndexInv, CacheKeyed, VectorsMatch, OnePageOwnsText, PendingWasRead
<1>15. PointsWereRead' /\ TextsOwned'
  BY <1>1, <1>10, <1>11 DEF PageIndexInv, PointsWereRead, TextsOwned, Active, RunPoints
<1>16. FlushCovers'
  <2>1. Texts' = Texts
    BY <1>11 DEF Texts
  <2>2. \A t : Vector(t)' = Vector(t)
    BY <1>1 DEF Vector
  <2>3. DOMAIN vectors = 1..(L + Len(batch))
    BY <1>8, ElementsOf
  <2>4. \A t \in DOMAIN flush.found : flush.found[t] = Vector(t)'
    BY <1>4, <2>2
  <2>5. \A i \in DOMAIN vectors : vectors[i] = Vector(missing[i])
    BY <1>8, <2>3
  <2>6. \A i \in DOMAIN vectors : vectors[i] = [model |-> model', text |-> missing[i]]
    BY <1>1, <2>5 DEF Vector
  <2>7. /\ DOMAIN flush.found \cup ToSet(missing) = ToSet(Texts)
        /\ Len(vectors) <= Len(missing)
        /\ FlattenSeq(rest) = SubSeq(missing, Len(vectors) + 1, Len(missing))
    BY <1>4, <1>6, <1>8
  <2>. HIDE DEF missing
  <2>8. flush'.missing = missing
    BY <1>9
  <2>. QED
    BY <1>9, <2>1, <2>4, <2>6, <2>7, <2>8 DEF FlushCovers, Vector
<1>17. StartsEmpty' /\ NoneQuarantined' /\ QuarantineIsExact'
  BY <1>1, <1>10, <1>11 DEF PageIndexInv, StartsEmpty, NoneQuarantined, QuarantineIsExact, RunPoints
<1>. QED
  BY <1>12, <1>13, <1>14, <1>15, <1>16, <1>17 DEF PageIndexInv

\* What was embedded anew has the vector of its text.
LEMMA FreshMatches ==
    ASSUME PageIndexInv, job.pc \in {"put", "upsert"}
    PROVE  /\ DOMAIN Fresh = ToSet(flush.missing)
           /\ \A t \in ToSet(flush.missing) : t \in Short /\ Fresh[t] = Vector(t)
<1>. DEFINE missing == flush.missing
<1>1. /\ missing \in Seq(Short) /\ Len(flush.vectors) = Len(missing)
      /\ flush.vectors \in Seq(Vectors)
      /\ \A i \in DOMAIN flush.vectors : flush.vectors[i] = Vector(missing[i])
  BY DEF PageIndexInv, TypeOK, LocalTypes, FlushCovers, Flushing
<1>2. DOMAIN missing = DOMAIN flush.vectors
  BY <1>1, ElementsOf
<1>3. ASSUME NEW t \in ToSet(missing)
      PROVE  flush.vectors[CHOOSE i \in DOMAIN missing : missing[i] = t] = Vector(t)
  <2>1. \E i \in DOMAIN missing : missing[i] = t
    BY DEF ToSet
  <2>2. PICK k \in DOMAIN missing : missing[k] = t /\ k = CHOOSE i \in DOMAIN missing : missing[i] = t
    BY <2>1
  <2>. QED
    BY <1>1, <1>2, <2>2
<1>4. \A t \in ToSet(missing) : t \in Short
  BY <1>1, ElementsOf
<1>. QED
  BY <1>3, <1>4 DEF Fresh

\* What is written to the cache is under its own model and text (put_many).
LEMMA PutKeepsKeys ==
    ASSUME PageIndexInv, job.pc = "put", NEW texts, ToSet(texts) \subseteq ToSet(flush.missing),
           Put(texts)
    PROVE  \A c \in cache' : /\ c.vector \in Vectors /\ c.vector.model \in Models
                             /\ c.key = <<c.vector.model, c.vector.text>>
<1>1. ASSUME NEW c \in cache' PROVE /\ c.vector \in Vectors
                                    /\ c.key = <<c.vector.model, c.vector.text>>
  <2>1. c \in cache \/ \E t \in ToSet(texts) : c = [key |-> CacheKey(t), vector |-> Fresh[t]]
    BY DEF Put
  <2>2. CASE c \in cache
    BY <2>2 DEF PageIndexInv, CacheKeyed
  <2>3. CASE \E t \in ToSet(texts) : c = [key |-> CacheKey(t), vector |-> Fresh[t]]
    <3>1. PICK t \in ToSet(texts) : c = [key |-> CacheKey(t), vector |-> Fresh[t]]
      BY <2>3
    <3>2. Fresh[t] = Vector(t) /\ t \in Short
      BY FreshMatches
    <3>3. Vector(t) \in Vectors
      BY <3>2, VectorTypes
    <3>. QED
      BY <3>1, <3>2, <3>3 DEF CacheKey, Vector
  <2>. QED
    BY <2>1, <2>2, <2>3
<1>. QED
  BY <1>1 DEF Vectors

\* The write keeps the invariant, whole or broken off.
LEMMA WriteCacheStep ==
    ASSUME PageIndexInv, WriteCache
    PROVE  PageIndexInv'
<1>1. /\ job.pc = "put" /\ job' = [job EXCEPT !.pc = "upsert"]
      /\ UNCHANGED <<model, points, flush>>
  BY DEF WriteCache
<1>2. \E texts : ToSet(texts) \subseteq ToSet(flush.missing) /\ Put(texts)
  <2>1. CASE Put(flush.missing)
    BY <2>1
  <2>2. CASE \E n \in 0..(Len(flush.missing) - 1) : Put(SubSeq(flush.missing, 1, n))
    <3>1. PICK n \in 0..(Len(flush.missing) - 1) : Put(SubSeq(flush.missing, 1, n))
      BY <2>2
    <3>2. flush.missing \in Seq(Short)
      BY DEF PageIndexInv, LocalTypes
    <3>3. ToSet(SubSeq(flush.missing, 1, n)) \subseteq ToSet(flush.missing)
      BY <3>2, PrefixHolds
    <3>. QED
      BY <3>1, <3>3
  <2>. QED
    BY <2>1, <2>2 DEF WriteCache
<1>3. \A c \in cache' : /\ c.vector \in Vectors /\ c.vector.model \in Models
                        /\ c.key = <<c.vector.model, c.vector.text>>
  BY <1>1, <1>2, PutKeepsKeys
<1>. USE DEF PageIndexInv
<1>4. /\ job'.pc = "upsert" /\ job'.state = job.state /\ job'.run = job.run
      /\ job'.pages = job.pages /\ job'.at = job.at /\ job'.pending = job.pending
      /\ job'.owners = job.owners /\ job'.counts = job.counts
      /\ job'.quarantine = job.quarantine /\ DOMAIN job' = DOMAIN job
  BY <1>1 DEF LocalTypes
<1>5. TypeOK' /\ CacheKeyed'
  BY <1>1, <1>3, <1>4 DEF TypeOK, CacheKeyed
<1>6. LocalTypes' /\ VectorsMatch' /\ OnePageOwnsText' /\ PendingWasRead'
  BY <1>1, <1>4 DEF LocalTypes, VectorsMatch, OnePageOwnsText, PendingWasRead
<1>7. PointsWereRead' /\ TextsOwned'
  BY <1>1, <1>4 DEF PointsWereRead, TextsOwned, Active, RunPoints
<1>8. FlushCovers'
  <2>1. Texts' = Texts
    BY <1>4 DEF Texts
  <2>2. \A t : Vector(t)' = Vector(t)
    BY <1>1 DEF Vector
  <2>. QED
    BY <1>1, <1>4, <2>1, <2>2 DEF FlushCovers, Flushing, Vector
<1>9. StartsEmpty' /\ NoneQuarantined' /\ QuarantineIsExact'
  BY <1>1, <1>4 DEF StartsEmpty, NoneQuarantined, QuarantineIsExact, RunPoints
<1>. QED
  BY <1>5, <1>6, <1>7, <1>8, <1>9

-----------------------------------------------------------------------------
(* The points.                                                              *)

\* A node that is upserted gets the vector of its text.
LEMMA PointOfNode ==
    ASSUME PageIndexInv, job.pc = "upsert", NEW n \in ToSet(job.pending)
    PROVE  LET text == TextDigest(n)
           IN  /\ Point(n) = [run |-> job.run, page |-> n.page, key |-> n.key, text |-> text,
                              model |-> model, vector |-> Vector(text)]
               /\ text \in Short /\ n \in NodesAny
<1>. DEFINE text == TextDigest(n)
<1>1. text \in ToSet(Texts) /\ text \in Short /\ n \in NodesAny
  BY TextsArePending
<1>2. /\ DOMAIN flush.found \cup ToSet(flush.missing) = ToSet(Texts)
      /\ \A t \in DOMAIN flush.found : flush.found[t] = Vector(t)
  BY DEF PageIndexInv, FlushCovers, Flushing
<1>3. (IF text \in DOMAIN Fresh THEN Fresh[text] ELSE flush.found[text]) = Vector(text)
  BY <1>1, <1>2, FreshMatches
<1>. QED
  BY <1>1, <1>3 DEF Point, TextDigest

PointType(p) ==
    /\ p.run \in Runs /\ p.page \in PageIds
    /\ p.model \in Models /\ p.vector.model \in Models
    /\ p.text \in Short
    /\ p.vector = [model |-> p.model, text |-> p.text]

\* Whatever of an upsert is applied, the points are sound.
LEMMA SoundPoints ==
    ASSUME PageIndexInv, NEW ps,
           \A p \in ps : \/ p \in points
                         \/ job.pc = "upsert" /\ \E n \in ToSet(job.pending) : p = Point(n)
    PROVE  /\ \A p \in ps : PointType(p)
           /\ \A p, q \in ps : p.run = q.run /\ p.text = q.text => p.page = q.page
           /\ Active => \A p \in ps : p.run = job.run =>
                           p.text \in DOMAIN job.owners /\ job.owners[p.text] = p.page
<1>. USE DEF PageIndexInv
<1>1. \A p \in points : PointType(p)
  BY DEF TypeOK, LocalTypes, VectorsMatch, PointType
<1>2. ASSUME job.pc = "upsert", NEW n \in ToSet(job.pending)
      PROVE  /\ PointType(Point(n)) /\ Point(n).run = job.run
             /\ Point(n).text \in DOMAIN job.owners /\ job.owners[Point(n).text] = Point(n).page
  <2>. DEFINE text == TextDigest(n)
  <2>1. /\ Point(n) = [run |-> job.run, page |-> n.page, key |-> n.key, text |-> text,
                       model |-> model, vector |-> Vector(text)]
        /\ text \in Short /\ n \in NodesAny
    BY <1>2, PointOfNode
  <2>2. text \in DOMAIN job.owners /\ job.owners[text] = n.page
    BY <1>2 DEF TextsOwned, Active
  <2>3. job.run \in Runs /\ n.page \in PageIds /\ model \in Models
    BY <2>1 DEF TypeOK, NodesAny
  <2>. HIDE DEF text
  <2>. QED
    BY <2>1, <2>2, <2>3 DEF PointType, Vector
<1>3. CASE job.pc = "upsert"
  <2>1. ASSUME NEW p \in ps, p.run = job.run
        PROVE  p.text \in DOMAIN job.owners /\ job.owners[p.text] = p.page
    <3>1. CASE p \in points
      BY <1>3, <2>1, <3>1 DEF TextsOwned, Active, RunPoints
    <3>2. CASE \E n \in ToSet(job.pending) : p = Point(n)
      BY <1>2, <1>3, <3>2
    <3>. QED
      BY <3>1, <3>2
  <2>2. ASSUME NEW p \in ps, p.run # job.run PROVE p \in points
    BY <1>2, <1>3, <2>2
  <2>3. \A p \in ps : PointType(p)
    BY <1>1, <1>2, <1>3
  <2>4. ASSUME NEW p \in ps, NEW q \in ps, p.run = q.run, p.text = q.text PROVE p.page = q.page
    <3>1. CASE p.run = job.run
      BY <2>1, <2>4, <3>1
    <3>2. CASE p.run # job.run
      BY <2>2, <2>4, <3>2 DEF OnePageOwnsText
    <3>. QED
      BY <3>1, <3>2
  <2>. QED
    BY <2>1, <2>3, <2>4
<1>4. CASE job.pc # "upsert"
  BY <1>1, <1>4 DEF OnePageOwnsText, TextsOwned, RunPoints
<1>. QED
  BY <1>3, <1>4

\* A text that fits a parent is not empty.
LEMMA ShortIsNotEmpty == \A t \in Short : Len(t) > 0
<1>. SUFFICES ASSUME NEW t \in Short PROVE Len(t) > 0
  OBVIOUS
<1>1. t \in Seq(Tokens) /\ t # <<>>
  BY DEF Short, Fitting
<1>. QED
  BY <1>1

\* What upserting some of the pending nodes leaves in the collection.
LEMMA UpsertedPoints ==
    ASSUME NEW n \in 0..Len(job.pending), PageIndexInv
    PROVE  \A p \in Upserted(SubSeq(job.pending, 1, n)) :
              p \in points \/ \E m \in ToSet(job.pending) : p = Point(m)
<1>. DEFINE pending == job.pending
            nodes == SubSeq(pending, 1, n)
<1>1. pending \in Seq(NodesAny) /\ n \in 0..Len(pending)
  BY DEF PageIndexInv, LocalTypes
<1>2. DOMAIN nodes = 1..n /\ \A i \in 1..n : nodes[i] = pending[i] /\ i \in DOMAIN pending
  <2>. HIDE DEF pending
  <2>. QED
    BY <1>1
<1>. HIDE DEF nodes
<1>3. \A i \in DOMAIN nodes : nodes[i] \in ToSet(pending)
  BY <1>2 DEF ToSet
<1>4. ASSUME NEW p \in Upserted(nodes)
      PROVE  p \in points \/ \E m \in ToSet(pending) : p = Point(m)
  BY <1>3 DEF Upserted
<1>. QED
  BY <1>4 DEF nodes

\* The upsert writes points of what is pending (embed_and_upsert).
LEMMA UpsertStep ==
    ASSUME PageIndexInv, Upsert
    PROVE  PageIndexInv'
<1>. USE DEF PageIndexInv
<1>. DEFINE counted == [job.counts EXCEPT !.upserted = @ + Len(job.pending)]
<1>1. /\ job.pc = "upsert" /\ points' = Upserted(job.pending)
      /\ flush' = NoFlush /\ UNCHANGED <<model, cache>>
  BY DEF Upsert
<1>2. job' = [job EXCEPT !.pc = "pages", !.pending = <<>>, !.counts = counted]
  BY DEF Upsert
<1>3. job.pending \in Seq(NodesAny) /\ Len(job.pending) \in Nat
      /\ SubSeq(job.pending, 1, Len(job.pending)) = job.pending
  <2>. DEFINE pending == job.pending
  <2>1. pending \in Seq(NodesAny)
    BY DEF LocalTypes
  <2>. HIDE DEF pending
  <2>2. Len(pending) \in Nat /\ SubSeq(pending, 1, Len(pending)) = pending
    BY <2>1
  <2>. QED
    BY <2>1, <2>2 DEF pending
<1>4. counted \in Counts
  BY <1>3, CountsAreCounts DEF TypeOK
<1>. HIDE DEF counted
<1>5. /\ job'.pc = "pages" /\ job'.state = job.state /\ job'.run = job.run
      /\ job'.pages = job.pages /\ job'.at = job.at /\ job'.pending = <<>>
      /\ job'.owners = job.owners /\ job'.counts = counted
      /\ job'.quarantine = job.quarantine /\ DOMAIN job' = DOMAIN job
  BY <1>2 DEF LocalTypes
<1>6. \A p \in points' : p \in points \/ \E n \in ToSet(job.pending) : p = Point(n)
  <2>1. Len(job.pending) \in 0..Len(job.pending)
    BY <1>3
  <2>2. \A p \in Upserted(SubSeq(job.pending, 1, Len(job.pending))) :
           p \in points \/ \E n \in ToSet(job.pending) : p = Point(n)
    BY <2>1, UpsertedPoints
  <2>. QED
    BY <1>1, <1>3, <2>2
<1>7. /\ \A p \in points' : PointType(p)
      /\ \A p, q \in points' : p.run = q.run /\ p.text = q.text => p.page = q.page
      /\ \A p \in points' : p.run = job.run =>
            p.text \in DOMAIN job.owners /\ job.owners[p.text] = p.page
  BY <1>1, <1>6, SoundPoints DEF Active
<1>8. TypeOK'
  <2>1. flush'.batches = <<>>
    BY <1>1 DEF NoFlush
  <2>. QED
    BY <1>1, <1>4, <1>5, <1>7, <2>1, NothingInIt, ShortIsNotEmpty DEF TypeOK, PointType
<1>9. LocalTypes'
  <2>1. /\ <<>> \in Seq(NodesAny) /\ <<>> \in Seq(Short) /\ <<>> \in Seq(Batches)
        /\ <<>> \in Seq(Vectors)
    OBVIOUS
  <2>2. /\ DOMAIN flush' = {"missing", "found", "batches", "vectors"}
        /\ flush'.missing = <<>> /\ flush'.batches = <<>> /\ flush'.vectors = <<>>
    BY <1>1 DEF NoFlush
  <2>3. \A p \in points' : p.text \in Short
    BY <1>7 DEF PointType
  <2>. QED
    BY <1>5, <2>1, <2>2, <2>3 DEF LocalTypes
<1>10. CacheKeyed' /\ VectorsMatch' /\ OnePageOwnsText'
  BY <1>1, <1>7 DEF CacheKeyed, VectorsMatch, OnePageOwnsText, PointType
<1>11. PendingWasRead' /\ FlushCovers' /\ StartsEmpty' /\ NoneQuarantined'
  BY <1>1, <1>5, NothingInIt DEF PendingWasRead, FlushCovers, Flushing, StartsEmpty, NoneQuarantined
<1>12. PointsWereRead'
  <2>1. ASSUME NEW p \in points', p.run = job.run
        PROVE  \E i \in 1..job.at : job.pages[i].id = p.page
    <3>1. CASE p \in points
      BY <1>1, <2>1, <3>1 DEF PointsWereRead, Active, RunPoints
    <3>2. CASE \E n \in ToSet(job.pending) : p = Point(n)
      <4>1. PICK n \in ToSet(job.pending) : p = Point(n)
        BY <3>2
      <4>2. p.page = n.page
        BY <1>1, <4>1, PointOfNode
      <4>. QED
        BY <4>2 DEF PendingWasRead
    <3>. QED
      BY <1>6, <3>1, <3>2
  <2>. QED
    BY <1>5, <2>1, NothingInIt DEF PointsWereRead, RunPoints
<1>13. TextsOwned'
  BY <1>5, <1>7, NothingInIt DEF TextsOwned, RunPoints
<1>14. QuarantineIsExact'
  BY <1>1, <1>5, NothingInIt DEF QuarantineIsExact, NoneQuarantined
<1>. QED
  BY <1>8, <1>9, <1>10, <1>11, <1>12, <1>13, <1>14

\* The page a text is put down to carries it.
LEMMA SourceCarries ==
    ASSUME PageIndexInv, NEW t \in ToSet(Texts)
    PROVE  \E n \in ToSet(job.pending) : n.page = SourcePage(t) /\ TextDigest(n) = t
<1>. DEFINE pending == job.pending
            same == {i \in DOMAIN Texts : Texts[i] = t}
            first(i) == Texts[i] = t /\ \A j \in 1..(i - 1) : Texts[j] # t
<1>1. /\ Texts \in Seq(Short) /\ DOMAIN Texts = DOMAIN pending
      /\ \A i \in DOMAIN pending : Texts[i] = TextDigest(pending[i])
  BY TextsArePending
<1>2. DOMAIN Texts = 1..Len(Texts) /\ Len(Texts) \in Nat
  BY <1>1, ElementsOf
<1>3. same \in SUBSET Nat /\ same # {}
  BY <1>2 DEF ToSet
<1>4. PICK k \in same : \A m \in same : k <= m
  <2>. HIDE DEF same
  <2>. QED
    BY <1>3, LeastNat
<1>5. k \in DOMAIN Texts /\ first(k)
  <2>1. ASSUME NEW j \in 1..(k - 1), Texts[j] = t PROVE FALSE
    <3>1. k \in 1..Len(Texts)
      BY <1>2, <1>4
    <3>2. j \in 1..Len(Texts) /\ ~(k <= j)
      BY <1>2, <3>1
    <3>. QED
      BY <1>2, <1>4, <2>1, <3>2
  <2>. QED
    BY <1>4, <2>1
<1>6. PICK i \in DOMAIN Texts : first(i) /\ i = CHOOSE x \in DOMAIN Texts : first(x)
  BY <1>5
<1>7. SourcePage(t) = pending[i].page
  BY <1>6 DEF SourcePage
<1>8. pending[i] \in ToSet(pending) /\ TextDigest(pending[i]) = t
  BY <1>1, <1>6 DEF ToSet
<1>. QED
  BY <1>7, <1>8

\* The circuit quarantines texts that no point of the run has.
LEMMA CircuitStep ==
    ASSUME PageIndexInv, CircuitOpens
    PROVE  PageIndexInv'
<1>. USE DEF PageIndexInv
<1>1. job.pc = "embed" /\ flush' = NoFlush /\ UNCHANGED <<model, points, cache>>
  BY DEF CircuitOpens
<1>2. PICK items \in {BatchItems, <<>>} :
         job' = [job EXCEPT !.pc = "idle", !.state = "failed", !.quarantine = items]
  BY DEF CircuitOpens
<1>3. /\ job'.pc = "idle" /\ job'.state = "failed" /\ job'.run = job.run
      /\ job'.pages = job.pages /\ job'.at = job.at /\ job'.pending = job.pending
      /\ job'.owners = job.owners /\ job'.counts = job.counts
      /\ job'.quarantine = items /\ DOMAIN job' = DOMAIN job
  BY <1>2 DEF LocalTypes
<1>4. ASSUME NEW item \in ToSet(BatchItems)
      PROVE  /\ \E page \in ToSet(job.pages) :
                   /\ page.id = item.page
                   /\ \E n \in ToSet(NodesOf[page]) : Sanitize(n.text) = item.text
             /\ \A p \in RunPoints(job.run) : p.text # item.text
  <2>. DEFINE batch == Head(flush.batches)
              missing == flush.missing
              L == Len(flush.vectors)
  <2>1. /\ flush.batches \in Seq(Batches) /\ flush.batches # <<>> /\ missing \in Seq(Short)
        /\ flush.vectors \in Seq(Vectors) /\ L <= Len(missing)
        /\ FlattenSeq(flush.batches) = SubSeq(missing, L + 1, Len(missing))
        /\ ToSet(missing) \subseteq ToSet(Texts)
    BY <1>1 DEF TypeOK, LocalTypes, FlushCovers, Flushing
  <2>2. L \in 0..Len(missing) /\ L \in Nat /\ Len(missing) \in Nat
    BY <2>1, ElementsOf
  <2>3. /\ batch \in Seq(Short) /\ Len(batch) \in Nat /\ L + Len(batch) <= Len(missing)
        /\ \A i \in 1..Len(batch) : batch[i] = missing[L + i]
    BY <2>1, <2>2, NextBatch
  <2>. HIDE DEF batch
  <2>4. DOMAIN batch = 1..Len(batch)
    BY <2>3, ElementsOf
  <2>5. PICK i \in 1..Len(batch) :
           item = [text |-> batch[i], page |-> SourcePage(missing[L + i])]
    BY <2>4 DEF BatchItems, ToSet, Offset, batch
  <2>. DEFINE t == missing[L + i]
  <2>6. item.text = t /\ item.page = SourcePage(t) /\ t \in ToSet(Texts)
    <3>1. L + i \in 1..Len(missing)
      BY <2>2, <2>3
    <3>2. t \in ToSet(missing)
      BY <2>1, <3>1, ElementsOf
    <3>. QED
      BY <2>1, <2>3, <2>5, <3>2
  <2>. HIDE DEF t
  <2>7. PICK n \in ToSet(job.pending) : n.page = SourcePage(t) /\ TextDigest(n) = t
    BY <2>6, SourceCarries
  <2>8. PICK k \in 1..job.at : job.pages[k].id = n.page /\ n \in ToSet(NodesOf[job.pages[k]])
    BY DEF PendingWasRead
  <2>9. job.pages[k] \in ToSet(job.pages)
    <3>1. DOMAIN job.pages = 1..Len(job.pages) /\ Len(job.pages) \in Nat /\ job.at \in 0..Len(job.pages)
      BY PagesOfAList DEF TypeOK
    <3>2. k \in DOMAIN job.pages
      BY <3>1
    <3>. QED
      BY <3>2 DEF ToSet
  <2>10. ASSUME NEW p \in RunPoints(job.run), p.text = t PROVE FALSE
    <3>1. p.page # n.page
      BY <1>1 DEF PointsWereRead, Active
    <3>2. job.owners[p.text] = p.page /\ job.owners[TextDigest(n)] = n.page
      BY <1>1 DEF TextsOwned, Active
    <3>. QED
      BY <2>7, <2>10, <3>1, <3>2
  <2>. QED
    BY <2>6, <2>7, <2>8, <2>9, <2>10 DEF TextDigest
<1>5. QuarantineIsExact'
  <2>1. ASSUME NEW item \in ToSet(items)
        PROVE  /\ \E page \in ToSet(job.pages) :
                     /\ page.id = item.page
                     /\ \E n \in ToSet(NodesOf[page]) : Sanitize(n.text) = item.text
               /\ \A p \in RunPoints(job.run) : p.text # item.text
    BY <1>4, NothingInIt
  <2>. QED
    BY <1>1, <1>3, <2>1 DEF QuarantineIsExact, RunPoints
<1>6. /\ DOMAIN flush' = {"missing", "found", "batches", "vectors"}
      /\ flush'.missing = <<>> /\ flush'.batches = <<>> /\ flush'.vectors = <<>>
      /\ <<>> \in Seq(Short) /\ <<>> \in Seq(Batches) /\ <<>> \in Seq(Vectors)
  BY <1>1 DEF NoFlush
<1>7. TypeOK' /\ LocalTypes'
  BY <1>1, <1>3, <1>6 DEF TypeOK, LocalTypes
<1>8. CacheKeyed' /\ VectorsMatch' /\ OnePageOwnsText' /\ PendingWasRead'
  BY <1>1, <1>3 DEF CacheKeyed, VectorsMatch, OnePageOwnsText, PendingWasRead
<1>9. PointsWereRead' /\ TextsOwned' /\ FlushCovers' /\ StartsEmpty' /\ NoneQuarantined'
  BY <1>3 DEF PointsWereRead, TextsOwned, FlushCovers, Flushing, StartsEmpty, NoneQuarantined, Active
<1>. QED
  BY <1>5, <1>7, <1>8, <1>9

\* What a call that breaks off may have applied is sound.
LEMMA LandedIsSound ==
    ASSUME PageIndexInv, NEW ps \in Landed
    PROVE  /\ \A p \in ps : PointType(p)
           /\ \A p, q \in ps : p.run = q.run /\ p.text = q.text => p.page = q.page
<1>1. \A p \in ps : \/ p \in points
                    \/ job.pc = "upsert" /\ \E n \in ToSet(job.pending) : p = Point(n)
  <2>1. CASE job.pc = "delete"
    BY <2>1 DEF Landed
  <2>2. CASE job.pc = "upsert"
    <3>1. PICK n \in 0..Len(job.pending) : ps = Upserted(SubSeq(job.pending, 1, n))
      BY <2>2 DEF Landed
    <3>. QED
      BY <2>2, <3>1, UpsertedPoints
  <2>3. CASE job.pc # "delete" /\ job.pc # "upsert"
    BY <2>3 DEF Landed
  <2>. QED
    BY <2>1, <2>2, <2>3
<1>. QED
  BY <1>1, SoundPoints

\* An attempt that fails leaves sound points behind.
LEMMA FailsStep ==
    ASSUME PageIndexInv, Fails
    PROVE  PageIndexInv'
<1>. USE DEF PageIndexInv
<1>1. /\ job.pc # "idle" /\ points' \in Landed /\ flush' = NoFlush
      /\ job' = [job EXCEPT !.pc = "idle", !.state = "failed"]
      /\ UNCHANGED <<model, cache>>
  BY DEF Fails
<1>2. /\ job'.pc = "idle" /\ job'.state = "failed" /\ job'.run = job.run
      /\ job'.pages = job.pages /\ job'.at = job.at /\ job'.pending = job.pending
      /\ job'.owners = job.owners /\ job'.counts = job.counts
      /\ job'.quarantine = <<>> /\ DOMAIN job' = DOMAIN job
  BY <1>1 DEF LocalTypes, NoneQuarantined
<1>3. /\ \A p \in points' : PointType(p)
      /\ \A p, q \in points' : p.run = q.run /\ p.text = q.text => p.page = q.page
  BY <1>1, LandedIsSound
<1>4. /\ DOMAIN flush' = {"missing", "found", "batches", "vectors"}
      /\ flush'.missing = <<>> /\ flush'.batches = <<>> /\ flush'.vectors = <<>>
      /\ <<>> \in Seq(Short) /\ <<>> \in Seq(Batches) /\ <<>> \in Seq(Vectors)
  BY <1>1 DEF NoFlush
<1>5. TypeOK' /\ LocalTypes'
  <2>1. \A p \in points' : /\ p.run \in Runs /\ p.page \in PageIds
                           /\ p.model \in Models /\ p.vector.model \in Models
                           /\ Len(p.text) > 0 /\ p.text \in Short
    BY <1>3, ShortIsNotEmpty DEF PointType
  <2>. QED
    BY <1>1, <1>2, <1>4, <2>1 DEF TypeOK, LocalTypes
<1>6. CacheKeyed' /\ VectorsMatch' /\ OnePageOwnsText' /\ PendingWasRead'
  BY <1>1, <1>2, <1>3 DEF CacheKeyed, VectorsMatch, OnePageOwnsText, PendingWasRead, PointType
<1>7. PointsWereRead' /\ TextsOwned' /\ FlushCovers' /\ StartsEmpty' /\ NoneQuarantined'
  BY <1>2 DEF PointsWereRead, TextsOwned, FlushCovers, Flushing, StartsEmpty, NoneQuarantined, Active
<1>8. QuarantineIsExact'
  BY <1>2, NothingInIt DEF QuarantineIsExact
<1>. QED
  BY <1>5, <1>6, <1>7, <1>8

\* So does one that is killed, wherever it was.
LEMMA AbandonStep ==
    ASSUME PageIndexInv, Abandon
    PROVE  PageIndexInv'
<1>. USE DEF PageIndexInv
<1>1. /\ points' \in Landed /\ flush' = NoFlush
      /\ job' = NoJob(job.run, "abandoned") /\ UNCHANGED model
  BY DEF Abandon
<1>2. job' = [pc |-> "idle", state |-> "abandoned", run |-> job.run, pages |-> <<>>, at |-> 0,
              pending |-> <<>>, owners |-> <<>>, counts |-> NoCounts, quarantine |-> <<>>]
  BY <1>1 DEF NoJob, NewJob
<1>3. /\ \A p \in points' : PointType(p)
      /\ \A p, q \in points' : p.run = q.run /\ p.text = q.text => p.page = q.page
  BY <1>1, LandedIsSound
<1>4. /\ DOMAIN flush' = {"missing", "found", "batches", "vectors"}
      /\ flush'.missing = <<>> /\ flush'.batches = <<>> /\ flush'.vectors = <<>>
      /\ <<>> \in Seq(Short) /\ <<>> \in Seq(Batches) /\ <<>> \in Seq(Vectors)
      /\ <<>> \in Seq(NodesAny)
  BY <1>1 DEF NoFlush
<1>5. \A c \in cache' : /\ c.vector \in Vectors /\ c.vector.model \in Models
                        /\ c.key = <<c.vector.model, c.vector.text>>
  <2>1. CASE UNCHANGED cache
    BY <2>1 DEF TypeOK, CacheKeyed
  <2>2. CASE job.pc = "put" /\ \E n \in DOMAIN flush.missing : Put(SubSeq(flush.missing, 1, n))
    <3>1. PICK n \in DOMAIN flush.missing : Put(SubSeq(flush.missing, 1, n))
      BY <2>2
    <3>2. flush.missing \in Seq(Short)
      BY DEF LocalTypes
    <3>3. n \in 0..Len(flush.missing)
      BY <3>2, ElementsOf
    <3>4. ToSet(SubSeq(flush.missing, 1, n)) \subseteq ToSet(flush.missing)
      BY <3>2, <3>3, PrefixHolds
    <3>. QED
      BY <2>2, <3>1, <3>4, PutKeepsKeys
  <2>. QED
    BY <2>1, <2>2 DEF Abandon
<1>6. NoCounts \in Counts
  BY DEF NoCounts, Counts
<1>7. TypeOK'
  <2>1. \A p \in points' : /\ p.run \in Runs /\ p.page \in PageIds
                           /\ p.model \in Models /\ p.vector.model \in Models
                           /\ Len(p.text) > 0
    BY <1>3, ShortIsNotEmpty DEF PointType
  <2>. QED
    BY <1>1, <1>2, <1>4, <1>5, <1>6, <2>1, NothingInIt DEF TypeOK
<1>8. LocalTypes'
  <2>1. DOMAIN job' = DOMAIN job /\ job'.pending \in Seq(NodesAny)
    BY <1>2, <1>4 DEF LocalTypes
  <2>2. DOMAIN job'.owners = {}
    BY <1>2
  <2>3. \A p \in points' : p.text \in Short
    BY <1>3 DEF PointType
  <2>. QED
    BY <1>4, <2>1, <2>2, <2>3 DEF LocalTypes
<1>9. CacheKeyed' /\ VectorsMatch' /\ OnePageOwnsText'
  BY <1>3, <1>5 DEF CacheKeyed, VectorsMatch, OnePageOwnsText, PointType
<1>10. /\ PendingWasRead' /\ PointsWereRead' /\ TextsOwned' /\ FlushCovers'
       /\ StartsEmpty' /\ NoneQuarantined' /\ QuarantineIsExact'
  BY <1>2, NothingInIt
     DEF PendingWasRead, PointsWereRead, TextsOwned, FlushCovers, Flushing, StartsEmpty,
         NoneQuarantined, QuarantineIsExact, Active
<1>. QED
  BY <1>7, <1>8, <1>9, <1>10

\* A step that changes nothing keeps the invariant.
LEMMA StutterStep ==
    ASSUME PageIndexInv, UNCHANGED vars
    PROVE  PageIndexInv'
<1>. USE DEF PageIndexInv
<1>1. UNCHANGED <<model, points, cache, job, flush>>
  BY DEF vars
<1>2. TypeOK' /\ LocalTypes' /\ CacheKeyed' /\ VectorsMatch' /\ OnePageOwnsText'
  BY <1>1 DEF TypeOK, LocalTypes, CacheKeyed, VectorsMatch, OnePageOwnsText
<1>3. PendingWasRead' /\ PointsWereRead' /\ TextsOwned'
  BY <1>1 DEF PendingWasRead, PointsWereRead, TextsOwned, Active, RunPoints
<1>4. FlushCovers'
  BY <1>1 DEF FlushCovers, Flushing, Texts, Vector
<1>5. StartsEmpty' /\ NoneQuarantined' /\ QuarantineIsExact'
  BY <1>1 DEF StartsEmpty, NoneQuarantined, QuarantineIsExact, RunPoints
<1>. QED
  BY <1>2, <1>3, <1>4, <1>5

\* Every step keeps the invariant.
LEMMA StepKeeps == PageIndexInv /\ [Next]_vars => PageIndexInv'
<1>. SUFFICES ASSUME PageIndexInv, [Next]_vars PROVE PageIndexInv'
  OBVIOUS
<1>1. CASE ReadPage
  <2>1. CASE SkipPage(job.pages[job.at + 1])
    BY <1>1, <2>1, SkipStep
  <2>2. CASE IndexPage(job.pages[job.at + 1])
    BY <1>1, <2>2, IndexStep
  <2>. QED
    BY <1>1, <2>1, <2>2 DEF ReadPage
<1>2. CASE \E run \in Runs : Begin(run)
  BY <1>2, BeginStep
<1>3. CASE DeleteRunPoints \/ FlushRest \/ Finish
  BY <1>3, DeleteStep, FlushRestStep, FinishStep
<1>4. CASE ReadCache \/ EmbedBatch
  BY <1>4, ReadCacheStep, EmbedStep
<1>5. CASE WriteCache \/ Upsert
  BY <1>5, WriteCacheStep, UpsertStep
<1>6. CASE CircuitOpens \/ Fails
  BY <1>6, CircuitStep, FailsStep
<1>7. CASE Abandon \/ Deploy
  BY <1>7, AbandonStep, DeployStep
<1>8. CASE UNCHANGED vars
  BY <1>8, StutterStep
<1>. QED
  BY <1>1, <1>2, <1>3, <1>4, <1>5, <1>6, <1>7, <1>8 DEF Next

\* What is sent fits, because every batch that is left was filled within the
\* limits and together they hold the texts that have no vector yet.
LEMMA BatchesOfTheFlush == PageIndexInv => BatchesFit
<1>. SUFFICES ASSUME PageIndexInv, job.pc = "embed" PROVE BatchesFit
  BY DEF BatchesFit
<1>1. flush.batches \in Seq(Batches)
  BY DEF PageIndexInv, LocalTypes
<1>2. \A b \in ToSet(flush.batches) : b \in Batches
  BY <1>1, ElementsOf
<1>3. ASSUME NEW b \in ToSet(flush.batches)
      PROVE  /\ Len(b) \in 1..BatchSize /\ BatchTokens(b) <= MaxTokens
             /\ \A t \in ToSet(b) : Measure(t) <= ParentSize
  <2>1. b \in Seq(Short) /\ Len(b) \in 1..BatchSize /\ BatchTokens(b) <= MaxTokens
    BY <1>2 DEF Batches
  <2>2. \A t \in ToSet(b) : t \in Short
    BY <2>1, ElementsOf
  <2>. QED
    BY <2>1, <2>2 DEF Short, Fitting
<1>4. FlattenSeq(flush.batches) = SubSeq(flush.missing, Len(flush.vectors) + 1, Len(flush.missing))
  BY DEF PageIndexInv, FlushCovers, Flushing
<1>. QED
  BY <1>3, <1>4 DEF BatchesFit

-----------------------------------------------------------------------------
(* The theorems.                                                            *)

\* Every variable holds what the code can put there: a batch is in hand exactly
\* while an embed call is awaited, and after the last every text that was missing
\* has a vector (_embed_deduplicated).
THEOREM PageIndexTypes == Spec => []TypeOK
<1>1. PageIndexInv => TypeOK
  BY DEF PageIndexInv
<1>. QED
  BY <1>1, StartKeeps, StepKeeps, PTL DEF Spec

\* No point has the vector of another text or of another model, whatever the cache
\* kept of earlier attempts, lost, or failed to read (embed_and_upsert,
\* VectorCache).
THEOREM VectorsAlwaysMatch == Spec => []VectorsMatch
<1>1. PageIndexInv => VectorsMatch
  BY DEF PageIndexInv
<1>. QED
  BY <1>1, StartKeeps, StepKeeps, PTL DEF Spec

\* Within a run a text is one page's, however often the run was taken up again and
\* wherever an attempt broke off (_admit_page_nodes, _delete_run_points).
THEOREM OnePageOwns == Spec => []OnePageOwnsText
<1>1. PageIndexInv => OnePageOwnsText
  BY DEF PageIndexInv
<1>. QED
  BY <1>1, StartKeeps, StepKeeps, PTL DEF Spec

\* No batch exceeds its limits and no text the window of the model, for every size
\* of both, and no text that is missing is left out or sent twice
\* (partition_embedding_batches, page_to_nodes).
THEOREM BatchesAlwaysFit == Spec => []BatchesFit
  BY BatchesOfTheFlush, StartKeeps, StepKeeps, PTL DEF Spec

\* What is quarantined is what failed: the page named carries the text, and the run
\* has no point of it (EmbeddingCircuit, quarantine).
THEOREM QuarantineExact == Spec => []QuarantineIsExact
<1>1. PageIndexInv => QuarantineIsExact
  BY DEF PageIndexInv
<1>. QED
  BY <1>1, StartKeeps, StepKeeps, PTL DEF Spec

-----------------------------------------------------------------------------
(* The counters.                                                            *)

\* No two of these nodes get one point.
Apart(s) ==
    \A i, j \in DOMAIN s : s[i].page = s[j].page /\ s[i].key = s[j].key => i = j

\* One more node of another key.
LEMMA ApartAppend ==
    ASSUME NEW A, NEW s \in Seq(A), NEW x \in A, Apart(s),
           \A i \in DOMAIN s : ~(s[i].page = x.page /\ s[i].key = x.key)
    PROVE  Apart(Append(s, x))
<1>. DEFINE more == Append(s, x)
<1>1. /\ Len(s) \in Nat /\ DOMAIN s = 1..Len(s) /\ DOMAIN more = 1..(Len(s) + 1)
      /\ more[Len(s) + 1] = x /\ \A i \in 1..Len(s) : more[i] = s[i]
  OBVIOUS
<1>2. \A i \in DOMAIN more : i \in DOMAIN s \/ i = Len(s) + 1
  BY <1>1
<1>. HIDE DEF more
<1>3. ASSUME NEW i \in DOMAIN more, NEW j \in DOMAIN more,
             more[i].page = more[j].page, more[i].key = more[j].key
      PROVE  i = j
  <2>1. CASE i \in DOMAIN s /\ j \in DOMAIN s
    BY <1>1, <1>3, <2>1 DEF Apart
  <2>2. CASE i \in DOMAIN s /\ j = Len(s) + 1
    BY <1>1, <1>3, <2>2
  <2>3. CASE i = Len(s) + 1 /\ j \in DOMAIN s
    BY <1>1, <1>3, <2>3
  <2>. QED
    BY <1>2, <2>1, <2>2, <2>3
<1>. QED
  BY <1>3 DEF Apart, more

\* Nodes of other keys after these.
LEMMA ApartConcat ==
    ASSUME NEW A, NEW a \in Seq(A), NEW b \in Seq(A), Apart(a), Apart(b),
           \A x \in ToSet(a), y \in ToSet(b) : ~(x.page = y.page /\ x.key = y.key)
    PROVE  Apart(a \o b)
<1>. DEFINE c == a \o b
<1>1. /\ Len(a) \in Nat /\ DOMAIN a = 1..Len(a) /\ Len(b) \in Nat /\ DOMAIN b = 1..Len(b)
      /\ DOMAIN c = 1..(Len(a) + Len(b))
      /\ \A i \in 1..Len(a) : c[i] = a[i]
      /\ \A i \in 1..Len(b) : c[Len(a) + i] = b[i]
  OBVIOUS
<1>. HIDE DEF c
<1>2. ASSUME NEW i \in DOMAIN c
      PROVE  i \in DOMAIN a \/ \E k \in DOMAIN b : i = Len(a) + k
  <2>1. i \in DOMAIN a \/ (i - Len(a) \in DOMAIN b /\ i = Len(a) + (i - Len(a)))
    BY <1>1
  <2>. QED
    BY <2>1
<1>3. ASSUME NEW i \in DOMAIN c, NEW j \in DOMAIN c, c[i].page = c[j].page, c[i].key = c[j].key
      PROVE  i = j
  <2>1. CASE i \in DOMAIN a /\ j \in DOMAIN a
    BY <1>1, <1>3, <2>1 DEF Apart
  <2>2. ASSUME NEW k \in DOMAIN b, NEW m \in DOMAIN b, i = Len(a) + k, j = Len(a) + m
        PROVE  i = j
    BY <1>1, <1>3, <2>2 DEF Apart
  <2>3. ASSUME NEW m \in DOMAIN b, i \in DOMAIN a, j = Len(a) + m PROVE FALSE
    <3>1. c[i] = a[i] /\ c[j] = b[m] /\ a[i] \in ToSet(a) /\ b[m] \in ToSet(b)
      BY <1>1, <2>3 DEF ToSet
    <3>. QED
      BY <1>3, <3>1
  <2>4. ASSUME NEW k \in DOMAIN b, i = Len(a) + k, j \in DOMAIN a PROVE FALSE
    <3>1. c[j] = a[j] /\ c[i] = b[k] /\ a[j] \in ToSet(a) /\ b[k] \in ToSet(b)
      BY <1>1, <2>4 DEF ToSet
    <3>. QED
      BY <1>3, <3>1
  <2>. QED
    BY <1>2, <2>1, <2>2, <2>3, <2>4
<1>. QED
  BY <1>3 DEF Apart, c

\* Some of these nodes, in their order.
LEMMA ApartFilter ==
    ASSUME NEW A, NEW s \in Seq(A), NEW S, Apart(s)
    PROVE  Apart(Filter(s, S))
<1>. DEFINE N == Len(s)
            T == Seq(A \cap S)
<1>1. PICK kept \in [0..N -> T] :
         /\ kept[0] = <<>>
         /\ \A n \in 1..N : s[n] \in S => kept[n] = Append(kept[n - 1], s[n])
         /\ \A n \in 1..N : s[n] \notin S => kept[n] = kept[n - 1]
         /\ Filter(s, S) = kept[N]
  BY FilterUnfolds
<1>2. N \in Nat /\ N \in 0..N /\ DOMAIN s = 1..N /\ \A n \in 1..N : s[n] \in A
  OBVIOUS
<1>. DEFINE G == {n \in 0..N : /\ Apart(kept[n])
                                /\ \A k \in DOMAIN kept[n] : \E i \in 1..n : kept[n][k] = s[i]}
<1>3. 0 \in G
  BY <1>1, <1>2 DEF Apart
<1>4. ASSUME NEW n \in 0..N, n # N, n \in G PROVE n + 1 \in G
  <2>1. n + 1 \in 1..N /\ (n + 1) - 1 = n /\ n + 1 \in 0..N
    <3>. HIDE DEF G, N
    <3>. QED
      BY <1>2, <1>4
  <2>. DEFINE k == kept[n]
  <2>2. /\ k \in T /\ Apart(k)
        /\ \A m \in DOMAIN k : \E i \in 1..n : k[m] = s[i]
    <3>. HIDE DEF T
    <3>. QED
      BY <1>4
  <2>3. \/ kept[n + 1] = k
        \/ s[n + 1] \in A \cap S /\ kept[n + 1] = Append(k, s[n + 1])
    <3>. HIDE DEF G, T
    <3>. QED
      BY <1>1, <1>2, <2>1
  <2>. HIDE DEF k, G, N
  <2>4. \A i \in 1..n : i \in 1..(n + 1) /\ i \in DOMAIN s /\ i # n + 1
    BY <1>2, <2>1
  <2>5. CASE kept[n + 1] = k
    <3>. USE DEF G
    <3>. QED
      BY <2>1, <2>2, <2>4, <2>5
  <2>6. CASE s[n + 1] \in A \cap S /\ kept[n + 1] = Append(k, s[n + 1])
    <3>1. \A m \in DOMAIN k : ~(k[m].page = s[n + 1].page /\ k[m].key = s[n + 1].key)
      <4>1. ASSUME NEW m \in DOMAIN k, k[m].page = s[n + 1].page, k[m].key = s[n + 1].key
            PROVE  FALSE
        <5>1. PICK i \in 1..n : k[m] = s[i]
          BY <2>2
        <5>. QED
          BY <1>2, <2>1, <2>4, <4>1, <5>1 DEF Apart
      <4>. QED
        BY <4>1
    <3>2. Apart(kept[n + 1])
      BY <2>2, <2>6, <3>1, ApartAppend
    <3>3. /\ \A m \in DOMAIN kept[n + 1] : m \in DOMAIN k \/ m = Len(k) + 1
          /\ \A m \in DOMAIN k : kept[n + 1][m] = k[m]
          /\ kept[n + 1][Len(k) + 1] = s[n + 1]
      BY <2>2, <2>6, SMTT(30)
    <3>4. \A m \in DOMAIN kept[n + 1] : \E i \in 1..(n + 1) : kept[n + 1][m] = s[i]
      <4>1. n + 1 \in 1..(n + 1)
        BY <2>1
      <4>. QED
        BY <2>2, <2>4, <3>3, <4>1
    <3>. QED
      BY <2>1, <3>2, <3>4 DEF G
  <2>. QED
    BY <2>3, <2>5, <2>6
<1>5. 0..N \subseteq G
  <2>. HIDE DEF G, N
  <2>. QED
    BY <1>2, <1>3, <1>4, Upto
<1>. QED
  BY <1>1, <1>2, <1>5

\* The nodes of a page: a child has the key of its unit, and a parent is emitted
\* with one unit only (page_to_nodes).
LEMMA PageNodesApart ==
    ASSUME NEW page, NEW units \in Seq(UnitType)
    PROVE  Apart(PageNodes(page, units))
<1>. DEFINE node(key, text) == [page |-> page.id, key |-> key, text |-> text]
            emitted(u) ==
                IF u \notin Kept(units) THEN <<>>
                ELSE (IF EmitsParent(units, u)
                      THEN <<node(ParentKey(units, u), units[u].parentText)>>
                      ELSE <<>>)
                     \o <<node(ChildKey(units, u), units[u].childText)>>
            parts == [u \in DOMAIN units |-> emitted(u)]
            X == NodeType(page.id)
            T == Seq(X)
            N == Len(units)
<1>1. DOMAIN units = 1..N /\ N \in Nat /\ units \in [1..N -> UnitType]
  OBVIOUS
<1>2. ASSUME NEW u \in 1..N
      PROVE  /\ emitted(u) \in T /\ Apart(emitted(u))
             /\ \A x \in ToSet(emitted(u)) :
                   /\ u \in Kept(units)
                   /\ \/ x.key = <<"child", u>>
                      \/ x.key = <<"parent", units[u].parent>> /\ EmitsParent(units, u)
  <2>. DEFINE child == node(ChildKey(units, u), units[u].childText)
              parent == node(ParentKey(units, u), units[u].parentText)
  <2>1. child \in X /\ parent \in X
    <3>1. u \in Nat /\ units[u] \in UnitType
      BY <1>1
    <3>2. /\ units[u].parent \in Nat /\ units[u].parentText \in Fitting(ParentSize)
          /\ units[u].childText \in Fitting(ParentSize)
      BY <3>1 DEF UnitType
    <3>. QED
      BY <3>1, <3>2 DEF NodeType, ParentKey, ChildKey
  <2>2. child.key = <<"child", u>> /\ parent.key = <<"parent", units[u].parent>>
    BY DEF ChildKey, ParentKey
  <2>3. child.key # parent.key
    BY <2>2
  <2>4. \/ emitted(u) = <<>>
        \/ u \in Kept(units) /\ emitted(u) = <<child>>
        \/ u \in Kept(units) /\ EmitsParent(units, u) /\ emitted(u) = Append(<<parent>>, child)
    <3>1. <<>> \o <<child>> = <<child>> /\ <<parent>> \o <<child>> = Append(<<parent>>, child)
      <4>. HIDE DEF child, parent, X
      <4>1. <<child>> \in Seq(X) /\ <<parent>> \in Seq(X)
        BY <2>1
      <4>2. <<>> \o <<child>> = <<child>>
        BY <4>1, ConcatEmptySeq
      <4>3. <<parent>> \o <<child>> = Append(<<parent>>, child)
        BY <2>1, <4>1, AppendIsConcat
      <4>. QED
        BY <4>2, <4>3
    <3>. QED
      BY <3>1
  <2>. HIDE DEF child, parent, emitted, X
  <2>5. CASE emitted(u) = <<>>
    BY <2>5 DEF Apart, ToSet
  <2>6. CASE u \in Kept(units) /\ emitted(u) = <<child>>
    BY <2>1, <2>2, <2>6 DEF Apart, ToSet
  <2>7. CASE u \in Kept(units) /\ EmitsParent(units, u) /\ emitted(u) = Append(<<parent>>, child)
    <3>. DEFINE both == Append(<<parent>>, child)
    <3>1. /\ both \in T /\ DOMAIN both = {1, 2}
          /\ both[1] = parent /\ both[2] = child
      BY <2>1
    <3>. HIDE DEF both
    <3>2. \A x \in ToSet(both) : x = parent \/ x = child
      BY <3>1 DEF ToSet
    <3>3. Apart(both)
      BY <2>3, <3>1 DEF Apart
    <3>. QED
      BY <2>2, <2>7, <3>1, <3>2, <3>3 DEF both
  <2>. QED
    BY <2>4, <2>5, <2>6, <2>7
<1>3. ASSUME NEW u \in 1..N, NEW v \in 1..N, u < v,
             NEW x \in ToSet(emitted(u)), NEW y \in ToSet(emitted(v))
      PROVE  x.key # y.key
  <2>. HIDE DEF emitted
  <2>1. /\ u \in Kept(units) /\ v \in Kept(units)
        /\ \/ x.key = <<"child", u>>
           \/ x.key = <<"parent", units[u].parent>> /\ EmitsParent(units, u)
        /\ \/ y.key = <<"child", v>>
           \/ y.key = <<"parent", units[v].parent>> /\ EmitsParent(units, v)
    BY <1>2, <1>3
  <2>2. ASSUME EmitsParent(units, u), EmitsParent(units, v) PROVE units[u].parent # units[v].parent
    BY <1>3, <2>1, <2>2 DEF EmitsParent
  <2>. QED
    BY <1>3, <2>1, <2>2
<1>4. parts \in Seq(T) /\ Len(parts) = N /\ \A u \in 1..N : parts[u] = emitted(u)
  <2>. HIDE DEF emitted, T
  <2>1. parts \in [1..N -> T] /\ \A u \in 1..N : parts[u] = emitted(u)
    BY <1>1, <1>2
  <2>. HIDE DEF parts
  <2>. QED
    BY <1>1, <2>1
<1>5. PageNodes(page, units) = FlattenSeq(parts)
  BY DEF PageNodes
<1>. HIDE DEF parts, emitted, X
<1>6. PICK flat \in [0..N -> T] :
         /\ flat[0] = <<>>
         /\ \A n \in 1..N : flat[n] = flat[n - 1] \o parts[n]
         /\ FlattenSeq(parts) = flat[N]
  <2>. HIDE DEF N
  <2>1. \E flat \in [0..Len(parts) -> Seq(X)] :
           /\ flat[0] = <<>>
           /\ \A n \in 1..Len(parts) : flat[n] = flat[n - 1] \o parts[n]
           /\ FlattenSeq(parts) = flat[Len(parts)]
    BY <1>4, FlattenUnfolds
  <2>. QED
    BY <1>4, <2>1
<1>. DEFINE G == {n \in 0..N : /\ Apart(flat[n])
                                /\ \A x \in ToSet(flat[n]) : \E u \in 1..n : x \in ToSet(emitted(u))}
<1>7. 0 \in G
  BY <1>1, <1>6 DEF Apart, ToSet
<1>8. ASSUME NEW n \in 0..N, n # N, n \in G PROVE n + 1 \in G
  <2>1. n + 1 \in 1..N /\ (n + 1) - 1 = n /\ n + 1 \in 0..N
    <3>. HIDE DEF G, N
    <3>. QED
      BY <1>1, <1>8
  <2>. DEFINE a == flat[n]
              b == emitted(n + 1)
  <2>2. /\ a \in T /\ Apart(a)
        /\ \A x \in ToSet(a) : \E u \in 1..n : x \in ToSet(emitted(u))
    BY <1>8
  <2>3. b \in T /\ Apart(b)
    BY <1>2, <2>1
  <2>4. flat[n + 1] = a \o b
    <3>. HIDE DEF G, N
    <3>. QED
      BY <1>4, <1>6, <2>1
  <2>5. \A u \in 1..n : u \in 1..N /\ u < n + 1 /\ u \in 1..(n + 1)
    BY <1>1, <2>1
  <2>6. \A x \in ToSet(a), y \in ToSet(b) : ~(x.page = y.page /\ x.key = y.key)
    <3>. HIDE DEF G, N, a
    <3>. QED
      BY <1>3, <2>1, <2>2, <2>5
  <2>. HIDE DEF a, b, N
  <2>7. Apart(a \o b) /\ ToSet(a \o b) = ToSet(a) \cup ToSet(b)
    BY <2>2, <2>3, <2>6, ApartConcat, ConcatHolds
  <2>8. \A x \in ToSet(a \o b) : \E u \in 1..(n + 1) : x \in ToSet(emitted(u))
    <3>1. n + 1 \in 1..(n + 1)
      BY <2>1
    <3>. QED
      BY <2>2, <2>5, <2>7, <3>1 DEF b
  <2>. QED
    BY <2>1, <2>4, <2>7, <2>8
<1>9. 0..N \subseteq G
  <2>. HIDE DEF G, N
  <2>. QED
    BY <1>1, <1>7, <1>8, Upto
<1>10. N \in 0..N
  BY <1>1
<1>. QED
  BY <1>5, <1>6, <1>9, <1>10

\* What the nodes of a page give, whatever text they carry, has one key each.
LEMMA AdmittedApart ==
    ASSUME NEW page \in Pages, NEW owners
    PROVE  Apart(Admitted(NodesOf[page], owners, page))
<1>. DEFINE nodes == NodesOf[page]
            own == {n \in ToSet(nodes) : TextDigest(n) \in DOMAIN owners
                                            => owners[TextDigest(n)] = page.id}
            X == NodeType(page.id)
<1>1. nodes \in Seq(X) /\ UnitsOf[page] \in Seq(UnitType)
  BY NodesOfAPage
<1>2. nodes = PageNodes(page, UnitsOf[page])
  BY DEF NodesOf
<1>3. Apart(nodes)
  <2>. HIDE DEF nodes
  <2>. QED
    BY <1>1, <1>2, PageNodesApart
<1>4. Admitted(nodes, owners, page) = Filter(nodes, own)
  BY DEF Admitted
<1>. HIDE DEF nodes, own, X
<1>5. Apart(Filter(nodes, own))
  BY <1>1, <1>3, ApartFilter
<1>. QED
  BY <1>4, <1>5 DEF nodes

\* The points of the run.
RunHolds(ps) == {p \in ps : p.run = job.run}

\* The nodes that are pending get points of their own, and none is that of a point
\* the run has: an upsert replaces nothing.
LEMMA UpsertHolds ==
    ASSUME PageIndexInv, job.pc = "upsert", Apart(job.pending)
    PROVE  /\ \A i, j \in 1..Len(job.pending) :
                 SameId(Point(job.pending[i]), Point(job.pending[j])) => i = j
           /\ RunHolds(Upserted(job.pending))
                 = RunHolds(points) \cup {Point(job.pending[i]) : i \in 1..Len(job.pending)}
           /\ RunHolds(points) \cap {Point(job.pending[i]) : i \in 1..Len(job.pending)} = {}
<1>. DEFINE pending == job.pending
            L == Len(pending)
            new == {Point(pending[i]) : i \in 1..L}
            old == RunHolds(points)
<1>1. L \in Nat /\ DOMAIN pending = 1..L
  <2>1. pending \in Seq(NodesAny)
    BY DEF PageIndexInv, LocalTypes
  <2>. HIDE DEF pending
  <2>. QED
    BY <2>1
<1>2. ASSUME NEW i \in 1..L
      PROVE  /\ pending[i] \in ToSet(pending)
             /\ Point(pending[i]).run = job.run /\ Point(pending[i]).page = pending[i].page
             /\ Point(pending[i]).key = pending[i].key
  <2>1. pending[i] \in ToSet(pending)
    BY <1>1 DEF ToSet
  <2>. QED
    BY <2>1, PointOfNode
<1>3. \A i, j \in 1..L : SameId(Point(pending[i]), Point(pending[j])) => i = j
  <2>. HIDE DEF L
  <2>. QED
    BY <1>1, <1>2 DEF SameId, Apart
<1>5. \A p \in old : p \in points /\ p.run = job.run /\ \A n \in ToSet(pending) : p.page # n.page
  BY DEF RunHolds, PageIndexInv, PointsWereRead, Active, RunPoints
<1>6. RunHolds(Upserted(pending)) = old \cup new
  <2>. DEFINE last == {i \in DOMAIN pending : \A j \in (i + 1)..Len(pending) :
                           ~SameId(Point(pending[i]), Point(pending[j]))}
              stay == {p \in points : \A n \in ToSet(pending) : ~SameId(p, Point(n))}
  <2>1. Upserted(pending) = stay \cup {Point(pending[i]) : i \in last}
    BY DEF Upserted
  <2>2. last = 1..L
    <3>1. \A i \in 1..L : \A j \in (i + 1)..L : j \in 1..L /\ i # j
      <4>. HIDE DEF L
      <4>. QED
        BY <1>1
    <3>2. \A i, j \in 1..L : i # j => ~SameId(Point(pending[i]), Point(pending[j]))
      BY <1>3
    <3>. QED
      BY <1>1, <3>1, <3>2
  <2>3. {Point(pending[i]) : i \in last} = new
    BY <2>2
  <2>4. \A p \in new : p.run = job.run
    <3>. HIDE DEF L
    <3>. QED
      BY <1>2
  <2>5. \A n \in ToSet(pending) : Point(n).page = n.page
    BY PointOfNode
  <2>6. \A p \in old : p \in stay
    <3>. HIDE DEF old
    <3>. QED
      BY <1>5, <2>5 DEF SameId
  <2>. HIDE DEF last, new, stay, pending
  <2>7. RunHolds(Upserted(pending)) = {p \in stay : p.run = job.run} \cup new
    BY <2>1, <2>3, <2>4 DEF RunHolds
  <2>8. {p \in stay : p.run = job.run} = old
    BY <1>5, <2>6 DEF RunHolds, stay
  <2>. QED
    BY <2>7, <2>8
<1>7. old \cap new = {}
  <2>1. \A p \in new : \E n \in ToSet(pending) : p.page = n.page
    <3>. HIDE DEF L, pending
    <3>. QED
      BY <1>2
  <2>. HIDE DEF old, new
  <2>. QED
    BY <1>5, <2>1
<1>. QED
  BY <1>3, <1>6, <1>7

\* An upsert adds a point for each node that is pending, and replaces none.
LEMMA UpsertCounts ==
    ASSUME PageIndexInv, job.pc = "upsert", Apart(job.pending),
           IsFiniteSet(RunHolds(points))
    PROVE  /\ IsFiniteSet(RunHolds(Upserted(job.pending)))
           /\ Cardinality(RunHolds(Upserted(job.pending)))
                  = Cardinality(RunHolds(points)) + Len(job.pending)
<1>. DEFINE pending == job.pending
            L == Len(pending)
            f == [i \in 1..L |-> Point(pending[i])]
            new == {f[i] : i \in 1..L}
            old == RunHolds(points)
<1>1. L \in Nat /\ DOMAIN pending = 1..L
  <2>1. pending \in Seq(NodesAny)
    BY DEF PageIndexInv, LocalTypes
  <2>. HIDE DEF pending
  <2>. QED
    BY <2>1
<1>2. /\ \A i, j \in 1..L : SameId(f[i], f[j]) => i = j
      /\ RunHolds(Upserted(pending)) = old \cup new
      /\ old \cap new = {}
  <2>1. {Point(pending[i]) : i \in 1..L} = new
    OBVIOUS
  <2>2. /\ \A i, j \in 1..L : SameId(Point(pending[i]), Point(pending[j])) => i = j
        /\ RunHolds(Upserted(pending)) = old \cup {Point(pending[i]) : i \in 1..L}
        /\ old \cap {Point(pending[i]) : i \in 1..L} = {}
    BY UpsertHolds
  <2>. QED
    BY <2>1, <2>2
<1>3. IsFiniteSet(new) /\ Cardinality(new) = L
  <2>1. f \in Bijection(1..L, new)
    <3>1. f \in [1..L -> new]
      OBVIOUS
    <3>2. \A i, j \in 1..L : f[i] = f[j] => i = j
      BY <1>2 DEF SameId
    <3>3. \A x \in new : \E i \in 1..L : f[i] = x
      OBVIOUS
    <3>. HIDE DEF f, new, L
    <3>. QED
      BY <3>1, <3>2, <3>3 DEF Bijection, Injection, Surjection, IsInjective
  <2>2. ExistsBijection(1..L, new)
    BY <2>1 DEF ExistsBijection
  <2>3. IsFiniteSet(1..L) /\ Cardinality(1..L) = L
    <3>. HIDE DEF L
    <3>. QED
      BY <1>1, FS_Interval
  <2>. HIDE DEF new, L
  <2>. QED
    BY <2>2, <2>3, FS_Bijection
<1>. HIDE DEF old, new, L
<1>4. /\ IsFiniteSet(old \cup new) /\ Cardinality(old) \in Nat
      /\ Cardinality(old \cup new) = Cardinality(old) + Cardinality(new) - Cardinality(old \cap new)
  <2>1. IsFiniteSet(old)
    BY DEF old
  <2>. QED
    BY <1>3, <2>1, FS_Union, FS_CardinalityType
<1>5. Cardinality(old \cap new) = 0
  BY <1>2, FS_EmptySet
<1>6. Cardinality(old \cup new) = Cardinality(old) + L
  BY <1>1, <1>3, <1>4, <1>5
<1>. QED
  BY <1>2, <1>4, <1>6 DEF old, L

\* The nodes of each page that was read.
Emitted == [i \in 1..job.at |-> IF Verdict(job.pages[i]) = "indexed"
                                THEN Len(NodesOf[job.pages[i]]) ELSE 0]

\* Every page and every node is counted once ...
CountedOnce ==
    LET counts == job.counts
    IN  /\ counts.seen = job.at /\ counts.seen = counts.english + counts.unusable
        /\ counts.lang + counts.empty <= counts.unusable
        /\ Total(Emitted) = counts.upserted + Len(job.pending) + counts.repeat

\* ... and every point is one that was counted, and has a key of its own.
PointsAreCounted ==
    /\ job.pc = "delete" => job.counts.upserted = 0
    /\ job.state = "complete" \/ Active =>
           /\ IsFiniteSet(RunHolds(points))
           /\ job.counts.upserted = Cardinality(RunHolds(points))

CountInv == Apart(job.pending) /\ CountedOnce /\ PointsAreCounted

\* The counters and the nodes in hand of an attempt, as numbers.
LEMMA CountNumbers ==
    ASSUME PageIndexInv
    PROVE  /\ job.counts.seen \in Nat /\ job.counts.english \in Nat
           /\ job.counts.unusable \in Nat /\ job.counts.lang \in Nat
           /\ job.counts.empty \in Nat /\ job.counts.upserted \in Nat
           /\ job.counts.repeat \in Nat /\ job.counts.stub \in Nat
           /\ DOMAIN job.counts = {"seen", "english", "unusable", "lang", "empty",
                                    "upserted", "repeat", "stub"}
           /\ job.pending \in Seq(NodesAny) /\ Len(job.pending) \in Nat
           /\ job.at \in Nat
<1>1. job.counts \in [{"seen", "english", "unusable", "lang", "empty", "upserted",
                       "repeat", "stub"} -> Nat]
  <2>1. DOMAIN NoCounts = {"seen", "english", "unusable", "lang", "empty", "upserted",
                           "repeat", "stub"}
    BY DEF NoCounts
  <2>. QED
    BY <2>1 DEF PageIndexInv, TypeOK, Counts
<1>2. job.at \in Nat
  <2>1. job.at \in 0..Len(job.pages) /\ job.pages \in PageLists \cup {<<>>}
    BY DEF PageIndexInv, TypeOK
  <2>. QED
    BY <2>1
<1>3. job.pending \in Seq(NodesAny)
  BY DEF PageIndexInv, LocalTypes
<1>4. Len(job.pending) \in Nat
  <2>. DEFINE pending == job.pending
  <2>. HIDE DEF pending
  <2>1. pending \in Seq(NodesAny) => Len(pending) \in Nat
    OBVIOUS
  <2>. USE DEF pending
  <2>. QED
    BY <1>3, <2>1
<1>. QED
  BY <1>1, <1>2, <1>3, <1>4

\* A new attempt, or none, has counted nothing.
LEMMA NothingCounted ==
    ASSUME job'.pc \in {"idle", "delete"}, job'.state # "complete",
           job'.at = 0, job'.pending = <<>>, job'.counts = NoCounts
    PROVE  CountInv'
<1>1. Apart(job'.pending)
  BY DEF Apart
<1>2. Emitted' = <<>>
  BY DEF Emitted
<1>3. Total(<<>>) = 0
  <2>1. <<>> \in Seq(Nat) /\ 0 \in Nat
    OBVIOUS
  <2>. QED
    BY <2>1, TotalAppends
<1>4. CountedOnce'
  BY <1>2, <1>3 DEF CountedOnce, NoCounts
<1>5. PointsAreCounted'
  BY DEF PointsAreCounted, Active, NoCounts
<1>. QED
  BY <1>1, <1>4, <1>5 DEF CountInv

\* A step that reads no page and touches no point keeps the counters right, and so
\* does one that ends the attempt.
LEMMA CountsStand ==
    ASSUME CountInv,
           job'.pending = job.pending, job'.counts = job.counts, job'.at = job.at,
           job'.pages = job.pages, job'.run = job.run,
           job'.pc # "delete",
           \/ points' = points /\ Active
           \/ job'.state # "complete" /\ ~Active'
    PROVE  CountInv'
<1>1. Emitted' = Emitted
  BY DEF Emitted
<1>2. Apart(job.pending)' /\ CountedOnce'
  BY <1>1 DEF CountInv, CountedOnce
<1>3. PointsAreCounted'
  BY DEF CountInv, PointsAreCounted, RunHolds
<1>. QED
  BY <1>2, <1>3 DEF CountInv

\* Nothing is counted at the start.
LEMMA CountStarts == Init => CountInv
<1>. SUFFICES ASSUME Init PROVE CountInv
  OBVIOUS
<1>1. /\ job.pc = "idle" /\ job.state = "pending" /\ job.pages = <<>> /\ job.at = 0
      /\ job.pending = <<>> /\ job.counts = NoCounts
  BY DEF Init, NoJob, NewJob
<1>2. Emitted = <<>>
  BY <1>1 DEF Emitted
<1>3. Total(<<>>) = 0
  <2>1. <<>> \in Seq(Nat) /\ 0 \in Nat
    OBVIOUS
  <2>. QED
    BY <2>1, TotalAppends
<1>. QED
  BY <1>1, <1>2, <1>3 DEF CountInv, Apart, CountedOnce, PointsAreCounted, Active, NoCounts

\* A page more is read: what it emitted is one number more.
LEMMA EmittedGrows ==
    ASSUME PageIndexInv, job.at < Len(job.pages), job'.at = job.at + 1, job'.pages = job.pages
    PROVE  LET page == job.pages[job.at + 1]
           IN  /\ Total(Emitted') = Total(Emitted) + (IF Verdict(page) = "indexed"
                                                      THEN Len(NodesOf[page]) ELSE 0)
               /\ Total(Emitted) \in Nat
<1>. DEFINE page == job.pages[job.at + 1]
            given(p) == IF Verdict(p) = "indexed" THEN Len(NodesOf[p]) ELSE 0
            n == job.at
<1>1. n \in Nat /\ page \in Pages
  BY NextPage
<1>2. ASSUME NEW i \in 1..(n + 1) PROVE job.pages[i] \in Pages
  <2>1. i \in 1..Len(job.pages)
    <3>1. n + 1 \in 1..Len(job.pages) /\ Len(job.pages) \in Nat
      BY NextPage, PagesOfAList DEF PageIndexInv, TypeOK
    <3>. QED
      BY <1>1, <3>1
  <2>. QED
    BY <2>1, PagesOfAList DEF PageIndexInv, TypeOK
<1>3. ASSUME NEW p \in Pages PROVE given(p) \in Nat
  <2>. DEFINE nodes == NodesOf[p]
  <2>1. nodes \in Seq(NodeType(p.id))
    BY NodesOfAPage
  <2>2. Len(nodes) \in Nat
    <3>. HIDE DEF nodes
    <3>. QED
      BY <2>1
  <2>. QED
    BY <2>2
<1>4. Emitted = [i \in 1..n |-> given(job.pages[i])]
  BY DEF Emitted
<1>5. Emitted' = [i \in 1..(n + 1) |-> given(job.pages[i])]
  BY DEF Emitted
<1>6. Emitted \in Seq(Nat) /\ Len(Emitted) = n
  <2>1. Emitted \in [1..n -> Nat]
    <3>1. \A i \in 1..n : i \in 1..(n + 1)
      BY <1>1
    <3>. HIDE DEF given, n
    <3>. QED
      BY <1>2, <1>3, <1>4, <3>1
  <2>. QED
    BY <1>1, <2>1
<1>. HIDE DEF given
<1>7. Emitted' = Append(Emitted, given(page))
  <2>1. Emitted' \in Seq(Nat) /\ Len(Emitted') = n + 1
    <3>1. Emitted' \in [1..(n + 1) -> Nat]
      BY <1>2, <1>3, <1>5
    <3>. QED
      BY <1>1, <3>1
  <2>. DEFINE more == Append(Emitted, given(page))
  <2>2. /\ more \in Seq(Nat) /\ Len(more) = n + 1 /\ more[n + 1] = given(page)
        /\ \A i \in 1..n : more[i] = Emitted[i]
    BY <1>1, <1>3, <1>6
  <2>. HIDE DEF more
  <2>3. \A i \in 1..(n + 1) : Emitted'[i] = more[i]
    <3>1. ASSUME NEW i \in 1..(n + 1) PROVE Emitted'[i] = more[i]
      <4>1. CASE i = n + 1
        BY <1>1, <1>5, <2>2, <4>1
      <4>2. CASE i \in 1..n
        BY <1>4, <1>5, <2>2, <4>2
      <4>. QED
        BY <1>1, <4>1, <4>2
    <3>. QED
      BY <3>1
  <2>4. Emitted' = more
    BY <2>1, <2>2, <2>3, SeqEqual
  <2>. QED
    BY <2>4 DEF more
<1>8. given(page) \in Nat
  BY <1>1, <1>3
<1>9. Total(Append(Emitted, given(page))) = Total(Emitted) + given(page) /\ Total(Emitted) \in Nat
  <2>. HIDE DEF page
  <2>. QED
    BY <1>6, <1>8, TotalAppends
<1>. QED
  BY <1>7, <1>9 DEF given

\* The steps that count nothing (FlushRest, Finish, the flush, and what ends an
\* attempt other than a kill).
LEMMA QuietStepsCount ==
    ASSUME PageIndexInv, CountInv,
           \/ FlushRest \/ Finish \/ ReadCache \/ EmbedBatch \/ WriteCache
           \/ CircuitOpens \/ Fails
    PROVE  CountInv'
<1>1. DOMAIN job = {"pc", "state", "run", "pages", "at", "pending", "owners",
                    "counts", "quarantine"}
  BY DEF PageIndexInv, LocalTypes
<1>2. CASE FlushRest
  <2>1. /\ job.pc = "pages" /\ points' = points /\ job' = [job EXCEPT !.pc = "cache"]
    BY <1>2 DEF FlushRest
  <2>. QED
    BY <1>1, <2>1, CountsStand DEF Active
<1>3. CASE Finish
  <2>1. /\ job.pc = "pages" /\ points' = points
        /\ job' = [job EXCEPT !.pc = "idle", !.state = "complete"]
    BY <1>3 DEF Finish
  <2>. QED
    BY <1>1, <2>1, CountsStand DEF Active
<1>4. CASE ReadCache \/ EmbedBatch \/ WriteCache
  <2>1. /\ job.pc \in {"cache", "embed", "put"} /\ points' = points
        /\ \E pc \in {"embed", "put", "upsert"} : job' = [job EXCEPT !.pc = pc]
    <3>1. CASE ReadCache
      BY <3>1 DEF ReadCache, Ask
    <3>2. CASE EmbedBatch
      <4>1. job.pc = "embed" /\ points' = points
            /\ job' = [job EXCEPT !.pc = IF Tail(flush.batches) = <<>> THEN "put" ELSE @]
        BY <3>2 DEF EmbedBatch
      <4>. QED
        BY <4>1
    <3>3. CASE WriteCache
      BY <3>3 DEF WriteCache
    <3>. QED
      BY <1>4, <3>1, <3>2, <3>3
  <2>2. PICK pc \in {"embed", "put", "upsert"} : job' = [job EXCEPT !.pc = pc]
    BY <2>1
  <2>. QED
    BY <1>1, <2>1, <2>2, CountsStand DEF Active
<1>5. CASE CircuitOpens
  <2>1. PICK items : job' = [job EXCEPT !.pc = "idle", !.state = "failed", !.quarantine = items]
    BY <1>5 DEF CircuitOpens
  <2>. QED
    BY <1>1, <2>1, CountsStand DEF Active
<1>6. CASE Fails
  <2>1. job' = [job EXCEPT !.pc = "idle", !.state = "failed"]
    BY <1>6 DEF Fails
  <2>. QED
    BY <1>1, <2>1, CountsStand DEF Active
<1>. QED
  BY <1>2, <1>3, <1>4, <1>5, <1>6

\* An attempt begins, or is given up: nothing is counted.
LEMMA FreshStepsCount ==
    ASSUME CountInv, (\E run \in Runs : Begin(run)) \/ Abandon
    PROVE  CountInv'
<1>1. CASE \E run \in Runs : Begin(run)
  <2>1. PICK run \in Runs, pages \in PageLists : job' = NewJob(run, pages)
    BY <1>1 DEF Begin
  <2>. QED
    BY <2>1, NothingCounted DEF NewJob
<1>2. CASE Abandon
  <2>1. job' = [NewJob(job.run, <<>>) EXCEPT !.pc = "idle", !.state = "abandoned"]
    BY <1>2 DEF Abandon, NoJob
  <2>. QED
    BY <2>1, NothingCounted DEF NewJob
<1>. QED
  BY <1>1, <1>2

\* The delete leaves no point, and none was counted.
LEMMA DeleteCounts ==
    ASSUME PageIndexInv, CountInv, DeleteRunPoints
    PROVE  CountInv'
<1>1. /\ job.pc = "delete" /\ points' = points \ RunPoints(job.run)
      /\ job' = [job EXCEPT !.pc = "pages"]
  BY DEF DeleteRunPoints
<1>2. /\ job'.pc = "pages" /\ job'.run = job.run /\ job'.pages = job.pages
      /\ job'.at = job.at /\ job'.pending = job.pending /\ job'.counts = job.counts
  BY <1>1 DEF PageIndexInv, LocalTypes
<1>3. RunHolds(points)' = {}
  BY <1>1, <1>2 DEF RunHolds, RunPoints
<1>4. PointsAreCounted'
  <2>1. IsFiniteSet({}) /\ Cardinality({}) = 0
    BY FS_EmptySet
  <2>2. job'.counts.upserted = 0
    BY <1>1, <1>2 DEF CountInv, PointsAreCounted
  <2>. QED
    BY <1>2, <1>3, <2>1, <2>2 DEF PointsAreCounted
<1>5. Emitted' = Emitted
  BY <1>2 DEF Emitted
<1>6. Apart(job.pending)' /\ CountedOnce'
  BY <1>2, <1>5 DEF CountInv, CountedOnce
<1>. QED
  BY <1>4, <1>6 DEF CountInv

\* What was pending is what is upserted.
LEMMA UpsertStepCounts ==
    ASSUME PageIndexInv, CountInv, Upsert
    PROVE  CountInv'
<1>. DEFINE L == Len(job.pending)
            counted == [job.counts EXCEPT !.upserted = @ + L]
<1>1. job.pc = "upsert" /\ points' = Upserted(job.pending)
  BY DEF Upsert
<1>2. job' = [job EXCEPT !.pc = "pages", !.pending = <<>>, !.counts = counted]
  BY DEF Upsert
<1>3. L \in Nat /\ job.counts.upserted \in Nat
      /\ counted.seen = job.counts.seen /\ counted.english = job.counts.english
      /\ counted.unusable = job.counts.unusable /\ counted.lang = job.counts.lang
      /\ counted.empty = job.counts.empty /\ counted.repeat = job.counts.repeat
      /\ counted.upserted = job.counts.upserted + L
  BY CountNumbers
<1>. HIDE DEF counted
<1>4. /\ job'.pc = "pages" /\ job'.run = job.run /\ job'.pages = job.pages
      /\ job'.at = job.at /\ job'.pending = <<>> /\ job'.counts = counted
  BY <1>2 DEF PageIndexInv, LocalTypes
<1>5. Emitted' = Emitted /\ Len(<<>>) = 0
  BY <1>4 DEF Emitted
<1>6. Apart(job.pending)'
  BY <1>4 DEF Apart
<1>7. CountedOnce'
  <2>1. /\ job.counts.seen = job.at /\ job.counts.seen = job.counts.english + job.counts.unusable
        /\ job.counts.lang + job.counts.empty <= job.counts.unusable
        /\ Total(Emitted) = job.counts.upserted + L + job.counts.repeat
    BY DEF CountInv, CountedOnce
  <2>2. job.counts.repeat \in Nat
    BY CountNumbers
  <2>3. Total(Emitted) = counted.upserted + 0 + counted.repeat
    <3>. HIDE DEF L
    <3>. QED
      BY <1>3, <2>1, <2>2
  <2>. QED
    BY <1>3, <1>4, <1>5, <2>1, <2>3 DEF CountedOnce
<1>8. PointsAreCounted'
  <2>1. IsFiniteSet(RunHolds(points)) /\ job.counts.upserted = Cardinality(RunHolds(points))
    BY <1>1 DEF CountInv, PointsAreCounted, Active
  <2>2. /\ IsFiniteSet(RunHolds(Upserted(job.pending)))
        /\ Cardinality(RunHolds(Upserted(job.pending))) = Cardinality(RunHolds(points)) + L
    BY <1>1, <2>1, UpsertCounts DEF CountInv
  <2>3. RunHolds(points)' = RunHolds(Upserted(job.pending))
    BY <1>1, <1>4 DEF RunHolds
  <2>. QED
    BY <1>3, <1>4, <2>1, <2>2, <2>3 DEF PointsAreCounted
<1>. QED
  BY <1>6, <1>7, <1>8 DEF CountInv

\* A page that is skipped is counted, and its nodes are none (_skip_unusable).
LEMMA SkipCounts ==
    ASSUME PageIndexInv, CountInv, ReadPage, SkipPage(job.pages[job.at + 1])
    PROVE  CountInv'
<1>. DEFINE page == job.pages[job.at + 1]
            c == job.counts
            d == Skip(c, Verdict(page))
<1>1. /\ job.pc = "pages" /\ job.at < Len(job.pages) /\ points' = points
      /\ Verdict(page) # "indexed" /\ job' = [job EXCEPT !.at = @ + 1, !.counts = d]
  BY DEF ReadPage, SkipPage
<1>2. /\ job'.pc = job.pc /\ job'.state = job.state /\ job'.run = job.run
      /\ job'.pages = job.pages /\ job'.at = job.at + 1 /\ job'.pending = job.pending
      /\ job'.counts = d
  BY <1>1 DEF PageIndexInv, LocalTypes
<1>3. /\ d.seen = c.seen + 1 /\ d.english = c.english /\ d.unusable = c.unusable + 1
      /\ d.upserted = c.upserted /\ d.repeat = c.repeat
      /\ d.lang \in {c.lang, c.lang + 1} /\ d.empty \in {c.empty, c.empty + 1}
      /\ d.lang = c.lang \/ d.empty = c.empty
  BY CountNumbers DEF Skip
<1>4. Total(Emitted') = Total(Emitted)
  BY <1>1, <1>2, EmittedGrows
<1>. HIDE DEF d
<1>5. CountedOnce'
  <2>1. /\ c.seen = job.at /\ c.seen = c.english + c.unusable
        /\ c.lang + c.empty <= c.unusable
        /\ Total(Emitted) = c.upserted + Len(job.pending) + c.repeat
    BY DEF CountInv, CountedOnce
  <2>2. /\ c.seen \in Nat /\ c.english \in Nat /\ c.unusable \in Nat /\ c.lang \in Nat
        /\ c.empty \in Nat
    BY CountNumbers
  <2>. HIDE DEF c
  <2>3. d.lang + d.empty <= d.unusable
    BY <1>3, <2>1, <2>2
  <2>4. d.seen = job.at + 1 /\ d.seen = d.english + d.unusable
    BY <1>3, <2>1, <2>2
  <2>. QED
    BY <1>2, <1>3, <1>4, <2>1, <2>3, <2>4 DEF CountedOnce
<1>6. PointsAreCounted'
  <2>1. IsFiniteSet(RunHolds(points)) /\ c.upserted = Cardinality(RunHolds(points))
    BY <1>1 DEF CountInv, PointsAreCounted, Active
  <2>2. RunHolds(points)' = RunHolds(points)
    BY <1>1, <1>2 DEF RunHolds
  <2>. QED
    BY <1>1, <1>2, <1>3, <2>1, <2>2 DEF PointsAreCounted
<1>7. Apart(job.pending)'
  BY <1>2 DEF CountInv
<1>. QED
  BY <1>5, <1>6, <1>7 DEF CountInv

\* Of a page that is indexed, each node is pending now or was a repeat
\* (_admit_page_nodes).
LEMMA IndexCounts ==
    ASSUME PageIndexInv, CountInv, ReadPage, IndexPage(job.pages[job.at + 1])
    PROVE  CountInv'
<1>. DEFINE page == job.pages[job.at + 1]
            nodes == NodesOf[page]
            admitted == Admitted(nodes, job.owners, page)
            after == OwnersAfter(admitted, job.owners, page)
            pending == job.pending \o admitted
            c == job.counts
            d == [c EXCEPT !.seen = @ + 1,
                           !.english = @ + 1,
                           !.stub = @ + StubsSkipped(UnitsOf[page]),
                           !.repeat = @ + (Len(nodes) - Len(admitted))]
            next == IF Len(pending) >= BatchSize THEN "cache" ELSE "pages"
<1>1. /\ job.pc = "pages" /\ job.at < Len(job.pages) /\ points' = points
      /\ Verdict(page) = "indexed"
      /\ job' = [job EXCEPT !.at = @ + 1, !.owners = after, !.counts = d,
                            !.pending = pending, !.pc = next]
  <2>1. job.pc = "pages" /\ job.at < Len(job.pages) /\ points' = points
    BY DEF ReadPage
  <2>2. IndexPage(page)
    OBVIOUS
  <2>3. Verdict(page) = "indexed" /\ job' = [job EXCEPT !.at = @ + 1, !.owners = after,
                                      !.counts = d, !.pending = pending, !.pc = next]
    <3>. HIDE DEF page
    <3>. QED
      BY <2>2, Zenon DEF IndexPage
  <2>. QED
    BY <2>1, <2>3
<1>2. /\ page \in Pages /\ job.at \in Nat
      /\ \A i \in 1..job.at : job.pages[i].id # page.id
  BY <1>1, NextPage
<1>3. /\ nodes \in Seq(NodeType(page.id)) /\ admitted \in Seq(NodeType(page.id))
      /\ Len(nodes) - Len(admitted) \in Nat
      /\ \A n \in ToSet(admitted) : n \in NodeType(page.id)
  BY <1>2, NodesOfAPage, AdmittedNodes
<1>4. next \in {"cache", "pages"}
  OBVIOUS
<1>5. /\ d.seen = c.seen + 1 /\ d.english = c.english + 1 /\ d.unusable = c.unusable
      /\ d.upserted = c.upserted /\ d.repeat = c.repeat + (Len(nodes) - Len(admitted))
      /\ d.lang = c.lang /\ d.empty = c.empty
  <2>. HIDE DEF nodes, admitted
  <2>. QED
    BY CountNumbers
<1>. HIDE DEF d, after, next
<1>6. /\ job'.pc = next /\ job'.state = job.state /\ job'.run = job.run
      /\ job'.pages = job.pages /\ job'.at = job.at + 1 /\ job'.pending = pending
      /\ job'.counts = d
  BY <1>1 DEF PageIndexInv, LocalTypes
<1>7. Total(Emitted') = Total(Emitted) + Len(nodes) /\ Total(Emitted) \in Nat
  BY <1>1, <1>6, EmittedGrows
<1>8. Apart(pending) /\ Len(pending) = Len(job.pending) + Len(admitted)
      /\ Len(admitted) \in Nat /\ Len(nodes) \in Nat
  <2>1. Apart(admitted)
    BY <1>2, AdmittedApart
  <2>2. \A x \in ToSet(job.pending) : x.page # page.id
    BY <1>2 DEF PageIndexInv, PendingWasRead
  <2>. HIDE DEF admitted, nodes, page
  <2>3. \A x \in ToSet(job.pending), y \in ToSet(admitted) : ~(x.page = y.page /\ x.key = y.key)
    BY <1>3, <2>2 DEF NodeType
  <2>4. page.id \in PageIds
    BY <1>2 DEF PageIds
  <2>5. NodeType(page.id) \subseteq NodesAny
    BY <2>4 DEF NodeType, NodesAny, Short
  <2>6. admitted \in Seq(NodesAny) /\ job.pending \in Seq(NodesAny)
    BY <1>3, <2>5, SeqMonotonic, CountNumbers
  <2>7. Apart(pending)
    BY <2>1, <2>3, <2>6, ApartConcat DEF CountInv
  <2>8. Len(pending) = Len(job.pending) + Len(admitted)
        /\ Len(admitted) \in Nat /\ Len(nodes) \in Nat
    <3>. DEFINE old == job.pending
    <3>. HIDE DEF old
    <3>1. old \in Seq(NodesAny)
      BY <2>6 DEF old
    <3>2. Len(old \o admitted) = Len(old) + Len(admitted)
          /\ Len(admitted) \in Nat /\ Len(nodes) \in Nat
      BY <1>3, <2>6, <3>1
    <3>. QED
      BY <3>2 DEF old
  <2>. QED
    BY <2>7, <2>8
<1>. HIDE DEF nodes, admitted, pending, page
<1>9. CountedOnce'
  <2>1. /\ c.seen = job.at /\ c.seen = c.english + c.unusable
        /\ c.lang + c.empty <= c.unusable
        /\ Total(Emitted) = c.upserted + Len(job.pending) + c.repeat
    BY DEF CountInv, CountedOnce
  <2>2. /\ c.seen \in Nat /\ c.english \in Nat /\ c.unusable \in Nat /\ c.upserted \in Nat
        /\ c.repeat \in Nat /\ Len(job.pending) \in Nat
    BY CountNumbers
  <2>. HIDE DEF c
  <2>3. d.seen = job.at + 1 /\ d.seen = d.english + d.unusable
    BY <1>5, <2>1, <2>2
  <2>4. Total(Emitted') = d.upserted + Len(pending) + d.repeat
    BY <1>5, <1>7, <1>8, <2>1, <2>2, SMTT(30)
  <2>. QED
    BY <1>5, <1>6, <2>1, <2>3, <2>4 DEF CountedOnce
<1>10. PointsAreCounted'
  <2>1. IsFiniteSet(RunHolds(points)) /\ c.upserted = Cardinality(RunHolds(points))
    BY <1>1 DEF CountInv, PointsAreCounted, Active
  <2>2. RunHolds(points)' = RunHolds(points)
    BY <1>1, <1>6 DEF RunHolds
  <2>. QED
    BY <1>4, <1>5, <1>6, <2>1, <2>2 DEF PointsAreCounted
<1>11. Apart(job.pending)'
  BY <1>6, <1>8
<1>. QED
  BY <1>9, <1>10, <1>11 DEF CountInv

\* Every step keeps the counters right.
LEMMA CountStep == PageIndexInv /\ CountInv /\ [Next]_vars => CountInv'
<1>. SUFFICES ASSUME PageIndexInv, CountInv, [Next]_vars PROVE CountInv'
  OBVIOUS
<1>1. CASE ReadPage
  <2>1. CASE SkipPage(job.pages[job.at + 1])
    BY <1>1, <2>1, SkipCounts
  <2>2. CASE IndexPage(job.pages[job.at + 1])
    BY <1>1, <2>2, IndexCounts
  <2>. QED
    BY <1>1, <2>1, <2>2 DEF ReadPage
<1>2. CASE (\E run \in Runs : Begin(run)) \/ Abandon
  BY <1>2, FreshStepsCount
<1>3. CASE DeleteRunPoints
  BY <1>3, DeleteCounts
<1>4. CASE Upsert
  BY <1>4, UpsertStepCounts
<1>5. CASE FlushRest \/ Finish \/ ReadCache \/ EmbedBatch \/ WriteCache \/ CircuitOpens \/ Fails
  BY <1>5, QuietStepsCount
<1>6. CASE Deploy \/ UNCHANGED vars
  <2>1. job' = job /\ points' = points
    BY <1>6 DEF Deploy, vars
  <2>2. Emitted' = Emitted /\ RunHolds(points)' = RunHolds(points)
    BY <2>1 DEF Emitted, RunHolds
  <2>. QED
    BY <2>1, <2>2 DEF CountInv, CountedOnce, PointsAreCounted, Active
<1>. QED
  BY <1>1, <1>2, <1>3, <1>4, <1>5, <1>6 DEF Next

\* Every page that was read and every node that was made of it is counted once,
\* and while no call has failed what is counted is what the collection holds
\* (_index_run, _admit_page_nodes, _flush).
THEOREM CountersAlwaysAddUp == Spec => []CountersAddUp
<1>1. PageIndexInv /\ CountInv => CountersAddUp
  <2>. SUFFICES ASSUME PageIndexInv, CountInv PROVE CountersAddUp
    OBVIOUS
  <2>1. RunHolds(points) = RunPoints(job.run)
    BY DEF RunHolds, RunPoints
  <2>2. (job.state = "complete" \/ job.pc \notin {"idle", "delete"})
           => job.counts.upserted = Cardinality(RunPoints(job.run))
    BY <2>1 DEF CountInv, PointsAreCounted, Active
  <2>. QED
    BY <2>2 DEF CountersAddUp, CountInv, CountedOnce, Emitted
<1>. QED
  BY <1>1, StartKeeps, StepKeeps, CountStarts, CountStep, PTL DEF Spec

-----------------------------------------------------------------------------
(* What can be quoted.  A passage no longer than the overlap of the windows   *)
(* lies whole in one of them.                                                 *)

\* A window is cut one token short at most (_fit_window).
LEMMA WindowReaches ==
    ASSUME NEW text \in Seq(Tokens), NEW start \in Nat, start < Len(text),
           NEW size \in Nat, size > 1
    PROVE  LET w == FitWindow(text, start, Min({start + size, Len(text)}), size)
           IN  /\ w.end \in (start + 1)..Len(text)
               /\ w.piece = SubSeq(text, start + 1, w.end)
               /\ \A e \in (start + 1)..Len(text) : e < start + size => e <= w.end
<1>. DEFINE ends == {start + size, Len(text)}
            end == Min(ends)
            fits == {e \in (start + 1)..end : Measure(SubSeq(text, start + 1, e)) <= size}
            w == FitWindow(text, start, end, size)
            L == Len(text)
<1>1. L \in Nat /\ L = Len(text)
  OBVIOUS
<1>2. /\ end \in (start + 1)..L
      /\ \A e \in (start + 1)..L : e < start + size => e <= end
  <2>1. ends \in SUBSET Nat /\ ends # {} /\ L \in ends /\ start + size \in ends
        /\ \A e \in ends : e = start + size \/ e = L
    BY <1>1
  <2>. HIDE DEF ends, L
  <2>2. end \in ends /\ \A n \in ends : end <= n
    BY <2>1, LeastIsMin
  <2>. HIDE DEF end
  <2>. QED
    BY <1>1, <2>1, <2>2
<1>. HIDE DEF end
<1>3. ASSUME NEW e \in (start + 1)..L, e <= end, e < start + size PROVE e \in fits
  <2>. DEFINE slice == SubSeq(text, start + 1, e)
  <2>1. slice \in Seq(Tokens) /\ Len(slice) = e - start
    BY <1>1
  <2>2. e - start \in Nat /\ e - start + 1 <= size
    BY <1>1, <1>3
  <2>. HIDE DEF slice
  <2>3. Measure(slice) <= size
    BY <2>1, <2>2 DEF Measure
  <2>4. e \in (start + 1)..end
    BY <1>1, <1>2, <1>3
  <2>. QED
    BY <2>3, <2>4 DEF slice
<1>4. fits \in SUBSET (0..L) /\ start + 1 \in fits
  <2>1. fits \subseteq (start + 1)..end
    OBVIOUS
  <2>. HIDE DEF fits, L
  <2>2. start + 1 \in (start + 1)..L /\ start + 1 <= end /\ start + 1 < start + size
    BY <1>1, <1>2
  <2>. QED
    BY <1>1, <1>2, <1>3, <2>1, <2>2
<1>5. Max(fits) \in fits /\ fits # {} /\ \A e \in fits : Max(fits) >= e
  <2>. HIDE DEF fits, L
  <2>. QED
    BY <1>1, <1>4, GreatestIsMax
<1>6. w.end = Max(fits) /\ w.piece = SubSeq(text, start + 1, Max(fits))
  BY <1>5 DEF FitWindow
<1>7. w.end \in (start + 1)..L
  <2>1. Max(fits) \in (start + 1)..end
    BY <1>5
  <2>. HIDE DEF fits, L, w
  <2>. QED
    BY <1>1, <1>2, <1>6, <2>1
<1>8. ASSUME NEW e \in (start + 1)..L, e < start + size PROVE e <= w.end
  <2>1. e \in fits
    <3>. HIDE DEF fits, L
    <3>. QED
      BY <1>2, <1>3, <1>8
  <2>. HIDE DEF fits, w
  <2>2. e <= Max(fits)
    BY <1>1, <1>4, <1>5, <2>1
  <2>. QED
    BY <1>6, <2>2
<1>. QED
  BY <1>6, <1>7, <1>8 DEF end

\* Between two steps there is one to start from.
LEMMA StepBefore ==
    ASSUME NEW step \in Nat \ {0}, NEW at \in Nat
    PROVE  \E k \in Nat : k * step \in Nat /\ k * step <= at /\ at < k * step + step
<1>. DEFINE S == {n \in Nat : at < (n + 1) * step}
<1>1. at \in S
  <2>1. (at + 1) * step \in Nat /\ (at + 1) * step >= at + 1
    BY Multiple
  <2>. QED
    BY <2>1
<1>2. PICK k \in S : \A m \in S : k <= m
  <2>1. S \in SUBSET Nat /\ S # {}
    BY <1>1
  <2>. HIDE DEF S
  <2>. QED
    BY <2>1, LeastNat
<1>3. k \in Nat /\ k * step \in Nat /\ (k + 1) * step = k * step + step
  <2>1. k \in Nat
    OBVIOUS
  <2>. HIDE DEF S
  <2>. QED
    BY <2>1, Multiple
<1>4. at < k * step + step
  <2>1. at < (k + 1) * step
    OBVIOUS
  <2>. QED
    BY <1>3, <2>1
<1>5. k * step <= at
  <2>1. CASE k = 0
    <3>1. 0 * step = 0
      OBVIOUS
    <3>. QED
      BY <2>1, <3>1
  <2>2. CASE k # 0
    <3>. DEFINE j == k - 1
    <3>1. j \in Nat /\ j + 1 = k /\ ~(k <= j)
      BY <1>3, <2>2
    <3>2. j \notin S
      <4>. HIDE DEF j, S
      <4>. QED
        BY <1>2, <3>1
    <3>. HIDE DEF j
    <3>3. ~(at < (j + 1) * step)
      BY <3>1, <3>2
    <3>. QED
      BY <1>3, <3>1, <3>3
  <2>. QED
    BY <2>1, <2>2
<1>. QED
  BY <1>3, <1>4, <1>5

\* s spans what lies from i to j of the text.
Spans(w, text, i, j) ==
    \E s \in 0..(i - 1), e \in j..Len(text) : w = SubSeq(text, s + 1, e)

\* Every passage no longer than the overlap is in one window (chunk_text).
LEMMA PassagesAreInWindows ==
    ASSUME NEW text \in Seq(Tokens), NEW size \in Nat, NEW overlap \in Nat, overlap < size,
           size > 1, NEW i \in 1..Len(text), NEW j \in i..Len(text), j < i + overlap
    PROVE  \E w \in ToSet(ChunkText(text, size, overlap)) : Spans(w, text, i, j)
<1>. DEFINE step == Step(size, overlap)
            L == Len(text)
            window(k) == FitWindow(text, k * step, Min({k * step + size, Len(text)}), size)
            stops == {k \in 0..Len(text) : \/ window(k).end >= Len(text)
                                           \/ (k + 1) * step >= Len(text)}
            last == Min(stops)
            pieces == [k \in 1..(last + 1) |-> window(k - 1).piece]
            chunks == ChunkText(text, size, overlap)
<1>1. /\ L \in Nat /\ i \in 1..L /\ j \in i..L /\ step \in Nat \ {0}
      /\ overlap = size - step /\ text # <<>>
  BY DEF Step
<1>2. stops \in SUBSET Nat /\ L \in stops
  <2>1. (L + 1) * step \in Nat /\ (L + 1) * step >= L + 1
    <3>. HIDE DEF step, L
    <3>1. L + 1 \in Nat
      BY <1>1
    <3>. QED
      BY <1>1, <3>1, Multiple
  <2>. HIDE DEF window, step
  <2>. QED
    BY <1>1, <2>1
<1>3. last \in stops /\ last \in Nat /\ \A k \in stops : last <= k
  <2>. HIDE DEF stops
  <2>. QED
    BY <1>2, LeastIsMin
<1>4. last <= L
  BY <1>2, <1>3
<1>5. ASSUME NEW k \in Nat, k < last PROVE (k + 1) * step < L /\ k \notin stops
  <2>1. k \notin stops /\ k \in 0..L
    <3>. HIDE DEF stops, L, last
    <3>. QED
      BY <1>1, <1>3, <1>4, <1>5
  <2>2. ~((k + 1) * step >= L)
    <3>. HIDE DEF window, step, last
    <3>. QED
      BY <2>1
  <2>3. (k + 1) * step \in Nat
    <3>. HIDE DEF step
    <3>1. k + 1 \in Nat
      OBVIOUS
    <3>. QED
      BY <1>1, <3>1, Multiple
  <2>. HIDE DEF step, L
  <2>. QED
    BY <1>1, <2>1, <2>2, <2>3
<1>6. window(last).end >= L \/ (last + 1) * step >= L
  <2>1. \A k \in stops : window(k).end >= Len(text) \/ (k + 1) * step >= Len(text)
    <3>. HIDE DEF window, step
    <3>. QED
      OBVIOUS
  <2>. HIDE DEF stops, window, step, last
  <2>. QED
    BY <1>3, <2>1
<1>. HIDE DEF stops, last
<1>7. ASSUME NEW k \in Nat, k <= last, k * step <= i - 1
      PROVE  /\ window(k).end \in (k * step + 1)..L
             /\ window(k).piece = SubSeq(text, k * step + 1, window(k).end)
             /\ j < k * step + size => j <= window(k).end
             /\ k * step \in Nat
  <2>1. k * step \in Nat
    <3>. HIDE DEF step
    <3>. QED
      BY <1>1, Multiple
  <2>. DEFINE start == k * step
  <2>2. start \in Nat /\ start < L /\ start <= i - 1
    <3>. HIDE DEF step, L
    <3>. QED
      BY <1>1, <1>7, <2>1
  <2>. HIDE DEF start
  <2>. DEFINE w == FitWindow(text, start, Min({start + size, Len(text)}), size)
  <2>3. /\ w.end \in (start + 1)..Len(text)
        /\ w.piece = SubSeq(text, start + 1, w.end)
        /\ \A e \in (start + 1)..Len(text) : e < start + size => e <= w.end
    BY <2>2, WindowReaches
  <2>4. w = window(k)
    BY DEF start
  <2>. HIDE DEF w, window
  <2>5. j \in (start + 1)..L
    <3>. HIDE DEF L
    <3>. QED
      BY <1>1, <2>2
  <2>. QED
    BY <2>1, <2>3, <2>4, <2>5 DEF start
<1>8. ASSUME NEW k \in Nat, k <= last, k * step <= i - 1, j <= window(k).end
      PROVE  \E w \in ToSet(chunks) : Spans(w, text, i, j)
  <2>. DEFINE w == window(k).piece
              e == window(k).end
              start == k * step
  <2>1. e \in (start + 1)..L /\ w = SubSeq(text, start + 1, e) /\ start \in Nat
    BY <1>7, <1>8
  <2>0. start <= i - 1 /\ j <= e
    BY <1>8
  <2>. HIDE DEF window, start, e, w, step
  <2>2. Spans(w, text, i, j)
    <3>1. start \in 0..(i - 1) /\ e \in j..Len(text)
      <4>. HIDE DEF L
      <4>1. start \in 0..(i - 1) /\ e \in j..L
        BY <1>1, <2>0, <2>1
      <4>. QED
        BY <4>1 DEF L
    <3>. QED
      BY <2>1, <3>1 DEF Spans
  <2>3. w # <<>>
    <3>1. Len(SubSeq(text, start + 1, e)) = e - start /\ e - start > 0
      <4>1. Len(text) \in Nat
        OBVIOUS
      <4>. QED
        BY <2>1, <4>1
    <3>2. Len(<<>>) = 0
      OBVIOUS
    <3>. QED
      BY <2>1, <3>1, <3>2
  <2>4. pieces[k + 1] = w /\ k + 1 \in DOMAIN pieces
    <3>1. k + 1 \in 1..(last + 1) /\ (k + 1) - 1 = k
      BY <1>3, <1>8
    <3>2. pieces[k + 1] = window((k + 1) - 1).piece
      BY <3>1
    <3>. QED
      BY <3>1, <3>2 DEF w
  <2>5. w \in ToSet(pieces) \cap (ToSet(pieces) \ {<<>>})
    <3>. HIDE DEF pieces
    <3>. QED
      BY <2>3, <2>4 DEF ToSet
  <2>6. chunks = Filter(pieces, ToSet(pieces) \ {<<>>})
    BY <1>1 DEF ChunkText, last, stops, window, step
  <2>. DEFINE A == {window(m).piece : m \in 0..last}
  <2>7. pieces \in Seq(A) /\ Len(pieces) = last + 1
    <3>1. \A m \in 1..(last + 1) : m - 1 \in 0..last
      BY <1>3
    <3>2. pieces \in [1..(last + 1) -> A]
      BY <3>1
    <3>3. last + 1 \in Nat
      BY <1>3
    <3>. HIDE DEF pieces, A
    <3>. QED
      BY <3>2, <3>3, OfLength
  <2>8. ToSet(Filter(pieces, ToSet(pieces) \ {<<>>})) = ToSet(pieces) \cap (ToSet(pieces) \ {<<>>})
    <3>. HIDE DEF pieces, A
    <3>. QED
      BY <2>7, FilterTypes
  <2>. HIDE DEF pieces, chunks
  <2>. QED
    BY <2>2, <2>5, <2>6, <2>8
<1>9. PICK k \in Nat : k * step \in Nat /\ k * step <= i - 1 /\ i - 1 < k * step + step
  <2>1. i - 1 \in Nat
    BY <1>1
  <2>. HIDE DEF step
  <2>. QED
    BY <1>1, <2>1, StepBefore
<1>10. CASE k <= last
  <2>1. j < k * step + size
    <3>. DEFINE start == k * step
    <3>. HIDE DEF start
    <3>1. start \in Nat /\ i - 1 < start + step /\ j < i + overlap /\ overlap = size - step
      BY <1>1, <1>9 DEF start
    <3>. HIDE DEF step, L
    <3>2. j < start + size
      BY <1>1, <3>1
    <3>. QED
      BY <3>2 DEF start
  <2>2. j <= window(k).end
    BY <1>7, <1>9, <1>10, <2>1
  <2>. QED
    BY <1>8, <1>9, <1>10, <2>2
<1>11. CASE ~(k <= last)
  <2>1. last * step \in Nat /\ (last + 1) * step \in Nat /\ last * step <= i - 1
        /\ (last + 1) * step <= i - 1
    <3>. DEFINE m == k - (last + 1)
    <3>1. m \in Nat /\ k = (last + 1) + m
      BY <1>3, <1>11
    <3>. HIDE DEF step, m
    <3>2. last + 1 \in Nat
      BY <1>3
    <3>3. /\ last * step \in Nat /\ (last + 1) * step = last * step + step
          /\ (last + 1) * step \in Nat /\ m * step \in Nat
      BY <1>1, <1>3, <3>1, <3>2, Multiple
    <3>4. k * step = (last + 1) * step + m * step
      BY <1>1, <3>1, <3>2
    <3>. DEFINE a == last * step
                b == (last + 1) * step
                c == m * step
                d == k * step
    <3>5. a \in Nat /\ b = a + step /\ b \in Nat /\ c \in Nat /\ d = b + c /\ d <= i - 1
      BY <1>9, <3>3, <3>4
    <3>. HIDE DEF a, b, c, d
    <3>6. a <= i - 1 /\ b <= i - 1
      BY <1>1, <3>5
    <3>. QED
      BY <3>5, <3>6 DEF a, b
  <2>2. window(last).end >= L
    <3>1. ~((last + 1) * step >= L)
      <4>. DEFINE b == (last + 1) * step
      <4>. HIDE DEF b
      <4>1. b \in Nat /\ b <= i - 1
        BY <2>1 DEF b
      <4>. HIDE DEF L
      <4>2. ~(b >= L)
        BY <1>1, <4>1
      <4>. QED
        BY <4>2 DEF b
    <3>. HIDE DEF window, step, L
    <3>. QED
      BY <1>6, <3>1
  <2>3. window(last).end \in (last * step + 1)..L
    BY <1>3, <1>7, <2>1
  <2>4. j <= window(last).end
    <3>. DEFINE e == window(last).end
                a == last * step
    <3>1. e \in (a + 1)..L /\ e >= L /\ a \in Nat
      BY <2>1, <2>2, <2>3
    <3>. HIDE DEF e, a, L
    <3>2. j <= e
      BY <1>1, <3>1
    <3>. QED
      BY <3>2 DEF e
  <2>. QED
    BY <1>3, <1>8, <2>1, <2>4
<1>. QED
  BY <1>10, <1>11

\* What spans a passage holds it.
LEMMA SpanHolds ==
    ASSUME NEW text \in Seq(Tokens), NEW i \in 1..Len(text), NEW j \in i..Len(text), NEW w,
           Spans(w, text, i, j)
    PROVE  w \in Seq(Tokens) /\ SubSeq(text, i, j) \in Seq(Tokens) /\ Holds(w, SubSeq(text, i, j))
<1>1. PICK s \in 0..(i - 1), e \in j..Len(text) : w = SubSeq(text, s + 1, e)
  BY DEF Spans
<1>. DEFINE q == SubSeq(text, i, j)
            n == j - i + 1
            m == e - s
            at == i - 1 - s
            u == SubSeq(w, at + 1, at + n)
<1>2. /\ Len(text) \in Nat /\ i \in Nat /\ j \in Nat /\ s \in Nat /\ e \in Nat
      /\ n \in Nat /\ m \in Nat /\ at \in Nat /\ at + n <= m /\ s + m <= Len(text)
      /\ at + s + 1 = i
  BY <1>1
<1>3. q \in Seq(Tokens) /\ Len(q) = n /\ \A k \in 1..n : q[k] = text[i + k - 1]
  <2>1. i \in Int /\ j \in Int /\ i <= j /\ \A k \in i..j : text[k] \in Tokens
    BY <1>2
  <2>2. /\ q \in Seq(Tokens) /\ Len(q) = (IF i <= j THEN j - i + 1 ELSE 0)
        /\ \A k \in 1..(j - i + 1) : q[k] = text[i + k - 1]
    BY <2>1, SubSeqProperties
  <2>. QED
    BY <2>1, <2>2
<1>4. w \in Seq(Tokens) /\ Len(w) = m /\ \A k \in 1..m : w[k] = text[s + k]
  <2>. DEFINE slice == SubSeq(text, s + 1, e)
  <2>1. slice \in Seq(Tokens) /\ Len(slice) = m
    BY <1>2
  <2>2. \A k \in 1..m : slice[k] = text[s + k]
    BY <1>2
  <2>. QED
    BY <1>1, <2>1, <2>2
<1>. HIDE DEF q
<1>5. u \in Seq(Tokens) /\ Len(u) = n /\ \A k \in 1..n : u[k] = w[at + k]
  <2>. HIDE DEF n, m, at
  <2>. QED
    BY <1>2, <1>4, SMTT(30)
<1>6. \A k \in 1..n : u[k] = q[k]
  <2>1. ASSUME NEW k \in 1..n PROVE at + k \in 1..m /\ s + (at + k) = i + k - 1
    <3>. HIDE DEF n, m, at
    <3>. QED
      BY <1>2
  <2>. HIDE DEF u, n, m, at
  <2>2. ASSUME NEW k \in 1..n PROVE u[k] = q[k]
    <3>1. u[k] = w[at + k] /\ w[at + k] = text[s + (at + k)] /\ q[k] = text[i + k - 1]
      BY <1>3, <1>4, <1>5, <2>1
    <3>. QED
      BY <2>1, <3>1
  <2>. QED
    BY <2>2
<1>7. u = q
  <2>1. u = [k \in 1..n |-> u[k]] /\ q = [k \in 1..n |-> q[k]]
    <3>. HIDE DEF u, n
    <3>. QED
      BY <1>3, <1>5
  <2>. HIDE DEF u, n
  <2>. QED
    BY <1>6, <2>1
<1>8. at \in 0..(Len(w) - Len(q))
  <2>. HIDE DEF n, m, at
  <2>. QED
    BY <1>2, <1>3, <1>4
<1>9. SubSeq(w, at + 1, at + Len(q)) = q
  BY <1>3, <1>7
<1>. HIDE DEF at, n, m
<1>10. Holds(w, q)
  BY <1>8, <1>9 DEF Holds
<1>. QED
  BY <1>3, <1>4, <1>10 DEF q

\* What sanitising does to a text it does to each passage of it.
LEMMA SanitizedHolds ==
    ASSUME NEW w \in Seq(Tokens), NEW q \in Seq(Tokens), Holds(w, q)
    PROVE  Holds(Sanitize(w), Sanitize(q))
<1>1. PICK at \in 0..(Len(w) - Len(q)) : SubSeq(w, at + 1, at + Len(q)) = q
  BY DEF Holds
<1>. DEFINE n == Len(q)
            m == Len(w)
            sw == Sanitize(w)
            sq == Sanitize(q)
            u == SubSeq(sw, at + 1, at + n)
<1>2. n \in Nat /\ m \in Nat /\ at \in Nat /\ at + n <= m /\ DOMAIN w = 1..m /\ DOMAIN q = 1..n
  BY <1>1
<1>3. ASSUME NEW t \in Seq(Tokens)
      PROVE  /\ Sanitize(t) \in Seq(Tokens) /\ Len(Sanitize(t)) = Len(t)
             /\ \A k \in 1..Len(t) : Sanitize(t)[k] = Clean[t[k]]
  <2>1. DOMAIN t = 1..Len(t) /\ Len(t) \in Nat /\ \A k \in 1..Len(t) : Clean[t[k]] \in Tokens
    BY ChunkingAssumption
  <2>2. Sanitize(t) \in [1..Len(t) -> Tokens]
    BY <2>1 DEF Sanitize
  <2>3. \A k \in 1..Len(t) : Sanitize(t)[k] = Clean[t[k]]
    BY <2>1 DEF Sanitize
  <2>4. Sanitize(t) \in Seq(Tokens) /\ Len(Sanitize(t)) = Len(t)
    BY <2>1, <2>2, OfLength
  <2>. QED
    BY <2>3, <2>4
<1>4. sw \in Seq(Tokens) /\ Len(sw) = m /\ \A k \in 1..m : sw[k] = Clean[w[k]]
  BY <1>3
<1>5. sq \in Seq(Tokens) /\ Len(sq) = n /\ \A k \in 1..n : sq[k] = Clean[q[k]]
  BY <1>3
<1>6. \A k \in 1..n : at + k \in 1..m /\ q[k] = w[at + k]
  <2>1. \A k \in 1..n : at + k \in 1..m
    <3>. HIDE DEF n, m
    <3>. QED
      BY <1>2
  <2>2. \A k \in 1..n : SubSeq(w, at + 1, at + n)[k] = w[at + k]
    <3>. HIDE DEF n
    <3>. QED
      BY <1>2
  <2>. QED
    BY <1>1, <2>1, <2>2
<1>. HIDE DEF sw, sq
<1>7. u \in Seq(Tokens) /\ Len(u) = n /\ \A k \in 1..n : u[k] = sw[at + k]
  <2>. HIDE DEF n, m
  <2>. QED
    BY <1>2, <1>4
<1>8. u = sq
  <2>. HIDE DEF u, n, m
  <2>1. ASSUME NEW k \in 1..n PROVE u[k] = sq[k]
    <3>1. u[k] = sw[at + k] /\ at + k \in 1..m
      BY <1>6, <1>7
    <3>2. sw[at + k] = Clean[w[at + k]] /\ q[k] = w[at + k] /\ sq[k] = Clean[q[k]]
      BY <1>4, <1>5, <1>6, <3>1
    <3>. QED
      BY <3>1, <3>2
  <2>. QED
    BY <1>5, <1>7, <2>1
<1>9. at \in 0..(Len(sw) - Len(sq)) /\ SubSeq(sw, at + 1, at + Len(sq)) = sq
  <2>1. at \in 0..(Len(sw) - Len(sq))
    BY <1>1, <1>4, <1>5
  <2>. QED
    BY <1>5, <1>8, <2>1
<1>. HIDE DEF n, m
<1>. QED
  BY <1>9 DEF Holds, sw, sq

\* A quote of a section is in a window of it, one of whose children is no stub.
LEMMA QuoteInWindow ==
    ASSUME NEW section \in SectionType, NEW quote \in Quotes(section)
    PROVE  \E w \in ToSet(ChunkText(section.text, ParentSize, ParentOverlap)) :
              /\ Holds(Sanitize(w), quote)
              /\ \E c \in ToSet(Children(w)) : ~IsStubText(c, section.title)
<1>. DEFINE text == section.text
            windows == ToSet(ChunkText(text, ParentSize, ParentOverlap))
            hollow == {w \in windows : \A c \in ToSet(Children(w)) :
                                          IsStubText(c, section.title)}
            holding(q) == {w \in windows : Holds(w, q)}
<1>1. text \in Seq(Tokens) /\ text # <<>>
  BY DEF SectionType
<1>2. PICK q \in Passages(text) : /\ quote = Sanitize(q)
                                  /\ holding(q) = {} \/ ~(holding(q) \subseteq hollow)
  BY DEF Quotes
<1>3. PICK i \in DOMAIN text : \E j \in i..Min({i + ParentOverlap - 1, Len(text)}) :
                                  q = SubSeq(text, i, j)
  BY <1>2 DEF Passages
<1>4. PICK j \in i..Min({i + ParentOverlap - 1, Len(text)}) : q = SubSeq(text, i, j)
  BY <1>3
<1>. HIDE DEF text
<1>5. i \in 1..Len(text) /\ j \in i..Len(text) /\ j < i + ParentOverlap
  <2>. DEFINE ends == {i + ParentOverlap - 1, Len(text)}
              N == Len(text)
  <2>1. N \in Nat /\ i \in 1..N /\ ParentOverlap \in Nat
    BY <1>1, ChunkingAssumption
  <2>2. ends \in SUBSET Nat /\ ends # {} /\ N \in ends /\ i + ParentOverlap - 1 \in ends
    BY <2>1
  <2>. HIDE DEF ends
  <2>3. Min(ends) \in Nat /\ Min(ends) <= N /\ Min(ends) <= i + ParentOverlap - 1
    BY <2>2, LeastIsMin
  <2>4. j \in i..Min(ends)
    BY DEF ends
  <2>. HIDE DEF N
  <2>5. i \in 1..N /\ j \in i..N /\ j < i + ParentOverlap
    BY <2>1, <2>3, <2>4
  <2>. QED
    BY <2>5 DEF N
<1>6. \E w \in windows : Spans(w, text, i, j)
  <2>1. ParentSize \in Nat /\ ParentOverlap \in Nat /\ ParentOverlap < ParentSize /\ ParentSize > 1
    BY ChunkingAssumption
  <2>. QED
    BY <1>1, <1>5, <2>1, PassagesAreInWindows
<1>7. q \in Seq(Tokens) /\ holding(q) # {}
  BY <1>1, <1>4, <1>5, <1>6, SpanHolds
<1>8. PICK w \in windows : Holds(w, q) /\ w \notin hollow
  BY <1>2, <1>7
<1>9. w \in Seq(Tokens)
  <2>. DEFINE chunks == ChunkText(text, ParentSize, ParentOverlap)
              fit == Fitting(ParentSize) \cap Fitting(Measure(text))
  <2>1. chunks \in Seq(fit)
    BY <1>1, ChunksFit, ChunkingAssumption
  <2>. HIDE DEF chunks, fit
  <2>2. w \in ToSet(chunks)
    BY <1>8 DEF chunks
  <2>3. w \in fit
    BY <2>1, <2>2 DEF ToSet
  <2>. QED
    BY <2>3 DEF fit, Fitting
<1>10. Holds(Sanitize(w), quote)
  BY <1>2, <1>7, <1>8, <1>9, SanitizedHolds
<1>. QED
  BY <1>8, <1>10 DEF text

\* What a part holds the whole holds.
LEMMA PartHolds ==
    ASSUME NEW A, NEW T, T = Seq(A), NEW seqs \in Seq(T), NEW i \in 1..Len(seqs),
           NEW x \in ToSet(seqs[i])
    PROVE  x \in ToSet(FlattenSeq(seqs))
<1>1. seqs[i] \in Seq(A)
  OBVIOUS
<1>2. PICK a \in Seq(A), b \in Seq(A) : FlattenSeq(seqs) = (a \o seqs[i]) \o b
  BY FlattenPart
<1>. DEFINE part == seqs[i]
<1>. HIDE DEF part
<1>3. part \in Seq(A) /\ x \in ToSet(part)
  BY <1>1 DEF part
<1>4. a \o part \in Seq(A) /\ ToSet(a \o part) = ToSet(a) \cup ToSet(part)
  BY <1>3, ConcatHolds
<1>. DEFINE front == a \o part
<1>. HIDE DEF front
<1>5. front \in Seq(A) /\ x \in ToSet(front)
  BY <1>3, <1>4 DEF front
<1>6. ToSet(front \o b) = ToSet(front) \cup ToSet(b)
  BY <1>5, ConcatHolds
<1>. QED
  BY <1>2, <1>5, <1>6 DEF part, front

\* Each window of a section is a parent (parent_child_units).
LEMMA WindowsAreParents ==
    ASSUME NEW blocks \in Seq(BlockType), NEW s \in ToSet(Sections(blocks)),
           NEW text \in ToSet(ChunkText(s.text, ParentSize, ParentOverlap))
    PROVE  [text |-> text, title |-> s.title] \in ToSet(Parents(blocks))
<1>. DEFINE secs == Sections(blocks)
            windows(sec) == ChunkText(sec.text, ParentSize, ParentOverlap)
            part(n) == [w \in DOMAIN windows(secs[n]) |->
                           [text |-> windows(secs[n])[w], title |-> secs[n].title]]
            parts == [n \in DOMAIN secs |-> part(n)]
            T == Seq(ParentType)
            N == Len(secs)
<1>1. secs \in Seq(SectionType)
  BY SectionTypes
<1>2. N \in Nat /\ DOMAIN secs = 1..N /\ \A n \in 1..N : secs[n] \in SectionType
  <2>. HIDE DEF secs
  <2>. QED
    BY <1>1
<1>3. ASSUME NEW n \in 1..N
      PROVE  part(n) \in T /\ DOMAIN part(n) = DOMAIN windows(secs[n])
  <2>. DEFINE ws == windows(secs[n])
              fit == Fitting(ParentSize)
  <2>1. secs[n].text \in Seq(Tokens) /\ secs[n].title \in Seq(Tokens)
    BY <1>2 DEF SectionType
  <2>2. ws \in Seq(fit \cap Fitting(Measure(secs[n].text)))
    BY <2>1, ChunksFit, ChunkingAssumption
  <2>. HIDE DEF ws, fit
  <2>3. ws \in Seq(fit)
    BY <2>2, SeqMonotonic
  <2>4. DOMAIN ws = 1..Len(ws) /\ Len(ws) \in Nat /\ ws \in [1..Len(ws) -> fit]
    BY <2>3
  <2>5. [w \in DOMAIN ws |-> [text |-> ws[w], title |-> secs[n].title]]
            \in [1..Len(ws) -> ParentType]
    BY <2>1, <2>4 DEF ParentType, fit
  <2>. DEFINE made == [w \in DOMAIN ws |-> [text |-> ws[w], title |-> secs[n].title]]
  <2>. HIDE DEF made
  <2>6. made \in Seq(ParentType)
    BY <2>4, <2>5, OfLength DEF made
  <2>7. DOMAIN made = DOMAIN ws
    BY DEF made
  <2>. QED
    BY <2>6, <2>7 DEF ws, made
<1>4. parts \in Seq(T) /\ Len(parts) = N
  <2>. HIDE DEF part, T, secs
  <2>1. parts \in [1..N -> T]
    BY <1>2, <1>3
  <2>. HIDE DEF parts, N
  <2>. QED
    BY <1>2, <2>1, OfLength
<1>5. PICK n \in 1..N : s = secs[n]
  <2>. HIDE DEF secs
  <2>1. s \in ToSet(secs)
    BY DEF secs
  <2>. QED
    BY <1>2, <2>1 DEF ToSet
<1>6. PICK w \in DOMAIN windows(secs[n]) : text = windows(secs[n])[w]
  <2>1. text \in ToSet(windows(secs[n]))
    BY <1>5
  <2>. HIDE DEF windows, secs
  <2>. QED
    BY <2>1 DEF ToSet
<1>7. [text |-> text, title |-> s.title] \in ToSet(part(n))
  <2>1. part(n)[w] = [text |-> text, title |-> s.title]
    BY <1>5, <1>6
  <2>2. w \in DOMAIN part(n)
    BY <1>3, <1>6
  <2>. HIDE DEF part
  <2>. QED
    BY <2>1, <2>2 DEF ToSet
<1>8. parts[n] = part(n) /\ n \in 1..Len(parts)
  <2>1. parts[n] = part(n)
    BY <1>2
  <2>. QED
    BY <1>4, <2>1
<1>9. Parents(blocks) = FlattenSeq(parts)
  BY DEF Parents
<1>. HIDE DEF parts, part, T, windows, secs, N
<1>10. [text |-> text, title |-> s.title] \in ToSet(FlattenSeq(parts))
  BY <1>4, <1>7, <1>8, PartHolds DEF T
<1>. QED
  BY <1>9, <1>10

\* The units of these parents.
UnitsUnder(parents) ==
    {u \in UnitType : u.parent \in DOMAIN parents /\ u.parentText = parents[u.parent].text}

\* Each child of a parent is a unit, and each unit says its parent's text.
LEMMA ChildrenAreUnits ==
    ASSUME NEW blocks \in Seq(BlockType)
    PROVE  /\ Units(blocks) \in Seq(UnitsUnder(Parents(blocks)))
           /\ \A p \in DOMAIN Parents(blocks) : \A c \in ToSet(Children(Parents(blocks)[p].text)) :
                 [parent |-> p, parentText |-> Parents(blocks)[p].text,
                  childText |-> c, title |-> Parents(blocks)[p].title] \in ToSet(Units(blocks))
<1>. DEFINE parents == Parents(blocks)
            part(p) == LET children == Children(parents[p].text)
                       IN [c \in DOMAIN children |->
                              [parent |-> p, parentText |-> parents[p].text,
                               childText |-> children[c], title |-> parents[p].title]]
            parts == [p \in DOMAIN parents |-> part(p)]
            U == UnitsUnder(parents)
            T == Seq(U)
            N == Len(parents)
<1>1. parents \in Seq(ParentType)
  BY ParentTypes
<1>. HIDE DEF parents
<1>2. DOMAIN parents = 1..N /\ N \in Nat /\ \A p \in 1..N : parents[p] \in ParentType
  BY <1>1
<1>3. ASSUME NEW p \in 1..N
      PROVE  part(p) \in T /\ DOMAIN part(p) = DOMAIN Children(parents[p].text)
  <2>. DEFINE children == Children(parents[p].text)
              fit == Fitting(ParentSize)
  <2>1. p \in Nat /\ parents[p].text \in fit /\ parents[p].title \in Seq(Tokens)
    BY <1>2 DEF ParentType
  <2>2. children \in Seq(fit)
    BY <2>1, ChildTypes
  <2>. HIDE DEF children, fit
  <2>3. DOMAIN children = 1..Len(children) /\ Len(children) \in Nat
        /\ children \in [1..Len(children) -> fit]
    BY <2>2
  <2>. DEFINE piece == [c \in DOMAIN children |->
                           [parent |-> p, parentText |-> parents[p].text,
                            childText |-> children[c], title |-> parents[p].title]]
  <2>4. piece \in [1..Len(children) -> U]
    BY <1>2, <2>1, <2>3 DEF UnitType, UnitsUnder, fit
  <2>5. DOMAIN piece = DOMAIN children
    OBVIOUS
  <2>. HIDE DEF piece, U
  <2>6. piece \in Seq(U)
    BY <2>3, <2>4, OfLength
  <2>. QED
    BY <2>5, <2>6 DEF piece, children
<1>4. parts \in Seq(T) /\ Len(parts) = N
  <2>. HIDE DEF part, T
  <2>1. parts \in [1..N -> T]
    BY <1>2, <1>3
  <2>. HIDE DEF parts, N
  <2>. QED
    BY <1>2, <2>1, OfLength
<1>5. Units(blocks) = FlattenSeq(parts)
  BY DEF Units, parents
<1>6. FlattenSeq(parts) \in T
  <2>. HIDE DEF parts, U
  <2>. QED
    BY <1>4, FlattenTypes
<1>7. ASSUME NEW p \in 1..N, NEW c \in ToSet(Children(parents[p].text))
      PROVE  [parent |-> p, parentText |-> parents[p].text,
              childText |-> c, title |-> parents[p].title] \in ToSet(FlattenSeq(parts))
  <2>. DEFINE unit == [parent |-> p, parentText |-> parents[p].text,
                       childText |-> c, title |-> parents[p].title]
  <2>1. PICK k \in DOMAIN Children(parents[p].text) : c = Children(parents[p].text)[k]
    BY <1>7 DEF ToSet
  <2>2. part(p)[k] = unit
    BY <2>1
  <2>3. k \in DOMAIN part(p)
    BY <1>3, <2>1
  <2>4. parts[p] = part(p) /\ p \in 1..Len(parts)
    <3>1. parts[p] = part(p)
      BY <1>2
    <3>. QED
      BY <1>4, <3>1
  <2>. HIDE DEF part, parts, U, N, unit
  <2>5. unit \in ToSet(parts[p])
    BY <2>2, <2>3, <2>4 DEF ToSet
  <2>. HIDE DEF T
  <2>6. unit \in ToSet(FlattenSeq(parts))
    BY <1>4, <2>4, <2>5, PartHolds DEF T
  <2>. QED
    BY <2>6 DEF unit
<1>. HIDE DEF parts
<1>. QED
  BY <1>2, <1>5, <1>6, <1>7 DEF parents

\* A child that is kept brings its parent's text, as itself or as the context
\* that is emitted with the first of its siblings (page_to_nodes).
LEMMA KeptSaysItsParent ==
    ASSUME NEW page, NEW parents, NEW units \in Seq(UnitsUnder(parents)), NEW u \in Kept(units)
    PROVE  \E n \in ToSet(PageNodes(page, units)) : n.text = units[u].parentText
<1>. DEFINE node(key, text) == [page |-> page.id, key |-> key, text |-> text]
            emitted(v) ==
                IF v \notin Kept(units) THEN <<>>
                ELSE (IF EmitsParent(units, v)
                      THEN <<node(ParentKey(units, v), units[v].parentText)>>
                      ELSE <<>>)
                     \o <<node(ChildKey(units, v), units[v].childText)>>
            parts == [v \in DOMAIN units |-> emitted(v)]
            X == NodeType(page.id)
            T == Seq(X)
            N == Len(units)
            parent(v) == node(ParentKey(units, v), units[v].parentText)
            child(v) == node(ChildKey(units, v), units[v].childText)
<1>1. /\ DOMAIN units = 1..N /\ N \in Nat
      /\ \A v \in 1..N : units[v] \in UnitType /\ units[v].parentText = parents[units[v].parent].text
  <2>1. DOMAIN units = 1..N /\ N \in Nat /\ \A v \in 1..N : units[v] \in UnitsUnder(parents)
    OBVIOUS
  <2>. QED
    BY <2>1 DEF UnitsUnder
<1>2. ASSUME NEW v \in 1..N
      PROVE  /\ emitted(v) \in T
             /\ v \in Kept(units) => child(v) \in ToSet(emitted(v))
             /\ v \in Kept(units) /\ EmitsParent(units, v) => parent(v) \in ToSet(emitted(v))
  <2>1. child(v) \in X /\ parent(v) \in X
    <3>1. v \in Nat /\ units[v] \in UnitType
      BY <1>1
    <3>2. /\ units[v].parent \in Nat /\ units[v].parentText \in Fitting(ParentSize)
          /\ units[v].childText \in Fitting(ParentSize)
      BY <3>1 DEF UnitType
    <3>. QED
      BY <3>1, <3>2 DEF NodeType, ParentKey, ChildKey
  <2>2. \/ v \notin Kept(units) /\ emitted(v) = <<>>
        \/ v \in Kept(units) /\ ~EmitsParent(units, v) /\ emitted(v) = <<>> \o <<child(v)>>
        \/ v \in Kept(units) /\ EmitsParent(units, v) /\ emitted(v) = <<parent(v)>> \o <<child(v)>>
    OBVIOUS
  <2>. HIDE DEF child, parent, emitted, X
  <2>3. <<>> \o <<child(v)>> = <<child(v)>>
    BY <2>1
  <2>4. ASSUME NEW x \in X PROVE <<x>> \in Seq(X) /\ ToSet(<<x>>) = {x}
    BY DEF ToSet
  <2>5. /\ <<parent(v)>> \o <<child(v)>> \in Seq(X)
        /\ ToSet(<<parent(v)>> \o <<child(v)>>) = ToSet(<<parent(v)>>) \cup ToSet(<<child(v)>>)
    <3>. DEFINE a == <<parent(v)>>
                b == <<child(v)>>
    <3>1. a \in Seq(X) /\ b \in Seq(X)
      BY <2>1, <2>4
    <3>. HIDE DEF a, b
    <3>2. a \o b \in Seq(X) /\ ToSet(a \o b) = ToSet(a) \cup ToSet(b)
      BY <3>1, ConcatHolds
    <3>. QED
      BY <3>2 DEF a, b
  <2>6. <<>> \in Seq(X)
    OBVIOUS
  <2>. QED
    BY <2>1, <2>2, <2>3, <2>4, <2>5, <2>6
<1>3. parts \in Seq(T) /\ Len(parts) = N /\ \A v \in 1..N : parts[v] = emitted(v)
  <2>. HIDE DEF emitted, T
  <2>1. parts \in [1..N -> T] /\ \A v \in 1..N : parts[v] = emitted(v)
    BY <1>1, <1>2
  <2>. HIDE DEF parts, N
  <2>. QED
    BY <1>1, <2>1, OfLength
<1>4. PageNodes(page, units) = FlattenSeq(parts)
  BY DEF PageNodes
<1>5. ASSUME NEW v \in 1..N, NEW x \in ToSet(emitted(v)) PROVE x \in ToSet(PageNodes(page, units))
  <2>. HIDE DEF parts, emitted, T, X
  <2>1. x \in ToSet(parts[v]) /\ v \in 1..Len(parts)
    BY <1>3, <1>5
  <2>. QED
    BY <1>3, <1>4, <2>1, PartHolds DEF T
<1>6. u \in 1..N
  BY <1>1 DEF Kept
<1>7. CASE ~AddsContext(units[u])
  <2>1. child(u).text = units[u].parentText
    BY <1>7 DEF AddsContext
  <2>. HIDE DEF emitted, child
  <2>. QED
    BY <1>2, <1>5, <1>6, <2>1
<1>8. CASE AddsContext(units[u])
  <2>. DEFINE S == {v \in 1..N : v \in Kept(units) /\ units[v].parent = units[u].parent
                                  /\ AddsContext(units[v])}
  <2>1. S \in SUBSET Nat /\ u \in S
    BY <1>6, <1>8
  <2>. HIDE DEF S
  <2>2. PICK v \in S : \A m \in S : v <= m
    BY <2>1, LeastNat
  <2>3. v \in 1..N /\ v \in Kept(units) /\ units[v].parent = units[u].parent /\ AddsContext(units[v])
    BY <2>2 DEF S
  <2>4. EmitsParent(units, v)
    <3>1. ASSUME NEW m \in Kept(units), m < v, units[m].parent = units[v].parent
          PROVE  ~AddsContext(units[m])
      <4>1. m \in 1..N
        BY <1>1 DEF Kept
      <4>2. ~(v <= m)
        <5>. HIDE DEF N
        <5>. QED
          BY <1>1, <2>3, <3>1, <4>1
      <4>. QED
        BY <2>2, <2>3, <3>1, <4>1, <4>2 DEF S
    <3>. QED
      BY <2>3, <3>1 DEF EmitsParent
  <2>5. parent(v).text = units[u].parentText
    <3>1. parent(v).text = units[v].parentText
      OBVIOUS
    <3>. QED
      BY <1>1, <1>6, <2>3, <3>1
  <2>. HIDE DEF emitted, parent
  <2>. QED
    BY <1>2, <1>5, <2>3, <2>4, <2>5
<1>. QED
  BY <1>7, <1>8

\* What can be quoted of a page is in one of its nodes, as the embedder gets it.
LEMMA QuotesAreInNodes ==
    ASSUME NEW page \in Pages, NEW quote \in QuotesOf[page]
    PROVE  \E n \in ToSet(NodesOf[page]) : Holds(TextDigest(n), quote)
<1>1. page.blocks \in Seq(BlockType)
  <2>1. PICK pages \in PageLists : page \in ToSet(pages)
    BY DEF Pages
  <2>2. PICK i \in DOMAIN pages : page = pages[i]
    BY <2>1 DEF ToSet
  <2>. QED
    BY <2>2, PageIndexAssumption DEF BlockType
<1>. DEFINE blocks == page.blocks
            parents == Parents(blocks)
            units == Units(blocks)
<1>2. NodesOf[page] = PageNodes(page, units)
  BY DEF NodesOf, UnitsOf
<1>3. PICK s \in ToSet(Sections(blocks)) : quote \in Quotes(s)
  BY DEF QuotesOf
<1>. HIDE DEF blocks
<1>4. blocks \in Seq(BlockType)
  BY <1>1 DEF blocks
<1>5. s \in SectionType
  <2>1. Sections(blocks) \in Seq(SectionType)
    BY <1>4, SectionTypes
  <2>. QED
    BY <2>1 DEF ToSet
<1>6. PICK w \in ToSet(ChunkText(s.text, ParentSize, ParentOverlap)) :
         /\ Holds(Sanitize(w), quote)
         /\ \E c \in ToSet(Children(w)) : ~IsStubText(c, s.title)
  BY <1>3, <1>5, QuoteInWindow
<1>7. PICK c \in ToSet(Children(w)) : ~IsStubText(c, s.title)
  BY <1>6
<1>8. [text |-> w, title |-> s.title] \in ToSet(parents)
  BY <1>4, WindowsAreParents
<1>9. PICK p \in DOMAIN parents : parents[p] = [text |-> w, title |-> s.title]
  BY <1>8 DEF ToSet
<1>. DEFINE unit == [parent |-> p, parentText |-> parents[p].text,
                     childText |-> c, title |-> parents[p].title]
<1>10. parents[p].text = w /\ parents[p].title = s.title
  BY <1>9
<1>11. units \in Seq(UnitsUnder(parents)) /\ unit \in ToSet(units)
  BY <1>4, <1>7, <1>10, ChildrenAreUnits
<1>12. PICK u \in DOMAIN units : units[u] = unit
  BY <1>11 DEF ToSet
<1>13. units[u].parentText = w /\ units[u].childText = c /\ units[u].title = s.title
  BY <1>10, <1>12
<1>. HIDE DEF parents, units, unit
<1>14. u \in Kept(units)
  BY <1>7, <1>12, <1>13 DEF Kept
<1>15. PICK n \in ToSet(PageNodes(page, units)) : n.text = units[u].parentText
  BY <1>11, <1>14, KeptSaysItsParent
<1>16. TextDigest(n) = Sanitize(w)
  BY <1>13, <1>15 DEF TextDigest
<1>. QED
  BY <1>2, <1>6, <1>15, <1>16

-----------------------------------------------------------------------------
(* What was read is held: by a point of the run, or pending.                  *)

Held(digest) ==
    \/ \E p \in RunHolds(points) : p.text = digest
    \/ \E n \in ToSet(job.pending) : TextDigest(n) = digest

\* A text that is owned is held, so a node that was dropped as a repeat is too.
OwnedIsHeld == Active => \A d \in DOMAIN job.owners : Held(d)

ReadIsHeld ==
    Active \/ job.state = "complete" =>
    \A i \in 1..job.at : Verdict(job.pages[i]) = "indexed" =>
    \A n \in ToSet(NodesOf[job.pages[i]]) : Held(TextDigest(n))

\* An attempt has read nothing before it has emptied the collection, and all,
\* with nothing pending, when it completes.
EndsMeet ==
    /\ job.pc = "delete" => job.at = 0 /\ DOMAIN job.owners = {}
    /\ job.state = "complete" => job.at = Len(job.pages) /\ job.pending = <<>>

HeldInv == OwnedIsHeld /\ ReadIsHeld /\ EndsMeet

\* Nothing is read at the start ...
LEMMA HeldStarts == Init => HeldInv
<1>. SUFFICES ASSUME Init PROVE HeldInv
  OBVIOUS
<1>1. job.pc = "idle" /\ job.state = "pending"
  BY DEF Init, NoJob, NewJob
<1>. QED
  BY <1>1 DEF HeldInv, OwnedIsHeld, ReadIsHeld, EndsMeet, Active

\* ... nor by an attempt that begins or is given up.
LEMMA NothingRead ==
    ASSUME job'.pc \in {"idle", "delete"}, job'.state # "complete",
           job'.at = 0, job'.owners = <<>>
    PROVE  HeldInv'
<1>1. DOMAIN <<>> = {}
  OBVIOUS
<1>. QED
  BY <1>1 DEF HeldInv, OwnedIsHeld, ReadIsHeld, EndsMeet, Active

\* A step that reads no page and touches no point keeps what is held, and one that
\* ends the attempt short of its end promises nothing.
LEMMA HeldStands ==
    ASSUME HeldInv,
           job'.pending = job.pending, job'.owners = job.owners, job'.at = job.at,
           job'.pages = job.pages, job'.run = job.run, job'.pc # "delete",
           \/ /\ points' = points /\ Active
              /\ job'.state = "complete" => /\ job.at = Len(job.pages)
                                            /\ job.pending = <<>>
           \/ job'.state # "complete" /\ ~Active'
    PROVE  HeldInv'
<1>1. CASE job'.state # "complete" /\ ~Active'
  BY <1>1 DEF HeldInv, OwnedIsHeld, ReadIsHeld, EndsMeet
<1>2. CASE /\ points' = points /\ Active
           /\ job'.state = "complete" => job.at = Len(job.pages) /\ job.pending = <<>>
  <2>1. \A d : Held(d) => Held(d)'
    BY <1>2 DEF Held, RunHolds
  <2>2. OwnedIsHeld'
    BY <1>2, <2>1 DEF HeldInv, OwnedIsHeld
  <2>3. ReadIsHeld'
    <3>1. \A n : TextDigest(n)' = TextDigest(n)
      BY DEF TextDigest
    <3>2. \A i \in 1..job.at : Verdict(job.pages[i]) = "indexed" =>
             \A n \in ToSet(NodesOf[job.pages[i]]) : Held(TextDigest(n))
      BY <1>2 DEF HeldInv, ReadIsHeld
    <3>. QED
      BY <2>1, <3>2 DEF ReadIsHeld
  <2>4. EndsMeet'
    BY <1>2 DEF EndsMeet
  <2>. QED
    BY <2>2, <2>3, <2>4 DEF HeldInv
<1>. QED
  BY <1>1, <1>2

\* The steps that hold what is held: FlushRest, Finish, the flush, and what ends
\* an attempt.
LEMMA QuietStepsHold ==
    ASSUME PageIndexInv, HeldInv,
           \/ FlushRest \/ Finish \/ ReadCache \/ EmbedBatch \/ WriteCache
           \/ CircuitOpens \/ Fails
    PROVE  HeldInv'
<1>1. DOMAIN job = {"pc", "state", "run", "pages", "at", "pending", "owners",
                    "counts", "quarantine"}
  BY DEF PageIndexInv, LocalTypes
<1>0. job.pc # "idle" => job.state = "running"
  BY DEF PageIndexInv, TypeOK
<1>2. CASE FlushRest
  <2>1. /\ job.pc = "pages" /\ points' = points /\ job' = [job EXCEPT !.pc = "cache"]
    BY <1>2 DEF FlushRest
  <2>. QED
    BY <1>0, <1>1, <2>1, HeldStands DEF Active
<1>3. CASE Finish
  <2>1. /\ job.pc = "pages" /\ points' = points
        /\ job' = [job EXCEPT !.pc = "idle", !.state = "complete"]
        /\ job.at = Len(job.pages) /\ job.pending = <<>>
    BY <1>3 DEF Finish
  <2>. QED
    BY <1>1, <2>1, HeldStands DEF Active
<1>4. CASE ReadCache \/ EmbedBatch \/ WriteCache
  <2>1. /\ job.pc \in {"cache", "embed", "put"} /\ points' = points
        /\ \E pc \in {"embed", "put", "upsert"} : job' = [job EXCEPT !.pc = pc]
    <3>1. CASE ReadCache
      BY <3>1 DEF ReadCache, Ask
    <3>2. CASE EmbedBatch
      <4>1. job.pc = "embed" /\ points' = points
            /\ job' = [job EXCEPT !.pc = IF Tail(flush.batches) = <<>> THEN "put" ELSE @]
        BY <3>2 DEF EmbedBatch
      <4>. QED
        BY <4>1
    <3>3. CASE WriteCache
      BY <3>3 DEF WriteCache
    <3>. QED
      BY <1>4, <3>1, <3>2, <3>3
  <2>2. PICK pc \in {"embed", "put", "upsert"} : job' = [job EXCEPT !.pc = pc]
    BY <2>1
  <2>. QED
    BY <1>0, <1>1, <2>1, <2>2, HeldStands DEF Active
<1>5. CASE CircuitOpens
  <2>1. PICK items : job' = [job EXCEPT !.pc = "idle", !.state = "failed", !.quarantine = items]
    BY <1>5 DEF CircuitOpens
  <2>. QED
    BY <1>1, <2>1, HeldStands DEF Active
<1>6. CASE Fails
  <2>1. job' = [job EXCEPT !.pc = "idle", !.state = "failed"]
    BY <1>6 DEF Fails
  <2>. QED
    BY <1>1, <2>1, HeldStands DEF Active
<1>. QED
  BY <1>2, <1>3, <1>4, <1>5, <1>6

\* An attempt begins, empties its collection, or is given up.
LEMMA FreshStepsHold ==
    ASSUME PageIndexInv, HeldInv, (\E run \in Runs : Begin(run)) \/ DeleteRunPoints \/ Abandon
    PROVE  HeldInv'
<1>1. CASE \E run \in Runs : Begin(run)
  <2>1. PICK run \in Runs, pages \in PageLists : job' = NewJob(run, pages)
    BY <1>1 DEF Begin
  <2>. QED
    BY <2>1, NothingRead DEF NewJob
<1>2. CASE Abandon
  <2>1. job' = [NewJob(job.run, <<>>) EXCEPT !.pc = "idle", !.state = "abandoned"]
    BY <1>2 DEF Abandon, NoJob
  <2>. QED
    BY <2>1, NothingRead DEF NewJob
<1>3. CASE DeleteRunPoints
  <2>1. job.pc = "delete" /\ job' = [job EXCEPT !.pc = "pages"]
    BY <1>3 DEF DeleteRunPoints
  <2>2. /\ job'.pc = "pages" /\ job'.state = "running" /\ job'.at = 0
        /\ DOMAIN job'.owners = {}
    BY <2>1 DEF PageIndexInv, LocalTypes, TypeOK, HeldInv, EndsMeet
  <2>. QED
    BY <2>2 DEF HeldInv, OwnedIsHeld, ReadIsHeld, EndsMeet
<1>. QED
  BY <1>1, <1>2, <1>3

\* What was pending is upserted, and no point of the run is replaced.
LEMMA UpsertStepHolds ==
    ASSUME PageIndexInv, CountInv, HeldInv, Upsert
    PROVE  HeldInv'
<1>1. job.pc = "upsert" /\ points' = Upserted(job.pending)
  BY DEF Upsert
<1>. DEFINE counted == [job.counts EXCEPT !.upserted = @ + Len(job.pending)]
<1>2. job' = [job EXCEPT !.pc = "pages", !.pending = <<>>, !.counts = counted]
  BY DEF Upsert
<1>. HIDE DEF counted
<1>3. /\ job'.pc = "pages" /\ job'.state = "running" /\ job'.run = job.run
      /\ job'.pages = job.pages /\ job'.at = job.at /\ job'.owners = job.owners
  BY <1>1, <1>2 DEF PageIndexInv, LocalTypes, TypeOK
<1>4. RunHolds(Upserted(job.pending))
          = RunHolds(points) \cup {Point(job.pending[i]) : i \in 1..Len(job.pending)}
  BY <1>1, UpsertHolds DEF CountInv
<1>5. ASSUME NEW d, Held(d) PROVE Held(d)'
  <2>1. RunHolds(points)' = RunHolds(Upserted(job.pending))
    BY <1>1, <1>3 DEF RunHolds
  <2>2. CASE \E p \in RunHolds(points) : p.text = d
    BY <1>4, <2>1, <2>2 DEF Held
  <2>3. CASE \E n \in ToSet(job.pending) : TextDigest(n) = d
    <3>1. PICK n \in ToSet(job.pending) : TextDigest(n) = d
      BY <2>3
    <3>2. Point(n).text = d
      BY <1>1, <3>1, PointOfNode
    <3>3. PICK i \in 1..Len(job.pending) : n = job.pending[i]
      <4>. DEFINE pending == job.pending
      <4>1. pending \in Seq(NodesAny) /\ n \in ToSet(pending)
        BY DEF PageIndexInv, LocalTypes
      <4>. HIDE DEF pending
      <4>2. \E i \in 1..Len(pending) : n = pending[i]
        BY <4>1 DEF ToSet
      <4>. QED
        BY <4>2 DEF pending
    <3>4. Point(n) \in RunHolds(points)'
      BY <1>4, <2>1, <3>3
    <3>. QED
      BY <3>2, <3>4 DEF Held
  <2>. QED
    BY <1>5, <2>2, <2>3 DEF Held
<1>6. Active /\ ~(job'.pc = "delete") /\ job'.state # "complete"
  BY <1>1, <1>3 DEF Active
<1>7. OwnedIsHeld'
  BY <1>3, <1>5, <1>6 DEF HeldInv, OwnedIsHeld
<1>8. ReadIsHeld'
  <2>1. \A i \in 1..job.at : Verdict(job.pages[i]) = "indexed" =>
           \A n \in ToSet(NodesOf[job.pages[i]]) : Held(TextDigest(n))
    BY <1>6 DEF HeldInv, ReadIsHeld
  <2>. QED
    BY <1>3, <1>5, <2>1 DEF ReadIsHeld
<1>9. EndsMeet'
  BY <1>3 DEF EndsMeet
<1>. QED
  BY <1>7, <1>8, <1>9 DEF HeldInv

\* A page that is skipped has no nodes to hold.
LEMMA SkipHolds ==
    ASSUME PageIndexInv, HeldInv, ReadPage, SkipPage(job.pages[job.at + 1])
    PROVE  HeldInv'
<1>. DEFINE page == job.pages[job.at + 1]
            d == Skip(job.counts, Verdict(page))
<1>1. /\ job.pc = "pages" /\ job.at < Len(job.pages) /\ points' = points
      /\ Verdict(page) # "indexed" /\ job' = [job EXCEPT !.at = @ + 1, !.counts = d]
  BY DEF ReadPage, SkipPage
<1>. HIDE DEF d
<1>2. /\ job'.pc = "pages" /\ job'.state = "running" /\ job'.run = job.run
      /\ job'.pages = job.pages /\ job'.at = job.at + 1 /\ job'.pending = job.pending
      /\ job'.owners = job.owners
  BY <1>1 DEF PageIndexInv, LocalTypes, TypeOK
<1>3. \A x : Held(x) => Held(x)'
  BY <1>1, <1>2 DEF Held, RunHolds
<1>4. OwnedIsHeld'
  BY <1>1, <1>2, <1>3 DEF HeldInv, OwnedIsHeld, Active
<1>5. ReadIsHeld'
  <2>1. \A i \in 1..job.at : Verdict(job.pages[i]) = "indexed" =>
           \A n \in ToSet(NodesOf[job.pages[i]]) : Held(TextDigest(n))
    BY <1>1 DEF HeldInv, ReadIsHeld, Active
  <2>2. \A i \in 1..(job.at + 1) : i \in 1..job.at \/ i = job.at + 1
    BY <1>1, NextPage
  <2>. QED
    BY <1>1, <1>2, <1>3, <2>1, <2>2 DEF ReadIsHeld
<1>6. EndsMeet'
  BY <1>2 DEF EndsMeet
<1>. QED
  BY <1>4, <1>5, <1>6 DEF HeldInv

\* Of a page that is indexed, a node is pending now, or its text is owned and so
\* held (_admit_page_nodes).
LEMMA IndexHolds ==
    ASSUME PageIndexInv, HeldInv, ReadPage, IndexPage(job.pages[job.at + 1])
    PROVE  HeldInv'
<1>. DEFINE page == job.pages[job.at + 1]
            nodes == NodesOf[page]
            admitted == Admitted(nodes, job.owners, page)
            after == OwnersAfter(admitted, job.owners, page)
            pending == job.pending \o admitted
            d == [job.counts EXCEPT !.seen = @ + 1,
                                    !.english = @ + 1,
                                    !.stub = @ + StubsSkipped(UnitsOf[page]),
                                    !.repeat = @ + (Len(nodes) - Len(admitted))]
            next == IF Len(pending) >= BatchSize THEN "cache" ELSE "pages"
<1>1. /\ job.pc = "pages" /\ job.at < Len(job.pages) /\ points' = points
      /\ job' = [job EXCEPT !.at = @ + 1, !.owners = after, !.counts = d,
                            !.pending = pending, !.pc = next]
  <2>1. job.pc = "pages" /\ job.at < Len(job.pages) /\ points' = points
    BY DEF ReadPage
  <2>2. IndexPage(page)
    OBVIOUS
  <2>3. job' = [job EXCEPT !.at = @ + 1, !.owners = after,
                           !.counts = d, !.pending = pending, !.pc = next]
    <3>. HIDE DEF page
    <3>. QED
      BY <2>2, Zenon DEF IndexPage
  <2>. QED
    BY <2>1, <2>3
<1>2. page \in Pages
  BY <1>1, NextPage
<1>3. next \in {"cache", "pages"}
  OBVIOUS
<1>4. /\ admitted \in Seq(NodeType(page.id)) /\ nodes \in Seq(NodeType(page.id))
      /\ \A x \in DOMAIN after :
            x \in DOMAIN job.owners \/ \E n \in ToSet(admitted) : x = TextDigest(n)
  <2>1. nodes \in Seq(NodeType(page.id))
    BY <1>2, NodesOfAPage
  <2>2. /\ admitted \in Seq(NodeType(page.id))
        /\ \A x \in DOMAIN after :
              \/ x \in DOMAIN job.owners /\ after[x] = job.owners[x]
              \/ after[x] = page.id /\ \E n \in ToSet(admitted) : x = TextDigest(n)
    BY <1>2, AdmittedNodes
  <2>. HIDE DEF nodes, admitted, after, page
  <2>. QED
    BY <2>1, <2>2
<1>5. \A n \in ToSet(nodes) : n \in ToSet(admitted) \/ TextDigest(n) \in DOMAIN job.owners
  <2>. DEFINE own == {n \in ToSet(nodes) : TextDigest(n) \in DOMAIN job.owners
                                              => job.owners[TextDigest(n)] = page.id}
              X == NodeType(page.id)
  <2>1. admitted = Filter(nodes, own)
    BY DEF Admitted
  <2>2. ToSet(admitted) = ToSet(nodes) \cap own
    <3>. HIDE DEF own, nodes, admitted, X
    <3>1. nodes \in Seq(X)
      BY <1>4 DEF X
    <3>. QED
      BY <2>1, <3>1, FilterTypes
  <2>3. \A n \in ToSet(nodes) : n \in own \/ TextDigest(n) \in DOMAIN job.owners
    OBVIOUS
  <2>. HIDE DEF own, admitted, nodes
  <2>. QED
    BY <2>2, <2>3
<1>. HIDE DEF d, after, next, admitted, nodes
<1>6. ToSet(pending) = ToSet(job.pending) \cup ToSet(admitted)
  <2>1. page.id \in PageIds
    BY <1>2 DEF PageIds
  <2>. DEFINE old == job.pending
              p == page
  <2>2. old \in Seq(NodesAny)
    BY DEF PageIndexInv, LocalTypes
  <2>. HIDE DEF old, p
  <2>3. NodeType(p.id) \subseteq NodesAny
    BY <2>1 DEF NodeType, NodesAny, Short, p
  <2>4. admitted \in Seq(NodesAny)
    BY <1>4, <2>3, SeqMonotonic DEF p
  <2>5. ToSet(old \o admitted) = ToSet(old) \cup ToSet(admitted)
    BY <2>2, <2>4, ConcatHolds
  <2>. QED
    BY <2>5 DEF old
<1>. HIDE DEF pending
<1>7. /\ job'.pc = next /\ job'.state = "running" /\ job'.run = job.run
      /\ job'.pages = job.pages /\ job'.at = job.at + 1 /\ job'.pending = pending
      /\ job'.owners = after
  BY <1>1 DEF PageIndexInv, LocalTypes, TypeOK
<1>8. \A x : Held(x) => Held(x)'
  BY <1>1, <1>6, <1>7 DEF Held, RunHolds
<1>9. \A n \in ToSet(admitted) : Held(TextDigest(n))'
  BY <1>6, <1>7 DEF Held
<1>10. \A x \in DOMAIN job.owners : Held(x)'
  BY <1>1, <1>8 DEF HeldInv, OwnedIsHeld, Active
<1>11. OwnedIsHeld'
  BY <1>4, <1>7, <1>9, <1>10 DEF OwnedIsHeld
<1>12. ReadIsHeld'
  <2>1. \A i \in 1..job.at : Verdict(job.pages[i]) = "indexed" =>
           \A n \in ToSet(NodesOf[job.pages[i]]) : Held(TextDigest(n))
    BY <1>1 DEF HeldInv, ReadIsHeld, Active
  <2>2. \A i \in 1..(job.at + 1) : i \in 1..job.at \/ i = job.at + 1
    BY <1>1, NextPage
  <2>3. \A n \in ToSet(NodesOf[page]) : Held(TextDigest(n))'
    BY <1>5, <1>9, <1>10 DEF nodes
  <2>. HIDE DEF page
  <2>4. ASSUME NEW i \in 1..(job.at + 1), Verdict(job.pages[i]) = "indexed",
               NEW n \in ToSet(NodesOf[job.pages[i]])
        PROVE  Held(TextDigest(n))'
    <3>1. CASE i \in 1..job.at
      BY <1>8, <2>1, <2>4, <3>1
    <3>2. CASE i = job.at + 1
      BY <2>3, <2>4, <3>2 DEF page
    <3>. QED
      BY <2>2, <3>1, <3>2
  <2>. QED
    BY <1>7, <2>4 DEF ReadIsHeld
<1>13. EndsMeet'
  BY <1>3, <1>7 DEF EndsMeet
<1>. QED
  BY <1>11, <1>12, <1>13 DEF HeldInv

\* Every step holds on to what was read.
LEMMA HeldStep == PageIndexInv /\ CountInv /\ HeldInv /\ [Next]_vars => HeldInv'
<1>. SUFFICES ASSUME PageIndexInv, CountInv, HeldInv, [Next]_vars PROVE HeldInv'
  OBVIOUS
<1>1. CASE ReadPage
  <2>1. CASE SkipPage(job.pages[job.at + 1])
    BY <1>1, <2>1, SkipHolds
  <2>2. CASE IndexPage(job.pages[job.at + 1])
    BY <1>1, <2>2, IndexHolds
  <2>. QED
    BY <1>1, <2>1, <2>2 DEF ReadPage
<1>2. CASE (\E run \in Runs : Begin(run)) \/ DeleteRunPoints \/ Abandon
  BY <1>2, FreshStepsHold
<1>3. CASE Upsert
  BY <1>3, UpsertStepHolds
<1>4. CASE FlushRest \/ Finish \/ ReadCache \/ EmbedBatch \/ WriteCache \/ CircuitOpens \/ Fails
  BY <1>4, QuietStepsHold
<1>5. CASE Deploy \/ UNCHANGED vars
  <2>1. job' = job /\ points' = points
    BY <1>5 DEF Deploy, vars
  <2>2. \A x : Held(x) => Held(x)'
    BY <2>1 DEF Held, RunHolds
  <2>3. OwnedIsHeld' /\ EndsMeet'
    BY <2>1, <2>2 DEF HeldInv, OwnedIsHeld, EndsMeet, Active
  <2>4. ReadIsHeld'
    BY <2>1, <2>2 DEF HeldInv, ReadIsHeld, Active
  <2>. QED
    BY <2>3, <2>4 DEF HeldInv
<1>. QED
  BY <1>1, <1>2, <1>3, <1>4, <1>5 DEF Next

\* A run that completes can be quoted: each short passage of its indexed pages is
\* whole in the text of a point, whatever windows, stubs, batches and repeats
\* cut or drop (chunk_text, page_to_nodes, _admit_page_nodes, embed_and_upsert).
THEOREM QuotesAlwaysSurvive == Spec => []QuotesSurvive
<1>1. PageIndexInv /\ HeldInv => QuotesSurvive
  <2>. SUFFICES ASSUME PageIndexInv, HeldInv, job.state = "complete",
                       NEW page \in ToSet(job.pages), Verdict(page) = "indexed",
                       NEW quote \in QuotesOf[page]
                PROVE  \E p \in RunPoints(job.run) : Holds(p.text, quote)
    BY DEF QuotesSurvive
  <2>1. job.pages \in PageLists \cup {<<>>} /\ job.at = Len(job.pages) /\ job.pending = <<>>
    BY DEF PageIndexInv, TypeOK, HeldInv, EndsMeet
  <2>2. PICK i \in 1..job.at : page = job.pages[i] /\ page \in Pages
    BY <2>1, PagesOfAList DEF ToSet
  <2>3. PICK n \in ToSet(NodesOf[page]) : Holds(TextDigest(n), quote)
    BY <2>2, QuotesAreInNodes
  <2>4. Held(TextDigest(n))
    BY <2>2, <2>3 DEF HeldInv, ReadIsHeld
  <2>5. PICK p \in RunHolds(points) : p.text = TextDigest(n)
    BY <2>1, <2>4, NothingInIt DEF Held
  <2>. QED
    BY <2>3, <2>5 DEF RunHolds, RunPoints
<1>. QED
  BY <1>1, StartKeeps, StepKeeps, CountStarts, CountStep, HeldStarts, HeldStep, PTL DEF Spec
=============================================================================
