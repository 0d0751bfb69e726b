------------------------- MODULE AssetContext_proofs -------------------------
(***************************************************************************)
(* What the asset points promise, for every catalogue, set of manifests and *)
(* number of requests: an answer holds nothing its manifest does not name,  *)
(* what was deleted leaves nothing and what was indexed is there, and the   *)
(* pieces of a text have places of their own.                               *)
(***************************************************************************)
EXTENDS AssetContext, Lists_proofs

\* Every point is of a revision, and so is every request that writes.
Known ==
    /\ \A id \in DOMAIN points : points[id] \in Payloads
    /\ task = [t \in Tasks |-> task[t]]
    /\ \A t \in Tasks : task[t].op \in {"index", "delete"} => task[t].rev \in Revisions
    /\ told = [k \in Keys |-> told[k]]

\* No request on the resource is under way.
Quiet(k) ==
    \A t \in Tasks : task[t].op \in {"index", "delete"} => KeyOf(task[t].rev) # k

\* What was deleted, or never indexed, has no point and is getting none.
GoneIsQuiet == \A k \in Keys : told[k] = Gone => Quiet(k)

IInv == Known /\ GoneIsQuiet /\ DeletedIsGone

-----------------------------------------------------------------------------
\* A deletion takes every point of its resource: a signed one whatever the text,
\* one under a manifest because there is only one text.
LEMMA DeletionIsWhole ==
    ASSUME Known, NEW r \in Revisions, NEW id \in DOMAIN points,
           KeyOf(points[id]) = KeyOf(r)
    PROVE  IF r.trusted THEN SameResource(points[id], r)
           ELSE SameEntry(points[id], EntryOf(r))
<1>1. PICK s \in Revisions : points[id] = EntryOf(s)
  BY DEF Known, Payloads
<1>2. s.owner = r.owner /\ s.version = r.version /\ s.resource = r.resource
  BY <1>1 DEF KeyOf, EntryOf
<1>3. CASE r.trusted
  BY <1>1, <1>2, <1>3 DEF SameResource, EntryOf
<1>4. CASE ~r.trusted
  <2>1. s.asset = r.asset /\ s.text = r.text /\ s.source = r.source
    BY <1>2, <1>4, VersionsAssumption
  <2>. QED
    BY <1>1, <1>2, <1>4, <2>1 DEF SameEntry, EntryOf
<1>. QED
  BY <1>3, <1>4

\* What an upsert leaves in the collection.
LEMMA UpsertKeeps ==
    ASSUME Known, NEW r \in Revisions, NEW ids, points' = Upserted(ids, r)
    PROVE  \A id \in DOMAIN points' :
              \/ points'[id] = EntryOf(r)
              \/ id \in DOMAIN points /\ points'[id] = points[id]
BY DEF Upserted

\* The key of a payload is that of its revision.
LEMMA KeyOfEntry == ASSUME NEW r PROVE KeyOf(EntryOf(r)) = KeyOf(r)
BY DEF KeyOf, EntryOf

\* Starting an operation keeps the invariant.
LEMMA BeginKeeps ==
    ASSUME IInv, NEW t \in Tasks, NEW r \in Revisions, NEW op \in {"index", "delete"},
           Begin(t, op, r), UNCHANGED points
    PROVE  IInv'
<1>1. KeyOf(r) \in Keys
  BY DEF Keys
<1>2. told' = [told EXCEPT ![KeyOf(r)] = Open]
      /\ task' = [task EXCEPT ![t] = [op |-> op, rev |-> r]]
  BY DEF Begin
<1>3. Open # Gone
  BY DEF Open, Gone
<1>4. Known'
  BY <1>2 DEF IInv, Known
<1>5. \A k \in Keys : told'[k] = Gone => k # KeyOf(r) /\ told[k] = Gone
  BY <1>1, <1>2, <1>3 DEF IInv, Known
<1>6. GoneIsQuiet'
  BY <1>2, <1>5 DEF IInv, Known, GoneIsQuiet, Quiet
<1>7. DeletedIsGone'
  BY <1>5 DEF IInv, DeletedIsGone
<1>. QED
  BY <1>4, <1>6, <1>7 DEF IInv

\* A request on r ends, and writes points of its own only.
LEMMA SettleKeeps ==
    ASSUME IInv, NEW t \in Tasks, task[t].op \in {"index", "delete"},
           NEW outcome, Settle(t, outcome),
           \A id \in DOMAIN points' :
              \/ points'[id] = EntryOf(task[t].rev) /\ outcome # Gone
              \/ id \in DOMAIN points /\ points'[id] = points[id],
           outcome = Gone => \A id \in DOMAIN points' : KeyOf(points'[id]) # KeyOf(task[t].rev)
    PROVE  IInv'
<1>. DEFINE r == task[t].rev
<1>1. r \in Revisions /\ KeyOf(r) \in Keys
  BY DEF IInv, Known, Keys
<1>2. /\ task' = [task EXCEPT ![t] = Idle]
      /\ told' = [told EXCEPT ![KeyOf(r)] = IF Crossed(t, KeyOf(r)) THEN Open ELSE outcome]
  BY DEF Settle
<1>3. Idle.op \notin {"index", "delete"} /\ Open # Gone
  BY DEF Idle, Open, Gone
<1>4. Known'
  <2>1. \A id \in DOMAIN points' : points'[id] \in Payloads
    BY <1>1 DEF IInv, Known, Payloads
  <2>. QED
    BY <1>2, <1>3, <2>1 DEF IInv, Known
<1>5. ASSUME NEW k \in Keys, told'[k] = Gone
      PROVE  Quiet(k)' /\ \A id \in DOMAIN points' : KeyOf(points'[id]) # k
  <2>1. CASE k = KeyOf(r)
    <3>1. ~Crossed(t, k) /\ outcome = Gone
      BY <1>1, <1>2, <1>3, <1>5, <2>1 DEF IInv, Known
    <3>. QED
      BY <1>2, <1>3, <2>1, <3>1 DEF Crossed, Quiet, IInv, Known
  <2>2. CASE k # KeyOf(r)
    <3>1. told[k] = Gone
      BY <1>2, <1>5, <2>2 DEF IInv, Known
    <3>2. Quiet(k) /\ \A id \in DOMAIN points : KeyOf(points[id]) # k
      BY <3>1 DEF IInv, GoneIsQuiet, DeletedIsGone
    <3>. QED
      BY <1>2, <1>3, <2>2, <3>2, KeyOfEntry DEF Quiet, IInv, Known
  <2>. QED
    BY <2>1, <2>2
<1>. QED
  BY <1>4, <1>5 DEF IInv, GoneIsQuiet, DeletedIsGone

\* So does indexing an asset.
LEMMA IndexKeeps ==
    ASSUME IInv, NEW t \in Tasks, IndexWrite(t) \/ IndexFails(t)
    PROVE  IInv'
<1>. DEFINE r == task[t].rev
<1>1. task[t].op = "index" /\ r \in Revisions
  BY DEF IndexWrite, IndexFails, IInv, Known
<1>2. PICK ids : points' = Upserted(ids, r)
  BY DEF IndexWrite, IndexFails
<1>3. Open # Gone /\ r.text # Gone
  BY <1>1, RequestsAssumption DEF Open, Gone, HasItsDigests
<1>4. PICK outcome : Settle(t, outcome) /\ outcome # Gone
  BY <1>3 DEF IndexWrite, IndexFails
<1>. QED
  BY <1>1, <1>2, <1>4, UpsertKeeps, SettleKeeps DEF IInv

\* So does deleting one.
LEMMA DeleteKeeps ==
    ASSUME IInv, NEW t \in Tasks, DeletePoints(t) \/ DeleteFails(t)
    PROVE  IInv'
<1>. DEFINE r == task[t].rev
<1>1. task[t].op = "delete" /\ r \in Revisions
  BY DEF DeletePoints, DeleteFails, IInv, Known
<1>2. CASE DeletePoints(t)
  <2>1. \A id \in DOMAIN points' : /\ id \in DOMAIN points /\ points'[id] = points[id]
                                   /\ ~IF r.trusted THEN SameResource(points[id], r)
                                       ELSE SameEntry(points[id], EntryOf(r))
    BY <1>2 DEF DeletePoints, Without
  <2>2. \A id \in DOMAIN points' : KeyOf(points'[id]) # KeyOf(r)
    BY <1>1, <2>1, DeletionIsWhole DEF IInv
  <2>3. Settle(t, Gone)
    BY <1>2 DEF DeletePoints
  <2>. QED
    BY <1>1, <2>1, <2>2, <2>3, SettleKeeps
<1>3. CASE DeleteFails(t)
  <2>1. Settle(t, Open) /\ Open # Gone /\ points' = points
    BY <1>3 DEF DeleteFails, Open, Gone
  <2>. QED
    BY <1>1, <2>1, SettleKeeps
<1>. QED
  BY <1>2, <1>3

\* The steps that ask: they write no point and settle nothing.
LEMMA AskKeeps ==
    ASSUME IInv, UNCHANGED <<points, told>>,
           \/ UNCHANGED task
           \/ \E t \in Tasks : \E x : /\ task' = [task EXCEPT ![t] = x]
                                       /\ x.op \notin {"index", "delete"}
    PROVE  IInv'
<1>1. CASE UNCHANGED task
  BY <1>1 DEF IInv, Known, GoneIsQuiet, Quiet, DeletedIsGone
<1>2. ASSUME NEW t \in Tasks, NEW x, task' = [task EXCEPT ![t] = x],
             x.op \notin {"index", "delete"}
      PROVE  IInv'
  BY <1>2 DEF IInv, Known, GoneIsQuiet, Quiet, DeletedIsGone
<1>. QED
  BY <1>1, <1>2

\* Every step keeps the invariant.
LEMMA StepKeeps == IInv /\ [Next]_vars => IInv'
<1>. SUFFICES ASSUME IInv, [Next]_vars PROVE IInv'
  OBVIOUS
<1>1. ASSUME NEW m \in Manifests, ExpireManifest(m)
      PROVE  IInv'
  BY <1>1, AskKeeps DEF ExpireManifest
<1>2. ASSUME NEW t \in Tasks, NEW r \in Revisions, IndexBegin(t, r) \/ DeleteBegin(t, r)
      PROVE  IInv'
  BY <1>2, BeginKeeps DEF IndexBegin, DeleteBegin
<1>3. ASSUME NEW t \in Tasks, IndexWrite(t) \/ IndexFails(t) PROVE IInv'
  BY <1>3, IndexKeeps
<1>4. ASSUME NEW t \in Tasks, DeletePoints(t) \/ DeleteFails(t) PROVE IInv'
  BY <1>4, DeleteKeeps
<1>5. ASSUME NEW t \in Tasks, NEW m \in Manifests, QueryBegin(t, m) PROVE IInv'
  <2>. DEFINE x == [op |-> "query", manifest |-> m]
  <2>1. task' = [task EXCEPT ![t] = x] /\ x.op = "query" /\ UNCHANGED <<points, told>>
    BY <1>5 DEF QueryBegin
  <2>. HIDE DEF x
  <2>. QED
    BY <2>1, AskKeeps
<1>6. ASSUME NEW t \in Tasks, NEW m \in Runtimes, RuntimeBegin(t, m) PROVE IInv'
  <2>. DEFINE x == [op |-> "runtime", manifest |-> m]
  <2>1. /\ task' = [task EXCEPT ![t] = x] \/ task' = task
        /\ x.op = "runtime" /\ UNCHANGED <<points, told>>
    BY <1>6 DEF RuntimeBegin
  <2>. HIDE DEF x
  <2>. QED
    BY <2>1, AskKeeps
<1>7. ASSUME NEW t \in Tasks, QueryAnswer(t) \/ RuntimeAnswer(t) PROVE IInv'
  <2>1. task' = [task EXCEPT ![t] = Idle] /\ Idle.op = "idle" /\ UNCHANGED <<points, told>>
    BY <1>7 DEF QueryAnswer, RuntimeAnswer, Idle
  <2>. QED
    BY <2>1, AskKeeps
<1>8. CASE UNCHANGED vars
  BY <1>8, AskKeeps DEF vars
<1>. QED
  BY <1>1, <1>2, <1>3, <1>4, <1>5, <1>6, <1>7, <1>8 DEF Next

\* The initial states satisfy the invariant.
LEMMA InitKeeps == Init => IInv
<1>. SUFFICES ASSUME Init PROVE IInv
  OBVIOUS
<1>1. DOMAIN points = {}
  BY DEF Init
<1>2. \A t \in Tasks : task[t].op \notin {"index", "delete"}
  BY DEF Init, Idle
<1>3. task = [t \in Tasks |-> task[t]] /\ told = [k \in Keys |-> told[k]]
  BY DEF Init
<1>. QED
  BY <1>1, <1>2, <1>3 DEF IInv, Known, GoneIsQuiet, Quiet, DeletedIsGone

\* A resource whose deletion was answered, with no other request on it since, has
\* no point left and gets none, whatever was indexed, failed or asked besides
\* (delete, delete_trusted).
THEOREM DeletionHolds == Spec => []DeletedIsGone
<1>1. Init => IInv
  BY InitKeeps
<1>2. IInv => DeletedIsGone
  BY DEF IInv
<1>. QED
  BY <1>1, <1>2, StepKeeps, PTL DEF Spec

-----------------------------------------------------------------------------
\* An answer holds points of its manifest's entries only, or, of a runtime
\* envelope, of its owner and the versions and attachments it names
\* (search_assets, search_asset_versions).
THEOREM AnswersAreAuthorised == Spec => []AnswersStayInside
<1>1. Init => AnswersStayInside
  BY DEF Init, AnswersStayInside, NoAnswer
<1>2. AnswersStayInside /\ [Next]_vars => AnswersStayInside'
  <2>. SUFFICES ASSUME AnswersStayInside, [Next]_vars PROVE AnswersStayInside'
    OBVIOUS
  <2>1. CASE answer' = answer
    BY <2>1 DEF AnswersStayInside
  <2>2. CASE answer' = NoAnswer
    BY <2>2 DEF AnswersStayInside, NoAnswer
  <2>3. ASSUME NEW t \in Tasks, QueryAnswer(t)
        PROVE  AnswersStayInside'
    <3>. DEFINE m == task[t].manifest
    <3>1. PICK found \in Nearest({id \in DOMAIN points : MatchesEntry(points[id], m)}) :
             answer' = IF \A id \in found : InManifest(points[id], m)
                       THEN [kind |-> "query", manifest |-> m,
                             evidence |-> {<<id, points[id]>> : id \in found}]
                       ELSE [kind |-> "refused", manifest |-> m]
      BY <2>3 DEF QueryAnswer
    <3>2. \A id \in found : points[id] \in Entries(m)
      BY <3>1 DEF Nearest, MatchesEntry
    <3>3. CASE answer' = [kind |-> "refused", manifest |-> m]
      BY <3>3 DEF AnswersStayInside
    <3>4. CASE answer' = [kind |-> "query", manifest |-> m,
                          evidence |-> {<<id, points[id]>> : id \in found}]
      BY <3>2, <3>4 DEF AnswersStayInside
    <3>. QED
      BY <3>1, <3>3, <3>4
  <2>4. ASSUME NEW t \in Tasks, RuntimeAnswer(t)
        PROVE  AnswersStayInside'
    <3>. DEFINE m == task[t].manifest
    <3>1. PICK found \in Nearest({id \in DOMAIN points : MatchesAllowed(points[id], m)}) :
             answer' = [kind |-> "runtime", manifest |-> m,
                        evidence |-> {<<id, points[id]>> : id \in found}]
      BY <2>4 DEF RuntimeAnswer
    <3>2. ASSUME NEW id \in found
          PROVE  /\ points[id].owner = m.owner
                 /\ \E e \in Entries(m) :
                       /\ e.asset = points[id].asset
                       /\ points[id].version = IF e.kind = "knowledge" THEN e.version
                                               ELSE e.asset
      BY <3>1 DEF Nearest, MatchesAllowed, Allowed
    <3>. QED
      BY <3>1, <3>2 DEF AnswersStayInside
  <2>5. \/ UNCHANGED answer \/ answer' = NoAnswer
        \/ \E t \in Tasks : QueryAnswer(t) \/ RuntimeAnswer(t)
    BY DEF Next, vars, ExpireManifest, IndexBegin, DeleteBegin, Arrives, IndexWrite,
           IndexFails, DeletePoints, DeleteFails, Settle, QueryBegin, RuntimeBegin
  <2>. QED
    BY <2>1, <2>2, <2>3, <2>4, <2>5
<1>. QED
  BY <1>1, <1>2, PTL DEF Spec

-----------------------------------------------------------------------------
(* What was indexed is there.                                               *)

\* What a caller may expect is a text of the resource, no request on it is under
\* way, and every place of the text has a point of the resource.
ToldIsThere ==
    \A k \in Keys : told[k] \notin {Gone, Open} =>
        /\ \E s \in Revisions : KeyOf(s) = k /\ s.text = told[k]
        /\ Quiet(k)
        /\ \A id \in IdsOf(told[k]) : id \in DOMAIN points /\ KeyOf(points[id]) = k

\* The ids of a text are of that text alone.
LEMMA IdsAreOfTheText ==
    ASSUME NEW text, NEW id \in IdsOf(text)
    PROVE  id[1] = text
BY DEF IdsOf

\* Starting an operation opens what was told of its resource.
LEMMA BeginFound ==
    ASSUME IInv, ToldIsThere, NEW t \in Tasks, NEW r \in Revisions,
           NEW op \in {"index", "delete"}, Begin(t, op, r), UNCHANGED points
    PROVE  ToldIsThere'
<1>1. KeyOf(r) \in Keys
  BY DEF Keys
<1>2. told' = [told EXCEPT ![KeyOf(r)] = Open]
      /\ task' = [task EXCEPT ![t] = [op |-> op, rev |-> r]]
  BY DEF Begin
<1>3. ASSUME NEW k \in Keys, told'[k] \notin {Gone, Open}
      PROVE  k # KeyOf(r) /\ told'[k] = told[k]
  BY <1>1, <1>2, <1>3 DEF IInv, Known
<1>4. ASSUME NEW k \in Keys, told'[k] \notin {Gone, Open} PROVE Quiet(k)'
  BY <1>2, <1>3, <1>4 DEF IInv, Known, ToldIsThere, Quiet
<1>. QED
  BY <1>3, <1>4 DEF ToldIsThere

\* A request on r ends: it leaves the points of other resources alone, and what
\* its caller is told is there.
LEMMA SettleFound ==
    ASSUME IInv, ToldIsThere, NEW t \in Tasks, task[t].op \in {"index", "delete"},
           NEW outcome, Settle(t, outcome),
           \A id \in DOMAIN points : KeyOf(points[id]) # KeyOf(task[t].rev) =>
               \/ id \in DOMAIN points' /\ points'[id] = points[id]
               \/ id[1] = task[t].rev.text,
           \A r, s \in Revisions : r.text = s.text => KeyOf(r) = KeyOf(s),
           outcome \notin {Gone, Open} =>
               /\ outcome = task[t].rev.text
               /\ \A id \in IdsOf(outcome) : /\ id \in DOMAIN points'
                                             /\ KeyOf(points'[id]) = KeyOf(task[t].rev)
    PROVE  ToldIsThere'
<1>. DEFINE r == task[t].rev
<1>1. r \in Revisions /\ KeyOf(r) \in Keys
  BY DEF IInv, Known, Keys
<1>2. /\ task' = [task EXCEPT ![t] = Idle]
      /\ told' = [told EXCEPT ![KeyOf(r)] = IF Crossed(t, KeyOf(r)) THEN Open ELSE outcome]
  BY DEF Settle
<1>3. Idle.op \notin {"index", "delete"}
  BY DEF Idle
<1>4. ASSUME NEW k \in Keys, told'[k] \notin {Gone, Open}
      PROVE  /\ \E s \in Revisions : KeyOf(s) = k /\ s.text = told'[k]
             /\ Quiet(k)'
             /\ \A id \in IdsOf(told'[k]) : id \in DOMAIN points' /\ KeyOf(points'[id]) = k
  <2>1. CASE k = KeyOf(r)
    <3>1. ~Crossed(t, k) /\ told'[k] = outcome
      BY <1>1, <1>2, <1>4, <2>1 DEF IInv, Known
    <3>2. Quiet(k)'
      BY <1>2, <1>3, <2>1, <3>1 DEF Crossed, Quiet, IInv, Known
    <3>. QED
      BY <1>1, <1>4, <2>1, <3>1, <3>2
  <2>2. CASE k # KeyOf(r)
    <3>1. told'[k] = told[k]
      BY <1>2, <2>2 DEF IInv, Known
    <3>2. /\ \E s \in Revisions : KeyOf(s) = k /\ s.text = told[k]
          /\ Quiet(k)
          /\ \A id \in IdsOf(told[k]) : id \in DOMAIN points /\ KeyOf(points[id]) = k
      BY <1>4, <3>1 DEF ToldIsThere
    <3>3. told[k] # r.text
      BY <1>1, <2>2, <3>2
    <3>4. ASSUME NEW id \in IdsOf(told[k])
          PROVE  id \in DOMAIN points' /\ points'[id] = points[id]
      BY <2>2, <3>2, <3>3, <3>4, IdsAreOfTheText
    <3>5. Quiet(k)'
      BY <1>2, <1>3, <3>2 DEF Quiet, IInv, Known
    <3>. QED
      BY <3>1, <3>2, <3>4, <3>5
  <2>. QED
    BY <2>1, <2>2
<1>. QED
  BY <1>4 DEF ToldIsThere

\* Every step keeps what was told.
LEMMA FoundKeeps ==
    ASSUME \A r, s \in Revisions : r.text = s.text => KeyOf(r) = KeyOf(s),
           IInv, ToldIsThere, [Next]_vars
    PROVE  ToldIsThere'
<1>1. ASSUME UNCHANGED <<points, told>>,
             \A t \in Tasks : task'[t] = task[t] \/ task'[t].op \notin {"index", "delete"}
      PROVE  ToldIsThere'
  BY <1>1 DEF ToldIsThere, Quiet
<1>2. ASSUME NEW t \in Tasks, NEW r \in Revisions, IndexBegin(t, r) \/ DeleteBegin(t, r)
      PROVE  ToldIsThere'
  BY <1>2, BeginFound DEF IndexBegin, DeleteBegin
<1>3. ASSUME NEW t \in Tasks, IndexWrite(t) \/ IndexFails(t)
      PROVE  ToldIsThere'
  <2>. DEFINE r == task[t].rev
  <2>1. task[t].op = "index" /\ r \in Revisions
    BY <1>3 DEF IndexWrite, IndexFails, IInv, Known
  <2>2. PICK ids \in SUBSET IdsOf(r.text) :
            /\ points' = Upserted(ids, r)
            /\ \/ Settle(t, r.text) /\ ids = IdsOf(r.text)
               \/ Settle(t, Open)
    BY <1>3 DEF IndexWrite, IndexFails
  <2>3. \A id \in DOMAIN points : \/ id \in DOMAIN points' /\ points'[id] = points[id]
                                  \/ id[1] = r.text
    BY <2>2, IdsAreOfTheText DEF Upserted
  <2>4. \A id \in ids : id \in DOMAIN points' /\ points'[id] = EntryOf(r)
    BY <2>2 DEF Upserted
  <2>5. \A id \in ids : id \in DOMAIN points' /\ KeyOf(points'[id]) = KeyOf(r)
    BY <2>4, KeyOfEntry
  <2>6. PICK outcome : /\ Settle(t, outcome)
                       /\ outcome = Open \/ (outcome = r.text /\ ids = IdsOf(r.text))
    BY <2>2
  <2>. HIDE DEF r
  <2>7. outcome \notin {Gone, Open} =>
            /\ outcome = r.text
            /\ \A id \in IdsOf(outcome) : id \in DOMAIN points' /\ KeyOf(points'[id]) = KeyOf(r)
    BY <2>5, <2>6
  <2>. QED
    BY <2>1, <2>3, <2>6, <2>7, SettleFound DEF r
<1>4. ASSUME NEW t \in Tasks, DeletePoints(t) \/ DeleteFails(t)
      PROVE  ToldIsThere'
  <2>. DEFINE r == task[t].rev
  <2>1. task[t].op = "delete"
    BY <1>4 DEF DeletePoints, DeleteFails
  <2>2. Settle(t, Gone) \/ Settle(t, Open)
    BY <1>4 DEF DeletePoints, DeleteFails
  <2>3. ASSUME NEW id \in DOMAIN points, KeyOf(points[id]) # KeyOf(r)
        PROVE  id \in DOMAIN points' /\ points'[id] = points[id]
    <3>1. ~SameResource(points[id], r)
      BY <2>3 DEF SameResource, KeyOf
    <3>2. ~SameEntry(points[id], EntryOf(r))
      <4>1. PICK s \in Revisions : points[id] = EntryOf(s)
        BY DEF IInv, Known, Payloads
      <4>. QED
        BY <2>3, <4>1 DEF SameEntry, EntryOf, KeyOf
    <3>. QED
      BY <1>4, <3>1, <3>2 DEF DeletePoints, DeleteFails, Without
  <2>. QED
    BY <2>1, <2>2, <2>3, SettleFound
<1>5. ASSUME NEW m \in Manifests, ExpireManifest(m) PROVE ToldIsThere'
  BY <1>1, <1>5 DEF ExpireManifest
<1>6. ASSUME NEW t \in Tasks, NEW m, QueryBegin(t, m) \/ RuntimeBegin(t, m)
      PROVE  ToldIsThere'
  <2>1. \A u \in Tasks : task'[u] = task[u] \/ task'[u].op \in {"query", "runtime"}
    BY <1>6 DEF QueryBegin, RuntimeBegin, IInv, Known
  <2>. QED
    BY <1>1, <1>6, <2>1 DEF QueryBegin, RuntimeBegin
<1>7. ASSUME NEW t \in Tasks, QueryAnswer(t) \/ RuntimeAnswer(t) PROVE ToldIsThere'
  <2>1. \A u \in Tasks : task'[u] = task[u] \/ task'[u].op = "idle"
    BY <1>7 DEF QueryAnswer, RuntimeAnswer, IInv, Known, Idle
  <2>. QED
    BY <1>1, <1>7, <2>1 DEF QueryAnswer, RuntimeAnswer
<1>8. CASE UNCHANGED vars
  BY <1>1, <1>8 DEF vars
<1>. QED
  BY <1>2, <1>3, <1>4, <1>5, <1>6, <1>7, <1>8 DEF Next

\* Where no two resources have one text, a resource whose indexing was answered,
\* with no other request on it since, is in the collection whole and under its
\* own key, whatever was indexed, deleted or failing besides.  The ids are of the
\* text alone: a second resource of the same text takes its points over, which is
\* why the texts have to differ (deterministic_asset_chunk_id).
THEOREM IndexedStays ==
    ASSUME \A r, s \in Revisions : r.text = s.text => KeyOf(r) = KeyOf(s)
    PROVE  Spec => []IndexedIsFound
<1>1. Init => ToldIsThere
  BY DEF Init, ToldIsThere
<1>2. IInv /\ ToldIsThere /\ [Next]_vars => ToldIsThere'
  BY FoundKeeps
<1>3. ToldIsThere => IndexedIsFound
  BY DEF ToldIsThere, IndexedIsFound, OwnPoints
<1>. QED
  BY <1>1, <1>2, <1>3, InitKeeps, StepKeeps, PTL DEF Spec

-----------------------------------------------------------------------------
(* Where the pieces of a text stand.                                         *)

\* A window that starts before the end of a text is a piece of it, of a token
\* at least and of the size asked at most (_fit_window).
LEMMA WindowIs ==
    ASSUME NEW text \in Seq(Tokens), NEW start \in Nat, NEW end \in (start + 1)..Len(text),
           NEW size \in Nat, size > 1, end <= start + size
    PROVE  /\ FitWindow(text, start, end, size).end \in (start + 1)..Len(text)
           /\ FitWindow(text, start, end, size).end <= start + size
           /\ FitWindow(text, start, end, size).piece
                 = SubSeq(text, start + 1, FitWindow(text, start, end, size).end)
           /\ FitWindow(text, start, end, size).piece \in Seq(Tokens)
           /\ Len(FitWindow(text, start, end, size).piece) = FitWindow(text, start, end, size).end - start
<1>. DEFINE fits == {e \in (start + 1)..end : Measure(SubSeq(text, start + 1, e)) <= size}
            w == FitWindow(text, start, end, size)
<1>1. end \in Nat /\ end <= Len(text) /\ end <= start + size /\ end >= start + 1 /\ Len(text) \in Nat
  OBVIOUS
<1>2. fits \in SUBSET (0..Len(text))
  BY <1>1
<1>3. start + 1 \in fits
  <2>. DEFINE one == SubSeq(text, start + 1, start + 1)
  <2>1. one \in Seq(Tokens) /\ Len(one) = 1
    BY <1>1
  <2>2. Measure(one) <= 2
    <3>. HIDE DEF one
    <3>. QED
      BY <2>1 DEF Measure
  <2>. HIDE DEF one
  <2>3. Measure(one) <= size
    <3>1. Measure(one) \in Nat
      BY <2>1 DEF Measure
    <3>. QED
      BY <2>2, <3>1
  <2>. QED
    BY <1>1, <2>3 DEF one
<1>4. Max(fits) \in fits /\ fits # {}
  <2>1. Len(text) \in Nat
    BY <1>1
  <2>. HIDE DEF fits
  <2>. QED
    BY <1>2, <1>3, <2>1, GreatestIsMax
<1>5. w.end = Max(fits) /\ w.piece = SubSeq(text, start + 1, Max(fits))
  BY <1>4 DEF FitWindow
<1>6. Max(fits) \in (start + 1)..end
  BY <1>4
<1>. DEFINE m == Max(fits)
<1>7. m \in (start + 1)..Len(text) /\ m <= start + size
  BY <1>1, <1>6
<1>. HIDE DEF m
<1>8. SubSeq(text, start + 1, m) \in Seq(Tokens) /\ Len(SubSeq(text, start + 1, m)) = m - start
  BY <1>1, <1>7
<1>. HIDE DEF w
<1>9. /\ w.end \in (start + 1)..Len(text) /\ w.end <= start + size
      /\ w.piece = SubSeq(text, start + 1, w.end)
      /\ w.piece \in Seq(Tokens) /\ Len(w.piece) = w.end - start
  BY <1>5, <1>7, <1>8 DEF m
<1>. QED
  BY <1>9 DEF w

\* The k-th piece of a text is what is there from k - 1 steps on.
AtSteps(text, pieces, size, step) ==
    /\ pieces \in Seq(Seq(Tokens))
    /\ \A k \in 1..Len(pieces) :
          /\ (k - 1) * step \in Nat /\ (k - 1) * step < Len(text)
          /\ Len(pieces[k]) \in 1..size
          /\ (k - 1) * step + Len(pieces[k]) <= Len(text)
          /\ SubSeq(text, (k - 1) * step + 1, (k - 1) * step + Len(pieces[k])) = pieces[k]

\* Windows start step after step (chunk_text).
LEMMA PiecesAre ==
    ASSUME NEW text \in Seq(Tokens), NEW size \in Nat, NEW overlap \in Nat, overlap < size, size > 1
    PROVE  AtSteps(text, ChunkText(text, size, overlap), size, Step(size, overlap))
<1>. DEFINE step == Step(size, overlap)
            pieces == ChunkText(text, size, overlap)
<1>0. step = Step(size, overlap) /\ pieces = ChunkText(text, size, overlap)
  OBVIOUS
<1>. HIDE DEF step, pieces
<1>. SUFFICES AtSteps(text, pieces, size, step)
  BY <1>0
<1>. DEFINE window(k) == FitWindow(text, k * step, Min({k * step + size, Len(text)}), size)
            stops == {k \in 0..Len(text) : \/ window(k).end >= Len(text)
                                           \/ (k + 1) * step >= Len(text)}
            last == Min(stops)
            all == [k \in 1..(last + 1) |-> window(k - 1).piece]
<1>1. CASE text = <<>>
  <2>1. pieces = <<>>
    BY <1>0, <1>1 DEF ChunkText
  <2>. QED
    BY <2>1 DEF AtSteps
<1>2. CASE text # <<>>
  <2>1. step \in Nat \ {0} /\ Len(text) \in Nat /\ Len(text) > 0
    BY <1>0, <1>2 DEF Step
  <2>2. stops \in SUBSET Nat /\ Len(text) \in stops
    <3>1. (Len(text) + 1) * step >= Len(text)
      <4>1. Len(text) * step \in Nat /\ Len(text) * step >= Len(text)
            /\ (Len(text) + 1) * step = Len(text) * step + step
        BY <2>1, Multiple
      <4>. QED
        BY <2>1, <4>1
    <3>. HIDE DEF window
    <3>. QED
      BY <2>1, <3>1
  <2>3. last \in Nat /\ \A k \in stops : last <= k
    <3>. HIDE DEF stops
    <3>. QED
      BY <2>2, LeastIsMin
  <2>4. last <= Len(text)
    BY <2>2, <2>3
  <2>. HIDE DEF last
  <2>5. ASSUME NEW k \in 0..last PROVE k * step \in Nat /\ k * step < Len(text)
    <3>1. CASE k = 0
      <4>1. 0 * step = 0
        BY <2>1
      <4>. QED
        BY <2>1, <3>1, <4>1
    <3>2. CASE k # 0
      <4>. DEFINE j == k - 1
      <4>1. j \in Nat /\ j + 1 = k /\ j \in 0..Len(text) /\ ~(last <= j)
        BY <2>1, <2>3, <2>4, <3>2
      <4>. HIDE DEF j
      <4>2. j \notin stops
        BY <2>3, <4>1
      <4>3. ~((j + 1) * step >= Len(text))
        <5>. HIDE DEF window
        <5>. QED
          BY <4>1, <4>2
      <4>4. k * step \in Nat
        <5>1. k \in Nat
          BY <2>3
        <5>. QED
          BY <2>1, <5>1, Multiple
      <4>. QED
        BY <2>1, <4>1, <4>3, <4>4
    <3>. QED
      BY <3>1, <3>2
  <2>6. ASSUME NEW k \in 0..last
        PROVE  /\ window(k).piece \in Seq(Tokens)
               /\ Len(window(k).piece) \in 1..size
               /\ k * step + Len(window(k).piece) <= Len(text)
               /\ SubSeq(text, k * step + 1, k * step + Len(window(k).piece)) = window(k).piece
    <3>. DEFINE start == k * step
                w == window(k)
    <3>1. start \in Nat /\ start < Len(text)
      BY <2>5
    <3>. DEFINE ends == {start + size, Len(text)}
                end == Min(ends)
    <3>2. w = FitWindow(text, start, end, size)
      OBVIOUS
    <3>. HIDE DEF start, w
    <3>6. ends \in SUBSET Nat /\ ends # {} /\ Len(text) \in ends /\ start + size \in ends
      BY <2>1, <3>1
    <3>7. end \in (start + 1)..Len(text) /\ end <= start + size
      <4>. HIDE DEF ends
      <4>1. Min(ends) \in ends /\ \A n \in ends : Min(ends) <= n
        BY <3>6, LeastIsMin
      <4>. QED
        BY <2>1, <3>1, <3>6, <4>1 DEF ends
    <3>. HIDE DEF end
    <3>3. /\ w.end \in (start + 1)..Len(text) /\ w.end <= start + size
          /\ w.piece = SubSeq(text, start + 1, w.end)
          /\ w.piece \in Seq(Tokens) /\ Len(w.piece) = w.end - start
      BY <3>1, <3>2, <3>7, WindowIs
    <3>4. start + Len(w.piece) = w.end
      BY <3>1, <3>3
    <3>5. /\ w.piece \in Seq(Tokens) /\ Len(w.piece) \in 1..size
          /\ start + Len(w.piece) <= Len(text)
          /\ SubSeq(text, start + 1, start + Len(w.piece)) = w.piece
      <4>1. w.piece \in Seq(Tokens) /\ SubSeq(text, start + 1, start + Len(w.piece)) = w.piece
        BY <3>3, <3>4
      <4>2. Len(w.piece) \in 1..size /\ start + Len(w.piece) <= Len(text)
        <5>. DEFINE e == w.end
                    l == Len(w.piece)
        <5>1. e \in (start + 1)..Len(text) /\ e <= start + size /\ l = e - start
          BY <3>3
        <5>. HIDE DEF e, l
        <5>2. l \in 1..size /\ start + l <= Len(text)
          BY <2>1, <3>1, <5>1
        <5>. QED
          BY <5>2 DEF l
      <4>. QED
        BY <4>1, <4>2
    <3>. QED
      BY <3>5 DEF start, w
  <2>7. all \in Seq(Seq(Tokens)) /\ Len(all) = last + 1
        /\ \A k \in 1..(last + 1) : all[k] = window(k - 1).piece
    <3>1. \A k \in 1..(last + 1) : k - 1 \in 0..last /\ window(k - 1).piece \in Seq(Tokens)
      <4>1. \A k \in 1..(last + 1) : k - 1 \in 0..last
        BY <2>3
      <4>. HIDE DEF window
      <4>. QED
        BY <2>6, <4>1
    <3>. DEFINE T == Seq(Tokens)
    <3>. HIDE DEF window, T
    <3>2. all \in [1..(last + 1) -> T]
      BY <3>1 DEF T
    <3>3. all \in Seq(T) /\ Len(all) = last + 1
      <4>1. last + 1 \in Nat
        BY <2>3
      <4>. HIDE DEF all
      <4>. QED
        BY <3>2, <4>1, OfLength
    <3>. QED
      BY <3>3 DEF T
  <2>8. pieces = all
    <3>1. pieces = Filter(all, ToSet(all) \ {<<>>})
      BY <1>0, <1>2 DEF ChunkText, last
    <3>2. \A k \in 1..Len(all) : all[k] \in ToSet(all) \ {<<>>}
      <4>1. ASSUME NEW k \in 1..(last + 1) PROVE all[k] # <<>> /\ all[k] \in ToSet(all)
        <5>1. k - 1 \in 0..last
          BY <2>3
        <5>2. Len(all[k]) \in 1..size
          <6>. HIDE DEF window, all
          <6>. QED
            BY <2>6, <2>7, <5>1
        <5>3. all[k] # <<>>
          <6>1. all[k] = <<>> => Len(all[k]) = 0
            OBVIOUS
          <6>. HIDE DEF all
          <6>. QED
            BY <5>2, <6>1
        <5>4. k \in DOMAIN all
          OBVIOUS
        <5>. QED
          BY <5>3, <5>4 DEF ToSet
      <4>. HIDE DEF all
      <4>. QED
        BY <2>7, <4>1
    <3>. HIDE DEF all
    <3>. QED
      BY <2>7, <3>1, <3>2, FilterAll
  <2>. HIDE DEF all, window
  <2>9. ASSUME NEW k \in 1..Len(pieces)
        PROVE  /\ (k - 1) * step \in Nat /\ (k - 1) * step < Len(text)
               /\ Len(pieces[k]) \in 1..size
               /\ (k - 1) * step + Len(pieces[k]) <= Len(text)
               /\ SubSeq(text, (k - 1) * step + 1, (k - 1) * step + Len(pieces[k])) = pieces[k]
    <3>1. k - 1 \in 0..last /\ pieces[k] = window(k - 1).piece
      BY <2>3, <2>7, <2>8
    <3>. QED
      BY <2>5, <2>6, <3>1
  <2>. QED
    BY <2>7, <2>8, <2>9 DEF AtSteps
<1>. QED
  BY <1>1, <1>2

\* What find gives is a place of the piece, no later than any (str.find).
LEMMA FindIs ==
    ASSUME NEW text \in Seq(Tokens), NEW piece \in Seq(Tokens), NEW from \in Nat
    PROVE  /\ Find(text, piece, from) \in Nat
           /\ \A at \in Nat :
                 /\ from <= at /\ at + Len(piece) <= Len(text) /\ at < Len(text)
                 /\ SubSeq(text, at + 1, at + Len(piece)) = piece
                 => /\ Find(text, piece, from) \in from..at
                    /\ SubSeq(text, Find(text, piece, from) + 1, Find(text, piece, from) + Len(piece)) = piece
<1>. DEFINE here == {s \in from..(Len(text) - Len(piece)) :
                        SubSeq(text, s + 1, s + Len(piece)) = piece}
            all == here \cup {Len(text)}
            found == Find(text, piece, from)
<1>1. Len(text) \in Nat /\ Len(piece) \in Nat
  OBVIOUS
<1>2. all \in SUBSET Nat /\ Len(text) \in all
  BY <1>1
<1>3. found = Min(all)
  BY DEF Find
<1>4. found \in all /\ \A n \in all : found <= n
  <2>. HIDE DEF all, found
  <2>. QED
    BY <1>2, <1>3, LeastIsMin
<1>. HIDE DEF found
<1>5. ASSUME NEW at \in Nat, from <= at, at + Len(piece) <= Len(text), at < Len(text),
             SubSeq(text, at + 1, at + Len(piece)) = piece
      PROVE  found \in from..at /\ SubSeq(text, found + 1, found + Len(piece)) = piece
  <2>1. at \in here
    BY <1>1, <1>5
  <2>2. found <= at
    BY <1>4, <2>1
  <2>3. found \in here
    <3>1. found # Len(text)
      BY <1>1, <1>2, <1>4, <1>5, <2>2
    <3>. HIDE DEF here
    <3>. QED
      BY <1>4, <3>1
  <2>4. found \in from..(Len(text) - Len(piece))
    BY <2>3
  <2>. QED
    BY <1>1, <2>2, <2>3, <2>4
<1>. QED
  BY <1>2, <1>4, <1>5 DEF found

\* The next search goes on from the middle of the piece, and not from its start.
LEMMA SearchIs ==
    ASSUME NEW start \in Nat, NEW piece \in Seq(Tokens), NEW size \in Nat
    PROVE  /\ SearchFrom(start, piece) \in Nat
           /\ Len(piece) \in 1..size => /\ SearchFrom(start, piece) > start
                                        /\ \/ SearchFrom(start, piece) = start + 1
                                           \/ SearchFrom(start, piece) <= start + (size \div 2)
<1>. DEFINE l == Len(piece)
            half == l \div 2
            two == {1, half}
            ends == {start + l, start + Max(two)}
            from == SearchFrom(start, piece)
<1>1. l \in Nat /\ half \in Nat /\ half <= l
  OBVIOUS
<1>. HIDE DEF l
<1>2. two \in SUBSET (0..(l + 1)) /\ two # {} /\ 1 \in two /\ half \in two /\ l + 1 \in Nat
  BY <1>1
<1>. HIDE DEF half
<1>3. Max(two) \in two /\ Max(two) >= 1
  <2>. HIDE DEF two
  <2>. QED
    BY <1>2, GreatestIsMax
<1>4. Max(two) \in Nat /\ (Max(two) = 1 \/ Max(two) = half)
  BY <1>1, <1>3
<1>. DEFINE most == Max(two)
<1>. HIDE DEF most
<1>5. from = Min({start + l, start + most})
  BY DEF SearchFrom, most, l, half
<1>6. from \in {start + l, start + most} /\ from <= start + l /\ from <= start + most
  <2>. DEFINE both == {start + l, start + most}
  <2>1. both \in SUBSET Nat /\ both # {} /\ start + l \in both /\ start + most \in both
    BY <1>1, <1>4 DEF most
  <2>. HIDE DEF both, from
  <2>2. Min(both) \in both /\ \A n \in both : Min(both) <= n
    BY <2>1, LeastIsMin
  <2>3. from = Min(both)
    BY <1>5 DEF both
  <2>. QED
    BY <2>1, <2>2, <2>3 DEF both
<1>. HIDE DEF from
<1>7. most \in Nat /\ most >= 1 /\ (most = 1 \/ most = half)
  BY <1>3, <1>4 DEF most
<1>8. from \in Nat
  BY <1>1, <1>6, <1>7
<1>9. ASSUME l \in 1..size PROVE from > start /\ (from = start + 1 \/ from <= start + (size \div 2))
  <2>1. from > start
    BY <1>1, <1>6, <1>7, <1>9
  <2>2. half <= size \div 2
    BY <1>1, <1>9 DEF half
  <2>3. size \div 2 \in Nat
    OBVIOUS
  <2>. DEFINE most2 == size \div 2
  <2>. HIDE DEF most2
  <2>4. CASE most = 1
    BY <1>6, <1>8, <2>1, <2>4
  <2>5. CASE most = half
    <3>1. half <= most2 /\ most2 \in Nat
      BY <2>2, <2>3 DEF most2
    <3>2. from <= start + most2
      BY <1>1, <1>6, <1>8, <2>5, <3>1
    <3>. QED
      BY <2>1, <3>2 DEF most2
  <2>. QED
    BY <1>7, <2>1, <2>4, <2>5
<1>. QED
  BY <1>8, <1>9 DEF from, l

\* Where a piece is put, when the one before it is put at `before`.
NextStart(text, pieces, before, i) ==
    LET from == IF i = 1 THEN 0 ELSE SearchFrom(before, pieces[i - 1])
        next == Find(text, pieces[i], from)
    IN  IF next < Len(text) THEN next ELSE Find(text, pieces[i], 0)

\* Each piece is put after the one before it (chunk_asset).
LEMMA PlacesUnfold ==
    ASSUME NEW text \in Seq(Tokens), NEW pieces \in Seq(Seq(Tokens)),
           pieces = ChunkText(text, ChildSize, ChildOverlap)
    PROVE  \E start \in [0..Len(pieces) -> Nat] :
              /\ start[0] = 0
              /\ \A i \in 1..Len(pieces) : start[i] = NextStart(text, pieces, start[i - 1], i)
              /\ Places(text) = [i \in DOMAIN pieces |-> <<start[i], start[i] + Len(pieces[i])>>]
<1>. DEFINE N == Len(pieces)
            step == [x \in Nat \X (1..N) |-> NextStart(text, pieces, x[1], x[2])]
            K == CHOOSE start : start = [i \in 0..N |->
                    IF i = 0 THEN 0
                    ELSE LET from == IF i = 1 THEN 0
                                     ELSE SearchFrom(start[i - 1], pieces[i - 1])
                             next == Find(text, pieces[i], from)
                         IN IF next < Len(text) THEN next ELSE Find(text, pieces[i], 0)]
<1>1. N \in Nat
  OBVIOUS
<1>2. \A x \in Nat, n \in 1..N : step[<<x, n>>] = NextStart(text, pieces, x, n)
  OBVIOUS
<1>3. step \in [Nat \X (1..N) -> Nat]
  <2>1. ASSUME NEW x \in Nat, NEW n \in 1..N PROVE NextStart(text, pieces, x, n) \in Nat
    <3>1. n # 1 => n - 1 \in 1..N
      BY <1>1
    <3>2. pieces[n] \in Seq(Tokens) /\ (n # 1 => pieces[n - 1] \in Seq(Tokens))
      BY <3>1
    <3>. DEFINE from == IF n = 1 THEN 0 ELSE SearchFrom(x, pieces[n - 1])
    <3>3. from \in Nat
      BY <3>2, SearchIs
    <3>. HIDE DEF from
    <3>4. Find(text, pieces[n], from) \in Nat /\ Find(text, pieces[n], 0) \in Nat
      BY <3>2, <3>3, FindIs
    <3>. QED
      BY <3>4 DEF NextStart, from
  <2>. QED
    BY <2>1
<1>. HIDE DEF step
<1>4. PICK f \in [0..N -> Nat] : Builds(f, N, 0, step)
  BY <1>1, <1>3, Recursion
<1>5. \A n \in 1..N : n - 1 \in 0..N /\ f[n - 1] \in Nat
  <2>1. f \in [0..N -> Nat]
    BY <1>4
  <2>. HIDE DEF N
  <2>. QED
    BY <1>1, <2>1
<1>6. f[0] = 0 /\ \A n \in 1..N : f[n] = NextStart(text, pieces, f[n - 1], n)
  BY <1>2, <1>4, <1>5 DEF Builds
<1>7. f = [i \in 0..N |-> IF i = 0 THEN 0 ELSE NextStart(text, pieces, f[i - 1], i)]
  <2>1. ASSUME NEW n \in 0..N
        PROVE  f[n] = IF n = 0 THEN 0 ELSE NextStart(text, pieces, f[n - 1], n)
    <3>1. n = 0 \/ (n \in 1..N /\ n # 0)
      BY <1>1
    <3>. QED
      BY <1>6, <3>1
  <2>2. f = [n \in 0..N |-> f[n]]
    OBVIOUS
  <2>. QED
    BY <2>1, <2>2
<1>8. K = [i \in 0..N |-> IF i = 0 THEN 0 ELSE NextStart(text, pieces, K[i - 1], i)]
  BY <1>7 DEF NextStart
<1>9. Places(text) = [i \in DOMAIN pieces |-> <<K[i], K[i] + Len(pieces[i])>>]
  BY DEF Places
<1>. HIDE DEF K
<1>10. Follows(K, Nat, N, 0, step)
  <2>1. K[0] = 0
    BY <1>1, <1>8
  <2>2. ASSUME NEW n \in 1..N, K[n - 1] \in Nat PROVE K[n] = step[<<K[n - 1], n>>]
    <3>1. n \in 0..N /\ n # 0
      BY <1>1
    <3>2. K[n] = NextStart(text, pieces, K[n - 1], n)
      BY <1>8, <3>1
    <3>. QED
      BY <1>2, <2>2, <3>2
  <2>. QED
    BY <2>1, <2>2 DEF Follows
<1>11. \A n \in 0..N : K[n] = f[n]
  <2>. DEFINE A == Nat
              base == 0
  <2>1. N \in Nat /\ f \in [0..N -> A] /\ Builds(f, N, base, step) /\ Follows(K, A, N, base, step)
    BY <1>1, <1>4, <1>10
  <2>. HIDE DEF N, A, base
  <2>. QED
    BY <2>1, OnlyRecursion
<1>12. Places(text) = [i \in DOMAIN pieces |-> <<f[i], f[i] + Len(pieces[i])>>]
  <2>1. \A i \in DOMAIN pieces : i \in 0..N
    BY <1>1
  <2>. QED
    BY <1>9, <1>11, <2>1
<1>. QED
  BY <1>6, <1>12

\* The next search begins no later than where the next window starts.
LEMMA OwnPlacesAre ==
    ASSUME NEW text \in Seq(Tokens), ChildSize \div 2 <= Step(ChildSize, ChildOverlap)
    PROVE  OwnPlaces(text)
<1>. DEFINE pieces == ChunkText(text, ChildSize, ChildOverlap)
            N == Len(pieces)
            step == Step(ChildSize, ChildOverlap)
            due(k) == (k - 1) * step
<1>1. /\ ChildSize \in Nat /\ ChildOverlap \in Nat /\ ChildOverlap < ChildSize /\ ChildSize > 1
      /\ step \in Nat \ {0}
  BY ChunkingAssumption DEF Step
<1>. HIDE DEF step
<1>2. /\ pieces \in Seq(Seq(Tokens))
      /\ \A k \in 1..N :
            /\ due(k) \in Nat /\ due(k) < Len(text)
            /\ Len(pieces[k]) \in 1..ChildSize
            /\ due(k) + Len(pieces[k]) <= Len(text)
            /\ SubSeq(text, due(k) + 1, due(k) + Len(pieces[k])) = pieces[k]
  <2>1. step = Step(ChildSize, ChildOverlap)
    BY DEF step
  <2>. DEFINE p == pieces
  <2>2. p = ChunkText(text, ChildSize, ChildOverlap)
    OBVIOUS
  <2>. HIDE DEF p
  <2>3. AtSteps(text, p, ChildSize, step)
    BY <1>1, <2>1, <2>2, PiecesAre
  <2>. QED
    BY <2>3 DEF p, AtSteps
<1>3. \A k \in 1..N : k # N => due(k + 1) = due(k) + step
  <2>1. ASSUME NEW k \in 1..N PROVE ((k + 1) - 1) * step = (k - 1) * step + step
    <3>1. k - 1 \in Nat /\ (k + 1) - 1 = (k - 1) + 1
      OBVIOUS
    <3>2. ((k - 1) + 1) * step = (k - 1) * step + step
      BY <1>1, <3>1, Multiple
    <3>. QED
      BY <3>1, <3>2
  <2>. QED
    BY <2>1
<1>4. 1 \in 1..N => due(1) = 0
  BY <1>1
<1>5. PICK start \in [0..N -> Nat] :
         /\ start[0] = 0
         /\ \A i \in 1..N : start[i] = NextStart(text, pieces, start[i - 1], i)
         /\ Places(text) = [i \in DOMAIN pieces |-> <<start[i], start[i] + Len(pieces[i])>>]
  BY <1>2, PlacesUnfold
<1>. HIDE DEF pieces, due
<1>6. N \in Nat /\ DOMAIN pieces = 1..N /\ Len(text) \in Nat /\ \A k \in 1..N : pieces[k] \in Seq(Tokens)
  BY <1>2
<1>7. ASSUME NEW i \in 1..N, NEW from \in Nat, from <= due(i),
             from = IF i = 1 THEN 0 ELSE SearchFrom(start[i - 1], pieces[i - 1])
      PROVE  /\ start[i] \in from..due(i)
             /\ SubSeq(text, start[i] + 1, start[i] + Len(pieces[i])) = pieces[i]
  <2>. DEFINE next == Find(text, pieces[i], from)
  <2>1. next \in from..due(i) /\ SubSeq(text, next + 1, next + Len(pieces[i])) = pieces[i]
    <3>1. /\ due(i) \in Nat /\ due(i) < Len(text) /\ due(i) + Len(pieces[i]) <= Len(text)
          /\ SubSeq(text, due(i) + 1, due(i) + Len(pieces[i])) = pieces[i]
          /\ pieces[i] \in Seq(Tokens)
      BY <1>2, <1>6
    <3>. DEFINE p == pieces[i]
                at == due(i)
    <3>2. /\ p \in Seq(Tokens) /\ at \in Nat /\ from <= at /\ at + Len(p) <= Len(text)
          /\ at < Len(text) /\ SubSeq(text, at + 1, at + Len(p)) = p
      BY <1>7, <3>1
    <3>. HIDE DEF p, at
    <3>3. Find(text, p, from) \in from..at
          /\ SubSeq(text, Find(text, p, from) + 1, Find(text, p, from) + Len(p)) = p
      BY <3>2, FindIs
    <3>. QED
      BY <3>3 DEF p, at
  <2>2. next < Len(text)
    BY <1>2, <1>6, <2>1
  <2>3. start[i] = next
    BY <1>5, <1>7, <2>2 DEF NextStart
  <2>. QED
    BY <2>1, <2>3
<1>. DEFINE own(i) == /\ start[i] <= due(i)
                      /\ SubSeq(text, start[i] + 1, start[i] + Len(pieces[i])) = pieces[i]
                      /\ i > 1 => start[i - 1] < start[i]
            good == {n \in 0..N : n # 0 => own(n)}
<1>8. 0 \in good
  BY <1>6
<1>9. ASSUME NEW n \in 0..N, n # N, n \in good PROVE n + 1 \in good
  <2>. DEFINE i == n + 1
  <2>1. i \in 1..N /\ i - 1 = n /\ i \in 0..N /\ i # 0
    <3>1. n # N /\ n \in 0..N /\ N \in Nat
      BY <1>6, <1>9
    <3>. HIDE DEF N
    <3>. QED
      BY <3>1
  <2>4. n # 0 => own(n)
    <3>. HIDE DEF own
    <3>. QED
      BY <1>9
  <2>2. CASE n = 0
    <3>1. 0 \in Nat /\ 0 <= due(i) /\ i = 1
      BY <1>2, <2>1, <2>2
    <3>2. start[i] \in 0..due(i) /\ SubSeq(text, start[i] + 1, start[i] + Len(pieces[i])) = pieces[i]
      BY <1>7, <2>1, <3>1
    <3>3. own(i)
      BY <3>1, <3>2
    <3>. HIDE DEF own
    <3>. QED
      BY <2>1, <3>3
  <2>3. CASE n # 0
    <3>. DEFINE from == SearchFrom(start[n], pieces[n])
    <3>1. n \in 1..N /\ start[n] \in Nat /\ start[n] <= due(n)
      <4>1. n \in 0..N /\ N \in Nat
        BY <1>6
      <4>2. n \in 1..N
        <5>. HIDE DEF N
        <5>. QED
          BY <2>3, <4>1
      <4>. QED
        BY <2>3, <2>4, <4>1, <4>2
    <3>2. /\ from \in Nat /\ from > start[n]
          /\ from = start[n] + 1 \/ from <= start[n] + (ChildSize \div 2)
      BY <1>1, <1>2, <1>6, <3>1, SearchIs
    <3>. HIDE DEF from
    <3>3. from <= due(i)
      <4>1. due(i) = due(n) + step /\ due(n) \in Nat
        BY <1>2, <1>3, <1>9, <3>1
      <4>2. ChildSize \div 2 <= step /\ ChildSize \div 2 \in Nat
        BY <1>1 DEF step
      <4>. QED
        BY <1>1, <3>1, <3>2, <4>1, <4>2
    <3>4. from = IF i = 1 THEN 0 ELSE SearchFrom(start[i - 1], pieces[i - 1])
      BY <2>1, <2>3 DEF from
    <3>5. start[i] \in from..due(i) /\ SubSeq(text, start[i] + 1, start[i] + Len(pieces[i])) = pieces[i]
      BY <1>7, <2>1, <3>2, <3>3, <3>4
    <3>6. start[i - 1] < start[i] /\ start[i] <= due(i)
      BY <1>2, <2>1, <3>1, <3>2, <3>5
    <3>7. own(i)
      BY <3>5, <3>6
    <3>. HIDE DEF own
    <3>. QED
      BY <2>1, <3>7
  <2>. QED
    BY <2>2, <2>3
<1>10. \A i \in 1..N : own(i)
  <2>. HIDE DEF own
  <2>1. 0..N \subseteq good
    <3>. HIDE DEF good, N
    <3>. QED
      BY <1>6, <1>8, <1>9, Upto
  <2>2. \A i \in 1..N : i \in 0..N /\ i # 0
    BY <1>6
  <2>. QED
    BY <2>1, <2>2
<1>11. \A i \in 1..N : Places(text)[i] = <<start[i], start[i] + Len(pieces[i])>>
  BY <1>5, <1>6
<1>12. ASSUME NEW i \in 1..N
       PROVE  /\ SubSeq(text, Places(text)[i][1] + 1, Places(text)[i][2]) = pieces[i]
              /\ i > 1 => Places(text)[i - 1][1] < Places(text)[i][1]
  <2>1. i > 1 => i - 1 \in 1..N
    <3>. HIDE DEF N
    <3>. QED
      BY <1>6
  <2>2. own(i)
    BY <1>10
  <2>3. Places(text)[i][1] = start[i] /\ Places(text)[i][2] = start[i] + Len(pieces[i])
    BY <1>11
  <2>4. i > 1 => Places(text)[i - 1][1] = start[i - 1]
    BY <1>11, <2>1
  <2>. QED
    BY <2>2, <2>3, <2>4
<1>. QED
  BY <1>6, <1>12 DEF OwnPlaces, pieces

\* Every request that writes is for a known revision.
LEMMA KnownHolds == Spec => []Known
<1>1. IInv => Known
  BY DEF IInv
<1>. QED
  BY <1>1, InitKeeps, StepKeeps, PTL DEF Spec

\* Where half a window is no more than a step, as in the settings (config.py: 200
\* tokens, 40 of them shared), the search for a piece has not passed the place
\* it was cut from when it begins, so that each is found where it stands, after
\* the one before it: no two pieces of an asset share an id (chunk_asset).
THEOREM PiecesHaveTheirPlaces ==
    ASSUME ChildSize \div 2 <= Step(ChildSize, ChildOverlap)
    PROVE  Spec => []PlacesAreOwn
<1>1. SamplesHaveOwnPlaces
  BY OwnPlacesAre, TextsAssumption DEF SamplesHaveOwnPlaces
<1>2. Known => PlacesAreOwn
  <2>. SUFFICES ASSUME Known, NEW t \in Tasks, task[t].op = "index"
                PROVE  OwnPlaces(task[t].rev.text)
    BY <1>1 DEF PlacesAreOwn
  <2>1. task[t].rev.text \in Seq(Tokens)
    BY TextsAssumption DEF Known
  <2>. QED
    BY <2>1, OwnPlacesAre
<1>. QED
  BY <1>2, KnownHolds, PTL
=============================================================================
