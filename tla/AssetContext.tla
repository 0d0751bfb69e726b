---------------------------- MODULE AssetContext ----------------------------
(***************************************************************************)
(* The points of operator-supplied assets: how a text is cut and placed,   *)
(* indexed, deleted and queried under signed manifests (asset_context.py,  *)
(* context_models.py, the asset operations of QdrantStore).                *)
(*                                                                         *)
(* A request verifies what it was sent, awaits the embedder, and then makes *)
(* one call to Qdrant; requests interleave at those awaits.  A digest is    *)
(* the text it is of, and a signature is whether it verifies.               *)
(***************************************************************************)
EXTENDS Chunking

CONSTANTS
    Revisions,    \* [owner, asset, version, resource, text, source, visibility,
                  \*  lifecycle, trusted]: what may be sent for indexing
    Manifests,    \* SignedRunContextManifest: [owner, entries, genuine]
    Runtimes,     \* PersistedManifestEnvelope: [owner, entries, genuine, knowledge],
                  \* its entries [kind, asset, version]
    SampleTexts,  \* texts whose places are checked
    Tasks,        \* requests under way at one time (a bound)
    MaxRequests,  \* requests in all (a bound)
    TopK

VARIABLES
    points,    \* id -> payload
    task,      \* what each request is doing
    expired,   \* the manifests whose expiry has passed
    answer,    \* the last answer to a query
    told,      \* what callers may expect of each resource of a version
    requests   \* requests so far

vars == <<points, task, expired, answer, told, requests>>

-----------------------------------------------------------------------------
(* chunk_asset: the pieces of a text and where they stand in it.            *)

\* text.find(piece, from), or the length of the text when there is none.
Find(text, piece, from) ==
    Min({s \in from..(Len(text) - Len(piece)) :
            SubSeq(text, s + 1, s + Len(piece)) = piece} \cup {Len(text)})

\* Mutant: the search goes on from where the last piece was found.
SearchFromStart(start, piece) == start

SearchFrom(start, piece) ==
    Min({start + Len(piece), start + Max({1, Len(piece) \div 2})})

\* The coordinates of each piece, searched from the middle of the one before
\* and, failing that, from the beginning.
Places(text) ==
    LET pieces == ChunkText(text, ChildSize, ChildOverlap)
        start[i \in 0..Len(pieces)] ==
            IF i = 0 THEN 0
            ELSE LET from == IF i = 1 THEN 0
                             ELSE SearchFrom(start[i - 1], pieces[i - 1])
                     next == Find(text, pieces[i], from)
                 IN IF next < Len(text) THEN next ELSE Find(text, pieces[i], 0)
    IN [i \in DOMAIN pieces |-> <<start[i], start[i] + Len(pieces[i])>>]

Texts == {r.text : r \in Revisions}

PlacesOf == [t \in Texts |-> Places(t)]

\* Mutant: the place alone.
PlacesIn(text) == ToSet(PlacesOf[text])

\* deterministic_asset_chunk_id: the text's digest and the place in it; neither
\* owner nor asset nor version.
IdsOf(text) == {<<text, PlacesOf[text][i]>> : i \in DOMAIN PlacesOf[text]}

-----------------------------------------------------------------------------
(* What a request is checked against.                                       *)

EntryOf(r) == [owner |-> r.owner, asset |-> r.asset, version |-> r.version,
               resource |-> r.resource, digest |-> r.text, source |-> r.source,
               visibility |-> r.visibility]

Entries(m) == {m.entries[i] : i \in DOMAIN m.entries}

\* coherent_entries: one owner's, no two alike in version, resource and digest.
Coherent(m) ==
    /\ m.entries # <<>>
    /\ \A e \in Entries(m) : e.owner = m.owner
    /\ \A i, j \in DOMAIN m.entries :
          /\ m.entries[i].version = m.entries[j].version
          /\ m.entries[i].resource = m.entries[j].resource
          /\ m.entries[i].digest = m.entries[j].digest
          => i = j

\* eligible_revision
Eligible(r) == r.lifecycle # "revoked"

\* The resource of an AssetIndexRequest is the revision's source as it is.
HasItsDigests(r) == r.text # <<>> /\ (~r.trusted => r.source = r.text)

\* eligible_at_resolution
EligibleEntry(e) == e.kind = "knowledge" => e.version # ""

\* A request that does not parse, or whose signature does not verify, changes
\* nothing.
ASSUME RequestsAssumption ==
    /\ \A r \in Revisions : Eligible(r) /\ HasItsDigests(r)
    /\ \A m \in Manifests : Coherent(m)
    /\ \A m \in Runtimes : \A e \in Entries(m) : EligibleEntry(e)
    /\ TopK \in Nat \ {0}

\* Texts are tokens.
ASSUME TextsAssumption ==
    /\ \A r \in Revisions : r.text \in Seq(Tokens)
    /\ SampleTexts \subseteq Seq(Tokens)

\* What is sent under manifests has one text for a resource of a version: their
\* "immutable version ID".  A signed caller may have extracted its text again.
ASSUME VersionsAssumption ==
    \A r, s \in Revisions :
       /\ ~r.trusted
       /\ r.owner = s.owner /\ r.version = s.version /\ r.resource = s.resource
       => r.asset = s.asset /\ r.text = s.text /\ r.source = s.source

\* verify_trusted_asset_request: the caller signed for the owner, the version,
\* the resource and the text.
SignedByCaller(r) == r.trusted

\* verify_persisted_manifest: no expiry.
VerifiedRuntime(m) == m.genuine

\* verify_manifest
Verified(m) == m.genuine /\ m \notin expired

\* source_is_consistent
Authorises(m, r) == EntryOf(r) \in Entries(m)

\* _exact_entry
ExactEntries(m, version, resource) ==
    {e \in Entries(m) : e.version = version /\ e.resource = resource}

-----------------------------------------------------------------------------
(* Qdrant                                                                   *)

\* upsert: an id that is there already gets the new payload.
Upserted(ids, r) ==
    [id \in DOMAIN points \cup ids |-> IF id \in ids THEN EntryOf(r) ELSE points[id]]

Without(ids) == [id \in DOMAIN points \ ids |-> points[id]]

\* delete_asset_revision: the exact entry, but for its visibility.
SameEntry(p, e) == [p EXCEPT !.visibility = e.visibility] = e

\* Mutant: only the points of the text the caller knows.
SameText(p, r) == /\ p.owner = r.owner /\ p.version = r.version
                  /\ p.resource = r.resource /\ p.digest = r.text

\* delete_trusted_asset_revision: whatever text it was of.
SameResource(p, r) ==
    p.owner = r.owner /\ p.version = r.version /\ p.resource = r.resource

\* build_asset_filter
MatchesEntry(p, m) == p.owner = m.owner /\ p \in Entries(m)

\* _assert_payload_in_manifest looks at the first entry of the point's version
\* and resource only.
InManifest(p, m) ==
    LET named == {i \in DOMAIN m.entries : /\ m.entries[i].version = p.version
                                           /\ m.entries[i].resource = p.resource}
    IN named # {} /\ m.entries[Min(named)] = p

\* The pairs query_runtime allows: an attachment is its own version.
Allowed(m) ==
    {<<e.asset, e.version>> : e \in {f \in Entries(m) : f.kind = "knowledge"}}
    \cup {<<e.asset, e.asset>> : e \in {f \in Entries(m) : f.kind = "run_attachment"}}

\* Mutant: the pairs are left out of the filter.
MatchesOwner(p, m) == p.owner = m.owner

\* search_asset_versions, and the check of what it returned
MatchesAllowed(p, m) == p.owner = m.owner /\ <<p.asset, p.version>> \in Allowed(m)

\* The TopK nearest of the points that match: any of that number.
Nearest(hits) ==
    {s \in SUBSET hits : Cardinality(s) = Min({TopK, Cardinality(hits)})}

-----------------------------------------------------------------------------
Idle == [op |-> "idle"]

KeyOf(r) == [owner |-> r.owner, version |-> r.version, resource |-> r.resource]
Keys     == {KeyOf(r) : r \in Revisions}

\* told[k]: the text last indexed, or one of these.
Gone == <<>>       \* deleted, or never indexed
Open == <<"?">>    \* a request on it is under way, failed, or crossed another

NoAnswer == [kind |-> "none"]

Init ==
    /\ points = <<>>
    /\ task = [t \in Tasks |-> Idle]
    /\ expired = {}
    /\ answer = NoAnswer
    /\ told = [k \in Keys |-> Gone]
    /\ requests = 0

Arrives(t) ==
    /\ task[t] = Idle
    /\ requests < MaxRequests
    /\ requests' = requests + 1
    /\ answer' = NoAnswer

\* Another request on the resource is under way.
Crossed(t, k) ==
    \E u \in Tasks \ {t} : task[u].op \in {"index", "delete"} /\ KeyOf(task[u].rev) = k

Begin(t, op, r) ==
    /\ task' = [task EXCEPT ![t] = [op |-> op, rev |-> r]]
    /\ told' = [told EXCEPT ![KeyOf(r)] = Open]

Settle(t, outcome) ==
    LET k == KeyOf(task[t].rev) IN
    /\ task' = [task EXCEPT ![t] = Idle]
    /\ told' = [told EXCEPT ![k] = IF Crossed(t, k) THEN Open ELSE outcome]
    /\ UNCHANGED answer

ExpireManifest(m) ==
    /\ m \notin expired
    /\ expired' = expired \cup {m}
    /\ UNCHANGED <<points, task, answer, told, requests>>

-----------------------------------------------------------------------------
(* Indexing                                                                 *)

\* index: verified before the embedder is awaited, and never again.
IndexBegin(t, r) ==
    /\ Arrives(t)
    /\ SignedByCaller(r) \/ \E m \in Manifests : Verified(m) /\ Authorises(m, r)
    /\ Begin(t, "index", r)
    /\ UNCHANGED <<points, expired>>

IndexWrite(t) ==
    /\ task[t].op = "index"
    /\ points' = Upserted(IdsOf(task[t].rev.text), task[t].rev)
    /\ Settle(t, task[t].rev.text)
    /\ UNCHANGED <<expired, requests>>

\* The embedder or Qdrant fails; some of the points may be in.
IndexFails(t) ==
    /\ task[t].op = "index"
    /\ \E ids \in SUBSET IdsOf(task[t].rev.text) : points' = Upserted(ids, task[t].rev)
    /\ Settle(t, Open)
    /\ UNCHANGED <<expired, requests>>

-----------------------------------------------------------------------------
(* Deleting                                                                 *)

\* delete: an entry of a verified manifest; delete_trusted: a signed caller.
DeleteBegin(t, r) ==
    /\ Arrives(t)
    /\ SignedByCaller(r) \/ \E m \in Manifests :
          /\ Verified(m)
          /\ ExactEntries(m, r.version, r.resource) = {EntryOf(r)}
    /\ Begin(t, "delete", r)
    /\ UNCHANGED <<points, expired>>

DeletePoints(t) ==
    /\ task[t].op = "delete"
    /\ LET r == task[t].rev IN
       points' = Without({id \in DOMAIN points :
                     IF r.trusted THEN SameResource(points[id], r)
                     ELSE SameEntry(points[id], EntryOf(r))})
    /\ Settle(t, Gone)
    /\ UNCHANGED <<expired, requests>>

DeleteFails(t) ==
    /\ task[t].op = "delete"
    /\ Settle(t, Open)
    /\ UNCHANGED <<points, expired, requests>>

-----------------------------------------------------------------------------
(* Querying                                                                 *)

QueryBegin(t, m) ==
    /\ Arrives(t)
    /\ Verified(m)
    /\ task' = [task EXCEPT ![t] = [op |-> "query", manifest |-> m]]
    /\ UNCHANGED <<points, expired, told>>

\* The search, and the check of every point it returned.
QueryAnswer(t) ==
    /\ task[t].op = "query"
    /\ LET m == task[t].manifest IN
       \E found \in Nearest({id \in DOMAIN points : MatchesEntry(points[id], m)}) :
          answer' = IF \A id \in found : InManifest(points[id], m)
                    THEN [kind |-> "query", manifest |-> m,
                          evidence |-> {<<id, points[id]>> : id \in found}]
                    ELSE [kind |-> "refused", manifest |-> m]
    /\ task' = [task EXCEPT ![t] = Idle]
    /\ UNCHANGED <<points, expired, told, requests>>

\* query_runtime: with knowledge search off the answer is empty at once.
RuntimeBegin(t, m) ==
    /\ Arrives(t)
    /\ VerifiedRuntime(m)
    /\ task' = IF m.knowledge
               THEN [task EXCEPT ![t] = [op |-> "runtime", manifest |-> m]] ELSE task
    /\ UNCHANGED <<points, expired, told>>

RuntimeAnswer(t) ==
    /\ task[t].op = "runtime"
    /\ LET m == task[t].manifest IN
       \E found \in Nearest({id \in DOMAIN points : MatchesAllowed(points[id], m)}) :
          answer' = [kind |-> "runtime", manifest |-> m,
                     evidence |-> {<<id, points[id]>> : id \in found}]
    /\ task' = [task EXCEPT ![t] = Idle]
    /\ UNCHANGED <<points, expired, told, requests>>

Next ==
    \/ \E m \in Manifests : ExpireManifest(m)
    \/ \E t \in Tasks :
          \/ \E r \in Revisions : IndexBegin(t, r) \/ DeleteBegin(t, r)
          \/ IndexWrite(t) \/ IndexFails(t) \/ DeletePoints(t) \/ DeleteFails(t)
          \/ \E m \in Manifests : QueryBegin(t, m)
          \/ \E m \in Runtimes : RuntimeBegin(t, m)
          \/ QueryAnswer(t) \/ RuntimeAnswer(t)

Spec == Init /\ [][Next]_vars

-----------------------------------------------------------------------------
Payloads == {EntryOf(r) : r \in Revisions}

\* Every variable holds what a request or the collection can hold.
TypeOK ==
    /\ \A id \in DOMAIN points :
          points[id] \in Payloads /\ id \in IdsOf(points[id].digest)
    /\ \A t \in Tasks :
          \/ task[t] = Idle
          \/ task[t].op \in {"index", "delete"} /\ task[t].rev \in Revisions
          \/ task[t].op = "query" /\ task[t].manifest \in Manifests
          \/ task[t].op = "runtime" /\ task[t].manifest \in Runtimes
    /\ expired \subseteq Manifests
    /\ told \in [Keys -> Texts \cup {Gone, Open}]
    /\ requests \in 0..MaxRequests

OwnPlaces(text) ==
    LET pieces == ChunkText(text, ChildSize, ChildOverlap)
        places == Places(text)
    IN \A i \in DOMAIN pieces :
          /\ SubSeq(text, places[i][1] + 1, places[i][2]) = pieces[i]
          /\ i > 1 => places[i - 1][1] < places[i][1]

SamplesHaveOwnPlaces == \A text \in SampleTexts : OwnPlaces(text)

\* Pieces of one text get places of their own, in order, and each place holds
\* its piece, in the texts under way and in every sample text: no chunk of an
\* asset overwrites another (chunk_asset).
PlacesAreOwn ==
    /\ SamplesHaveOwnPlaces
    /\ \A t \in Tasks : task[t].op = "index" => OwnPlaces(task[t].rev.text)

OwnPoints(k, text) ==
    {id \in IdsOf(text) : id \in DOMAIN points /\ KeyOf(points[id]) = k}

\* A resource whose indexing was answered, with no other request on it since, is
\* in the collection whole, under its own owner and version (index, index_trusted).
IndexedIsFound ==
    \A k \in Keys : told[k] \notin {Gone, Open} => OwnPoints(k, told[k]) = IdsOf(told[k])

\* A resource whose deletion was answered, with no other request on it since, has
\* no point left, of whatever text it once was (delete, delete_trusted).
DeletedIsGone ==
    \A k \in Keys : told[k] = Gone =>
        \A id \in DOMAIN points : KeyOf(points[id]) # k

\* An answer under a manifest has points of its entries only; a runtime answer
\* has points of its owner only, each of a version that an entry names or of an
\* attachment: of no other owner, version or text, whatever was indexed, deleted
\* or indexed again in the meantime (search_assets, search_asset_versions).
AnswersStayInside ==
    CASE answer.kind = "query" ->
             \A ev \in answer.evidence : ev[2] \in Entries(answer.manifest)
      [] answer.kind = "runtime" ->
             \A ev \in answer.evidence :
                /\ ev[2].owner = answer.manifest.owner
                /\ \E e \in Entries(answer.manifest) :
                      /\ e.asset = ev[2].asset
                      /\ ev[2].version = IF e.kind = "knowledge" THEN e.version ELSE e.asset
      [] OTHER -> TRUE
=============================================================================
