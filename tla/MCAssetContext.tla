--------------------------- MODULE MCAssetContext ---------------------------
(***************************************************************************)
(* A small catalogue: two resources of one version, the next version of     *)
(* one of them, and another owner's asset whose text was extracted twice.   *)
(***************************************************************************)
EXTENDS AssetContext

MCTokens == {"a", "b", "x"}
MCJoined == {"x"}
MCClean  == [t \in MCTokens |-> t]

Rev(owner, asset, version, resource, text, trusted) ==
    [owner |-> owner, asset |-> asset, version |-> version, resource |-> resource,
     text |-> text, source |-> IF trusted THEN <<"s">> ELSE text,
     visibility |-> "owner", lifecycle |-> "approved", trusted |-> trusted]

Repeated == <<"a", "a", "a", "a", "a">>
Broken   == <<"a", "b", "x", "b">>

First  == Rev("o1", "a1", "v1", "r1", Repeated, FALSE)
Second == Rev("o1", "a1", "v1", "r2", <<"b">>, FALSE)
Newer  == Rev("o1", "a1", "v2", "r1", Broken, FALSE)
Old    == Rev("o2", "a2", "v3", "r3", <<"a", "b", "b", "a">>, TRUE)
Again  == Rev("o2", "a2", "v3", "r3", <<"b", "a">>, TRUE)
Note   == Rev("o2", "n1", "n1", "r4", <<"x">>, TRUE)
\* Another text for the resource of Second, in a manifest only.
Redone == Rev("o1", "a1", "v1", "r2", <<"a">>, FALSE)
\* The next version of an asset whose text did not change.
Same   == Rev("o1", "a1", "v2", "r1", Repeated, FALSE)

Signed(revs, genuine) ==
    [owner |-> "o1", genuine |-> genuine,
     entries |-> [i \in DOMAIN revs |-> EntryOf(revs[i])]]
Named(kind, asset, version) == [kind |-> kind, asset |-> asset, version |-> version]

MCRevisions == {First, Second, Newer, Old, Again, Note}
MCManifests == {Signed(<<First, Second>>, TRUE),
                Signed(<<Newer, First, Redone, Second>>, TRUE),
                Signed(<<Second>>, FALSE)}
Envelope(entries, knowledge) ==
    [owner |-> "o2", genuine |-> TRUE, knowledge |-> knowledge, entries |-> entries]
MCRuntimes  == {Envelope(<<Named("knowledge", "a2", "v3")>>, TRUE),
                Envelope(<<Named("run_attachment", "n1", "")>>, TRUE),
                Envelope(<<Named("knowledge", "a2", "v3")>>, FALSE)}

SharedRevisions == {First, Same}
SharedManifests == {Signed(<<First, Same>>, TRUE)}

MCSampleTexts == UNION {[1..n -> MCTokens] : n \in 1..5}

\* Requests differ by what they do only.
MCSymmetry == Permutations(Tasks)
=============================================================================
