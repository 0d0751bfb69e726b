--------------------------- MODULE MCIndexService ---------------------------
(* The small instances of IndexService: which mixes of disturbances each run *)
(* allows, and how many of each.                                             *)
EXTENDS IndexService

CONSTANTS r1, r2     \* model values

\* The mix with the named disturbances only.
Only(some) == [op \in Ops |-> IF op \in DOMAIN some THEN some[op] ELSE 0]

\* An operator's kill against manual and scheduled enqueues and a lapse; shutdown,
\* crash and restart around posts and a kill; and a purge among re-posts.
KillsAndStops == {Only([post |-> 2, tick |-> 1, kill |-> 1, lapse |-> 1]),
                  Only([post |-> 2, kill |-> 1, stop |-> 1, crash |-> 1]),
                  Only([post |-> 2, delete |-> 1, get |-> 1, stop |-> 1])}

\* Re-posts of a run whose lease may lapse, under status GETs, failing steps,
\* lost frames and a crash: no kill, purge or failing write, which are the ways
\* a result is known to be overwritten.
Reposts == {Only([post |-> 3, lapse |-> 1, get |-> 1, hookFail |-> 1]),
            Only([post |-> 2, lapse |-> 1, get |-> 1, crash |-> 1,
                  indexFail |-> 1])}

\* Mongo, Qdrant, the webhook and the process fail.
Failures == {Only([post |-> 2, lapse |-> 1, crash |-> 1, storeFail |-> 2,
                   hookFail |-> 1, indexFail |-> 1]),
             Only([post |-> 1, tick |-> 1, kill |-> 1, stop |-> 1,
                   storeFail |-> 1, hookFail |-> 1])}

\* Two runs: leases that lapse while a job waits; one of the two killed.
LapsesAndKills == {Only([post |-> 3, lapse |-> 1, hookFail |-> 1]),
                   Only([post |-> 2, kill |-> 1])}

\* The disturbances each disagreement needs, and no other.
OnePost       == {Only([post |-> 1])}
TwoPosts      == {Only([post |-> 2])}
PostAndKill   == {Only([post |-> 1, kill |-> 1])}
PostAndDelete == {Only([post |-> 1, delete |-> 1])}
=============================================================================
