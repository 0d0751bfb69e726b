-------------------------- MODULE MCIndexScheduler --------------------------
(* The small instances of IndexScheduler: which disturbances each run allows. *)
EXTENDS IndexScheduler

CONSTANTS r1, r2     \* model values

Only(some) == [op \in Ops |-> IF op \in DOMAIN some THEN some[op] ELSE 0]

\* A post by hand and a job lost against two schedulers; a crash and a failing
\* completion.
Mixes == {Only([post |-> 1, abandon |-> 1, tickFail |-> 1]),
          Only([crash |-> 1, abandon |-> 1, storeFail |-> 1])}

PostOnly == {Only([post |-> 1])}
=============================================================================
