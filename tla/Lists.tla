------------------------------- MODULE Lists -------------------------------
(***************************************************************************)
(* What the code does to lists with a comprehension or a sum.               *)
(***************************************************************************)
EXTENDS Naturals, Sequences, FiniteSets, SequencesExt

\* The members of s that are in S, in their order: SelectSeq as a recursive
\* function, which the proofs can unfold.
Filter(s, S) ==
    LET kept[n \in 0..Len(s)] ==
            IF n = 0 THEN <<>>
            ELSE IF s[n] \in S THEN Append(kept[n - 1], s[n]) ELSE kept[n - 1]
    IN kept[Len(s)]

\* The members of s that are not in X, in their order.
Dropping(s, X) ==
    FlattenSeq([i \in DOMAIN s |-> IF s[i] \in X THEN <<>> ELSE <<s[i]>>])

Total(numbers) ==
    LET sum[n \in 0..Len(numbers)] == IF n = 0 THEN 0 ELSE sum[n - 1] + numbers[n]
    IN sum[Len(numbers)]
=============================================================================
