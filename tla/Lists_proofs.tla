---------------------------- MODULE Lists_proofs ----------------------------
(***************************************************************************)
(* What the lists of Lists are, for every list: recursion over a list,      *)
(* filtering, summing and joining, and least and greatest members.          *)
(***************************************************************************)
EXTENDS Lists, WellFoundedInduction, TLAPS

-----------------------------------------------------------------------------
(* Induction and recursion over the naturals, in a form that asks for no      *)
(* operator: a property is a set of numbers, a step a function.              *)

\* Every nonempty set of naturals has a least member.
LEMMA LeastNat ==
    ASSUME NEW S \in SUBSET Nat, S # {}
    PROVE  \E n \in S : \A m \in S : n <= m
<1>. DEFINE R == OpToRel(<, Nat)
<1>1. PICK n \in S : \A m \in S : <<m, n>> \notin R
  BY NatLessThanWellFounded, WFMin
<1>2. \A m \in S : ~(m < n)
  BY <1>1 DEF OpToRel
<1>. QED
  BY <1>2

\* What holds of 0 and passes from a number to the next holds up to N.
LEMMA Upto ==
    ASSUME NEW N \in Nat, NEW S, 0 \in S,
           \A n \in 0..N : n # N /\ n \in S => n + 1 \in S
    PROVE  0..N \subseteq S
<1>. DEFINE bad == (0..N) \ S
<1>. SUFFICES ASSUME bad # {} PROVE FALSE
  OBVIOUS
<1>0. bad \in SUBSET Nat
  OBVIOUS
<1>1. PICK n \in bad : \A m \in bad : n <= m
  <2>. HIDE DEF bad
  <2>. QED
    BY <1>0, LeastNat
<1>2. n - 1 \in 0..N /\ n - 1 \notin bad /\ n - 1 # N
  BY <1>1
<1>. QED
  BY <1>1, <1>2

\* A product is no less than either factor, when the other is not zero.
LEMMA Multiple ==
    ASSUME NEW a \in Nat, NEW b \in Nat \ {0}
    PROVE  a * b \in Nat /\ a * b >= a /\ (a + 1) * b = a * b + b
<1>1. b >= 1 /\ a * b \in Nat /\ (a + 1) * b = a * b + b
  OBVIOUS
<1>2. a * b >= a * 1
  BY <1>1
<1>. QED
  BY <1>1, <1>2

\* Whether f is built from base by applying step to what it is before each number.
Builds(f, N, base, step) ==
    /\ f[0] = base
    /\ \A n \in 1..N : f[n] = step[<<f[n - 1], n>>]

\* Whether g does so as long as its values stay in A.
Follows(g, A, N, base, step) ==
    /\ g[0] = base
    /\ \A n \in 1..N : g[n - 1] \in A => g[n] = step[<<g[n - 1], n>>]

\* There is a function defined by recursion...
LEMMA Recursion ==
    ASSUME NEW A, NEW N \in Nat, NEW base \in A, NEW step \in [A \X (1..N) -> A]
    PROVE  \E f \in [0..N -> A] : Builds(f, N, base, step)
<1>. DEFINE S == {n \in 0..N : \E f \in [0..n -> A] : Builds(f, n, base, step)}
<1>1. 0 \in S
  <2>1. [k \in 0..0 |-> base] \in [0..0 -> A] /\ Builds([k \in 0..0 |-> base], 0, base, step)
    BY DEF Builds
  <2>. QED
    BY <2>1
<1>2. ASSUME NEW n \in 0..N, n # N, n \in S PROVE n + 1 \in S
  <2>1. PICK f \in [0..n -> A] : Builds(f, n, base, step)
    BY <1>2
  <2>2. n + 1 \in 1..N /\ n \in 0..n
    BY <1>2
  <2>. DEFINE g == [k \in 0..(n + 1) |-> IF k = n + 1 THEN step[<<f[n], n + 1>>] ELSE f[k]]
  <2>3. step[<<f[n], n + 1>>] \in A
    BY <2>2
  <2>4. g \in [0..(n + 1) -> A]
    BY <2>3
  <2>5. g[n + 1] = step[<<f[n], n + 1>>] /\ \A k \in 0..n : g[k] = f[k]
    BY <2>2
  <2>. HIDE DEF g
  <2>6. Builds(g, n + 1, base, step)
    <3>1. g[0] = base
      BY <2>1, <2>5 DEF Builds
    <3>2. ASSUME NEW k \in 1..(n + 1) PROVE g[k] = step[<<g[k - 1], k>>]
      <4>1. CASE k = n + 1
        BY <2>2, <2>5, <4>1
      <4>2. CASE k # n + 1
        BY <2>1, <2>5, <4>2 DEF Builds
      <4>. QED
        BY <4>1, <4>2
    <3>. QED
      BY <3>1, <3>2 DEF Builds
  <2>. QED
    BY <2>2, <2>4, <2>6
<1>3. N \in S
  <2>. HIDE DEF S
  <2>. QED
    BY <1>1, <1>2, Upto
<1>. QED
  BY <1>3

\* ... and no other.
LEMMA OnlyRecursion ==
    ASSUME NEW A, NEW N \in Nat, NEW base, NEW step, NEW f \in [0..N -> A], NEW g,
           Builds(f, N, base, step), Follows(g, A, N, base, step)
    PROVE  \A n \in 0..N : g[n] = f[n]
<1>. DEFINE S == {n \in 0..N : g[n] = f[n]}
<1>1. 0 \in S
  BY DEF Builds, Follows
<1>2. ASSUME NEW n \in 0..N, n # N, n \in S PROVE n + 1 \in S
  <2>1. n + 1 \in 1..N /\ (n + 1) - 1 = n
    BY <1>2
  <2>2. f[n] \in A /\ g[n] = f[n]
    BY <1>2
  <2>3. g[n + 1] = step[<<g[n], n + 1>>]
    BY <2>1, <2>2 DEF Follows
  <2>4. f[n + 1] = step[<<f[n], n + 1>>]
    BY <2>1 DEF Builds
  <2>. QED
    BY <2>1, <2>2, <2>3, <2>4
<1>3. 0..N \subseteq S
  <2>. HIDE DEF S
  <2>. QED
    BY <1>1, <1>2, Upto
<1>. QED
  BY <1>3

-----------------------------------------------------------------------------
(* Sequences.                                                               *)

\* What Filter keeps, one member at a time.
LEMMA FilterUnfolds ==
    ASSUME NEW A, NEW s \in Seq(A), NEW S
    PROVE  \E kept \in [0..Len(s) -> Seq(A \cap S)] :
              /\ kept[0] = <<>>
              /\ \A n \in 1..Len(s) : s[n] \in S => kept[n] = Append(kept[n - 1], s[n])
              /\ \A n \in 1..Len(s) : s[n] \notin S => kept[n] = kept[n - 1]
              /\ Filter(s, S) = kept[Len(s)]
<1>. DEFINE N == Len(s)
            T == Seq(A \cap S)
            step == [x \in T \X (1..N) |-> IF s[x[2]] \in S THEN Append(x[1], s[x[2]]) ELSE x[1]]
            K == CHOOSE kept : kept = [n \in 0..N |->
                    IF n = 0 THEN <<>>
                    ELSE IF s[n] \in S THEN Append(kept[n - 1], s[n]) ELSE kept[n - 1]]
<1>1. N \in Nat /\ <<>> \in T
  OBVIOUS
<1>2. \A x \in T, n \in 1..N :
         step[<<x, n>>] = IF s[n] \in S THEN Append(x, s[n]) ELSE x
  OBVIOUS
<1>3. step \in [T \X (1..N) -> T]
  <2>1. ASSUME NEW x \in T, NEW n \in 1..N
        PROVE  (IF s[n] \in S THEN Append(x, s[n]) ELSE x) \in T
    OBVIOUS
  <2>. QED
    BY <2>1
<1>. HIDE DEF step, T
<1>4. PICK f \in [0..N -> T] : Builds(f, N, <<>>, step)
  BY <1>1, <1>3, Recursion
<1>5. \A n \in 1..N : n - 1 \in 0..N /\ f[n - 1] \in T
  OBVIOUS
<1>6. /\ f[0] = <<>>
      /\ \A n \in 1..N : f[n] = IF s[n] \in S THEN Append(f[n - 1], s[n]) ELSE f[n - 1]
  BY <1>2, <1>4, <1>5 DEF Builds
<1>7. f = [n \in 0..N |->
              IF n = 0 THEN <<>>
              ELSE IF s[n] \in S THEN Append(f[n - 1], s[n]) ELSE f[n - 1]]
  <2>. DEFINE body(n) == IF n = 0 THEN <<>>
                         ELSE IF s[n] \in S THEN Append(f[n - 1], s[n]) ELSE f[n - 1]
  <2>1. ASSUME NEW n \in 0..N PROVE f[n] = body(n)
    <3>1. n = 0 \/ (n \in 1..N /\ n # 0)
      BY <1>1
    <3>. QED
      BY <1>6, <3>1
  <2>2. f = [n \in 0..N |-> f[n]]
    OBVIOUS
  <2>. HIDE DEF body
  <2>3. f = [n \in 0..N |-> body(n)]
    BY <2>1, <2>2
  <2>. QED
    BY <2>3 DEF body
<1>8. K = [n \in 0..N |->
              IF n = 0 THEN <<>>
              ELSE IF s[n] \in S THEN Append(K[n - 1], s[n]) ELSE K[n - 1]]
  BY <1>7
<1>9. Filter(s, S) = K[N]
  BY DEF Filter
<1>. HIDE DEF K
<1>10. Follows(K, T, N, <<>>, step)
  <2>1. K[0] = <<>>
    BY <1>1, <1>8
  <2>2. ASSUME NEW n \in 1..N, K[n - 1] \in T PROVE K[n] = step[<<K[n - 1], n>>]
    <3>1. n \in 0..N /\ n # 0
      BY <1>1
    <3>2. K[n] = IF s[n] \in S THEN Append(K[n - 1], s[n]) ELSE K[n - 1]
      BY <1>8, <3>1
    <3>. QED
      BY <1>2, <2>2, <3>2
  <2>. QED
    BY <2>1, <2>2 DEF Follows
<1>11. \A n \in 0..N : K[n] = f[n]
  <2>. HIDE DEF N
  <2>. QED
    BY <1>1, <1>4, <1>10, OnlyRecursion
<1>12. N \in 0..N
  BY <1>1
<1>13. f \in [0..N -> Seq(A \cap S)]
  BY DEF T
<1>. QED
  BY <1>6, <1>9, <1>11, <1>12, <1>13

\* Filter keeps the members that are in S, and only those.
LEMMA FilterTypes ==
    ASSUME NEW A, NEW s \in Seq(A), NEW S
    PROVE  /\ Filter(s, S) \in Seq(A \cap S)
           /\ ToSet(Filter(s, S)) = ToSet(s) \cap S
<1>. DEFINE N == Len(s)
<1>1. PICK kept \in [0..N -> Seq(A \cap S)] :
         /\ kept[0] = <<>>
         /\ \A n \in 1..N : s[n] \in S => kept[n] = Append(kept[n - 1], s[n])
         /\ \A n \in 1..N : s[n] \notin S => kept[n] = kept[n - 1]
         /\ Filter(s, S) = kept[N]
  BY FilterUnfolds
<1>2. N \in Nat /\ N \in 0..N /\ s \in [1..N -> A]
  OBVIOUS
<1>. DEFINE G == {n \in 0..N : ToSet(kept[n]) = {s[i] : i \in 1..n} \cap S}
<1>3. 0 \in G
  BY <1>1, <1>2 DEF ToSet
<1>4. ASSUME NEW n \in 0..N, n # N, n \in G PROVE n + 1 \in G
  <2>1. n + 1 \in 1..N /\ (n + 1) - 1 = n /\ n + 1 \in 0..N
    <3>. HIDE DEF G, N
    <3>. QED
      BY <1>2, <1>4
  <2>2. kept[n] \in Seq(A \cap S) /\ ToSet(kept[n]) = {s[i] : i \in 1..n} \cap S
    BY <1>4
  <2>3. {s[i] : i \in 1..(n + 1)} = {s[i] : i \in 1..n} \cup {s[n + 1]}
    <3>1. 1..(n + 1) = 1..n \cup {n + 1}
      BY <2>1
    <3>. QED
      BY <3>1
  <2>4. CASE s[n + 1] \in S
    <3>1. kept[n + 1] = Append(kept[n], s[n + 1])
      BY <1>1, <2>1, <2>4
    <3>2. s[n + 1] \in A \cap S
      BY <1>2, <2>1, <2>4
    <3>. DEFINE t == kept[n]
                x == s[n + 1]
    <3>3. t \in Seq(A \cap S) /\ x \in A \cap S
      BY <2>2, <3>2
    <3>. HIDE DEF t, x
    <3>4. ToSet(Append(t, x)) = ToSet(t) \cup {x}
      <4>1. /\ DOMAIN Append(t, x) = 1..(Len(t) + 1) /\ DOMAIN t = 1..Len(t) /\ Len(t) \in Nat
            /\ Append(t, x)[Len(t) + 1] = x /\ \A i \in 1..Len(t) : Append(t, x)[i] = t[i]
        BY <3>3
      <4>2. 1..(Len(t) + 1) = 1..Len(t) \cup {Len(t) + 1}
        BY <4>1
      <4>. QED
        BY <4>1, <4>2 DEF ToSet
    <3>. QED
      BY <2>1, <2>2, <2>3, <3>1, <3>2, <3>4 DEF t, x
  <2>5. CASE s[n + 1] \notin S
    <3>1. kept[n + 1] = kept[n]
      BY <1>1, <2>1, <2>5
    <3>. QED
      BY <2>1, <2>2, <2>3, <2>5, <3>1
  <2>. QED
    BY <2>4, <2>5
<1>5. N \in G
  <2>. HIDE DEF G
  <2>1. 0..N \subseteq G
    BY <1>2, <1>3, <1>4, Upto
  <2>. QED
    BY <1>2, <2>1
<1>6. ToSet(s) = {s[i] : i \in 1..N}
  BY <1>2 DEF ToSet
<1>. QED
  BY <1>1, <1>2, <1>5, <1>6

\* What Total sums, one number at a time.
LEMMA TotalUnfolds ==
    ASSUME NEW numbers \in Seq(Nat)
    PROVE  \E sum \in [0..Len(numbers) -> Nat] :
              /\ sum[0] = 0
              /\ \A n \in 1..Len(numbers) : sum[n] = sum[n - 1] + numbers[n]
              /\ Total(numbers) = sum[Len(numbers)]
<1>. DEFINE N == Len(numbers)
            step == [x \in Nat \X (1..N) |-> x[1] + numbers[x[2]]]
            K == CHOOSE sum : sum = [n \in 0..N |->
                    IF n = 0 THEN 0 ELSE sum[n - 1] + numbers[n]]
<1>1. N \in Nat /\ numbers \in [1..N -> Nat]
  OBVIOUS
<1>2. \A x \in Nat, n \in 1..N : step[<<x, n>>] = x + numbers[n]
  OBVIOUS
<1>3. step \in [Nat \X (1..N) -> Nat]
  BY <1>1
<1>. HIDE DEF step
<1>4. PICK f \in [0..N -> Nat] : Builds(f, N, 0, step)
  BY <1>1, <1>3, Recursion
<1>5. \A n \in 1..N : n - 1 \in 0..N /\ f[n - 1] \in Nat
  BY SMTT(30)
<1>6. f[0] = 0 /\ \A n \in 1..N : f[n] = f[n - 1] + numbers[n]
  BY <1>2, <1>4, <1>5 DEF Builds
<1>7. f = [n \in 0..N |-> IF n = 0 THEN 0 ELSE f[n - 1] + numbers[n]]
  <2>. DEFINE body(n) == IF n = 0 THEN 0 ELSE f[n - 1] + numbers[n]
  <2>1. ASSUME NEW n \in 0..N PROVE f[n] = body(n)
    <3>1. n = 0 \/ (n \in 1..N /\ n # 0)
      BY <1>1
    <3>. QED
      BY <1>6, <3>1
  <2>2. f = [n \in 0..N |-> f[n]]
    OBVIOUS
  <2>. HIDE DEF body
  <2>3. f = [n \in 0..N |-> body(n)]
    BY <2>1, <2>2
  <2>. QED
    BY <2>3 DEF body
<1>8. K = [n \in 0..N |-> IF n = 0 THEN 0 ELSE K[n - 1] + numbers[n]]
  BY <1>7
<1>9. Total(numbers) = K[N]
  BY DEF Total
<1>. HIDE DEF K
<1>10. Follows(K, Nat, N, 0, step)
  <2>1. K[0] = 0
    BY <1>1, <1>8
  <2>2. ASSUME NEW n \in 1..N, K[n - 1] \in Nat PROVE K[n] = step[<<K[n - 1], n>>]
    <3>1. n \in 0..N /\ n # 0
      BY <1>1
    <3>2. K[n] = K[n - 1] + numbers[n]
      BY <1>8, <3>1
    <3>. QED
      BY <1>2, <2>2, <3>2
  <2>. QED
    BY <2>1, <2>2 DEF Follows
<1>11. \A n \in 0..N : K[n] = f[n]
  <2>. DEFINE A == Nat
              base == 0
  <2>1. N \in Nat /\ f \in [0..N -> A]
    BY <1>1
  <2>2. Builds(f, N, base, step) /\ Follows(K, A, N, base, step)
    BY <1>4, <1>10
  <2>. HIDE DEF N, A, base
  <2>. QED
    BY <2>1, <2>2, OnlyRecursion
<1>. QED
  BY <1>1, <1>6, <1>9, <1>11

\* A function that sums the numbers one at a time ends at their total.
LEMMA TotalIs ==
    ASSUME NEW numbers \in Seq(Nat), NEW f, f[0] = 0,
           \A n \in 1..Len(numbers) : f[n] = f[n - 1] + numbers[n]
    PROVE  Total(numbers) \in Nat /\ Total(numbers) = f[Len(numbers)]
<1>. DEFINE N == Len(numbers)
<1>1. PICK sum \in [0..N -> Nat] :
         /\ sum[0] = 0
         /\ \A n \in 1..N : sum[n] = sum[n - 1] + numbers[n]
         /\ Total(numbers) = sum[N]
  BY TotalUnfolds
<1>2. N \in Nat /\ N \in 0..N
  OBVIOUS
<1>. DEFINE G == {n \in 0..N : f[n] = sum[n]}
<1>3. 0 \in G
  BY <1>1, <1>2
<1>4. ASSUME NEW n \in 0..N, n # N, n \in G PROVE n + 1 \in G
  <2>1. n + 1 \in 1..N /\ (n + 1) - 1 = n /\ n + 1 \in 0..N
    BY <1>2, <1>4
  <2>. QED
    BY <1>1, <1>4, <2>1
<1>5. 0..N \subseteq G
  <2>. HIDE DEF G
  <2>. QED
    BY <1>2, <1>3, <1>4, Upto
<1>. QED
  BY <1>1, <1>2, <1>5

\* One number more adds that number.
LEMMA TotalAppends ==
    ASSUME NEW numbers \in Seq(Nat), NEW x \in Nat
    PROVE  /\ Total(numbers) \in Nat /\ Total(<<>>) = 0
           /\ Total(Append(numbers, x)) = Total(numbers) + x
<1>. DEFINE N == Len(numbers)
            more == Append(numbers, x)
<1>1. PICK sum \in [0..N -> Nat] :
         /\ sum[0] = 0
         /\ \A n \in 1..N : sum[n] = sum[n - 1] + numbers[n]
         /\ Total(numbers) = sum[N]
  BY TotalUnfolds
<1>2. /\ N \in Nat /\ more \in Seq(Nat) /\ Len(more) = N + 1
      /\ more[N + 1] = x /\ \A n \in 1..N : more[n] = numbers[n]
  OBVIOUS
<1>. DEFINE f == [n \in 0..(N + 1) |-> IF n = N + 1 THEN sum[N] + x ELSE sum[n]]
<1>3. f[0] = 0
  BY <1>1, <1>2
<1>4. ASSUME NEW n \in 1..(N + 1) PROVE f[n] = f[n - 1] + more[n]
  <2>1. CASE n = N + 1
    <3>1. n - 1 = N /\ n - 1 # N + 1 /\ n - 1 \in 0..(N + 1) /\ n \in 0..(N + 1)
      BY <1>2, <2>1
    <3>. QED
      BY <1>2, <2>1, <3>1
  <2>2. CASE n # N + 1
    <3>1. n \in 1..N /\ n - 1 # N + 1 /\ n - 1 \in 0..(N + 1) /\ n \in 0..(N + 1)
      BY <1>2, <2>2
    <3>. QED
      BY <1>1, <1>2, <2>2, <3>1
  <2>. QED
    BY <2>1, <2>2
<1>5. f[N + 1] = sum[N] + x
  BY <1>2
<1>6. Total(more) = f[N + 1]
  <2>. HIDE DEF f, more
  <2>. QED
    BY <1>2, <1>3, <1>4, TotalIs
<1>7. Total(<<>>) = 0
  <2>1. PICK none \in [0..Len(<<>>) -> Nat] : none[0] = 0 /\ Total(<<>>) = none[Len(<<>>)]
    <3>1. <<>> \in Seq(Nat)
      OBVIOUS
    <3>. QED
      BY <3>1, TotalUnfolds
  <2>. QED
    BY <2>1
<1>. QED
  BY <1>1, <1>2, <1>5, <1>6, <1>7

\* What FlattenSeq joins, one sequence at a time.
LEMMA FlattenUnfolds ==
    ASSUME NEW A, NEW seqs \in Seq(Seq(A))
    PROVE  \E flat \in [0..Len(seqs) -> Seq(A)] :
              /\ flat[0] = <<>>
              /\ \A n \in 1..Len(seqs) : flat[n] = flat[n - 1] \o seqs[n]
              /\ FlattenSeq(seqs) = flat[Len(seqs)]
<1>. DEFINE N == Len(seqs)
            T == Seq(A)
            step == [x \in T \X (1..N) |-> x[1] \o seqs[x[2]]]
            K == CHOOSE flatten : flatten = [i \in 1..N |->
                    IF i = 1 THEN seqs[i] ELSE flatten[i - 1] \o seqs[i]]
<1>1. N \in Nat /\ <<>> \in T /\ seqs \in [1..N -> T]
  OBVIOUS
<1>2. \A x \in T, n \in 1..N : step[<<x, n>>] = x \o seqs[n]
  OBVIOUS
<1>3. step \in [T \X (1..N) -> T]
  <2>1. ASSUME NEW x \in T, NEW n \in 1..N PROVE x \o seqs[n] \in T
    BY <1>1
  <2>. QED
    BY <2>1
<1>. HIDE DEF step
<1>4. PICK f \in [0..N -> T] : Builds(f, N, <<>>, step)
  <2>. HIDE DEF T
  <2>. QED
    BY <1>1, <1>3, Recursion
<1>5. \A n \in 1..N : n - 1 \in 0..N /\ f[n - 1] \in T
  <2>. HIDE DEF T, N
  <2>. QED
    BY <1>1
<1>6. f[0] = <<>> /\ \A n \in 1..N : f[n] = f[n - 1] \o seqs[n]
  <2>. HIDE DEF T
  <2>. QED
    BY <1>2, <1>4, <1>5 DEF Builds
<1>7. \A n \in 1..N : n = 1 => f[n] = seqs[n]
  <2>1. \A x \in T : <<>> \o x = x
    OBVIOUS
  <2>. HIDE DEF T, N
  <2>2. 1 \in 1..N => f[1] = f[0] \o seqs[1]
    <3>1. 1 - 1 = 0
      OBVIOUS
    <3>. QED
      BY <1>6, <3>1
  <2>. QED
    BY <1>1, <1>6, <2>1, <2>2
<1>8. CASE N = 0
  BY <1>1, <1>6, <1>8 DEF FlattenSeq
<1>9. CASE N # 0
  <2>. DEFINE g == [n \in 1..N |-> f[n]]
  <2>1. g = [n \in 1..N |-> IF n = 1 THEN seqs[n] ELSE g[n - 1] \o seqs[n]]
    <3>. DEFINE body(n) == IF n = 1 THEN seqs[n] ELSE g[n - 1] \o seqs[n]
    <3>1. ASSUME NEW n \in 1..N PROVE f[n] = body(n)
      <4>1. CASE n = 1
        BY <1>7, <4>1
      <4>2. CASE n # 1
        <5>1. n - 1 \in 1..N
          BY <1>1, <4>2
        <5>2. g[n - 1] = f[n - 1]
          BY <5>1
        <5>. QED
          BY <1>6, <4>2, <5>2
      <4>. QED
        BY <4>1, <4>2
    <3>. HIDE DEF body
    <3>2. g = [n \in 1..N |-> body(n)]
      BY <3>1
    <3>. QED
      BY <3>2 DEF body
  <2>2. K = [n \in 1..N |-> IF n = 1 THEN seqs[n] ELSE K[n - 1] \o seqs[n]]
    BY <2>1
  <2>3. FlattenSeq(seqs) = K[N]
    BY <1>9 DEF FlattenSeq
  <2>. HIDE DEF K
  <2>. DEFINE G == {n \in 0..N : n = 0 \/ K[n] = f[n]}
  <2>4. 0 \in G
    BY <1>1
  <2>5. ASSUME NEW n \in 0..N, n # N, n \in G PROVE n + 1 \in G
    <3>1. n + 1 \in 1..N /\ (n + 1) - 1 = n /\ n + 1 \in 0..N
      <4>. HIDE DEF G, N
      <4>. QED
        BY <1>1, <2>5
    <3>2. CASE n = 0
      <4>1. K[1] = seqs[1]
        BY <2>2, <3>1, <3>2
      <4>. QED
        BY <1>7, <3>1, <3>2, <4>1
    <3>3. CASE n # 0
      <4>1. n + 1 # 1
        BY <3>3
      <4>2. K[n + 1] = K[n] \o seqs[n + 1]
        BY <2>2, <3>1, <4>1
      <4>3. K[n] = f[n]
        BY <2>5, <3>3
      <4>4. f[n + 1] = f[n] \o seqs[n + 1]
        BY <1>6, <3>1
      <4>. QED
        BY <3>1, <4>2, <4>3, <4>4
    <3>. QED
      BY <3>2, <3>3
  <2>6. 0..N \subseteq G
    <3>. HIDE DEF G
    <3>. QED
      BY <1>1, <2>4, <2>5, Upto
  <2>7. K[N] = f[N]
    BY <1>1, <1>9, <2>6, SMTT(30)
  <2>. QED
    BY <1>6, <2>3, <2>7
<1>. QED
  BY <1>8, <1>9

\* A function that joins the sequences one at a time ends at all of them joined.
LEMMA FlattenIs ==
    ASSUME NEW A, NEW seqs \in Seq(Seq(A)), NEW f, f[0] = <<>>,
           \A n \in 1..Len(seqs) : f[n] = f[n - 1] \o seqs[n]
    PROVE  FlattenSeq(seqs) \in Seq(A) /\ FlattenSeq(seqs) = f[Len(seqs)]
<1>. DEFINE N == Len(seqs)
<1>1. PICK flat \in [0..N -> Seq(A)] :
         /\ flat[0] = <<>>
         /\ \A n \in 1..N : flat[n] = flat[n - 1] \o seqs[n]
         /\ FlattenSeq(seqs) = flat[N]
  BY FlattenUnfolds
<1>2. N \in Nat /\ N \in 0..N
  OBVIOUS
<1>. DEFINE G == {n \in 0..N : f[n] = flat[n]}
<1>3. 0 \in G
  BY <1>1, <1>2
<1>4. ASSUME NEW n \in 0..N, n # N, n \in G PROVE n + 1 \in G
  <2>1. n + 1 \in 1..N /\ (n + 1) - 1 = n /\ n + 1 \in 0..N
    BY <1>2, <1>4
  <2>2. f[n + 1] = f[n] \o seqs[n + 1]
    BY <2>1
  <2>. QED
    BY <1>1, <1>4, <2>1, <2>2
<1>5. 0..N \subseteq G
  <2>. HIDE DEF G
  <2>. QED
    BY <1>2, <1>3, <1>4, Upto
<1>. QED
  BY <1>1, <1>2, <1>5

\* Joining is a homomorphism.
LEMMA FlattenConcat ==
    ASSUME NEW A, NEW s \in Seq(Seq(A)), NEW t \in Seq(Seq(A))
    PROVE  /\ FlattenSeq(s) \in Seq(A)
           /\ FlattenSeq(s \o t) = FlattenSeq(s) \o FlattenSeq(t)
<1>. DEFINE M == Len(s)
            N == Len(t)
            T == Seq(A)
            both == s \o t
<1>1. PICK f \in [0..M -> T] :
         /\ f[0] = <<>>
         /\ \A n \in 1..M : f[n] = f[n - 1] \o s[n]
         /\ FlattenSeq(s) = f[M]
  BY FlattenUnfolds
<1>2. PICK g \in [0..N -> T] :
         /\ g[0] = <<>>
         /\ \A n \in 1..N : g[n] = g[n - 1] \o t[n]
         /\ FlattenSeq(t) = g[N]
  BY FlattenUnfolds
<1>3. M \in Nat /\ N \in Nat /\ s \in [1..M -> T] /\ t \in [1..N -> T]
  OBVIOUS
<1>4. /\ both \in Seq(T) /\ Len(both) = M + N
      /\ \A n \in 1..M : both[n] = s[n]
      /\ \A n \in 1..N : both[M + n] = t[n]
  OBVIOUS
<1>5. \A x, y, z \in T : x \o (y \o z) = (x \o y) \o z
  OBVIOUS
<1>6. \A x \in T : x \o <<>> = x
  OBVIOUS
<1>. DEFINE h == [n \in 0..(M + N) |-> IF n <= M THEN f[n] ELSE f[M] \o g[n - M]]
<1>7. h[0] = <<>>
  BY <1>1, <1>3
<1>8. ASSUME NEW n \in 1..(M + N) PROVE h[n] = h[n - 1] \o both[n]
  <2>1. n - 1 \in 0..(M + N) /\ n \in 0..(M + N)
    BY <1>3
  <2>2. CASE n <= M
    <3>1. n \in 1..M /\ n - 1 <= M
      BY <1>3, <2>2
    <3>2. h[n] = f[n] /\ h[n - 1] = f[n - 1]
      BY <2>1, <2>2, <3>1
    <3>. HIDE DEF h, both, T
    <3>. QED
      BY <1>1, <1>4, <3>1, <3>2
  <2>3. CASE n > M
    <3>. DEFINE k == n - M
    <3>1. k \in 1..N /\ n = M + k /\ k - 1 \in 0..N /\ ~(n <= M) /\ k \in 0..N
      BY <1>3, <2>3
    <3>2. h[n] = f[M] \o g[k]
      BY <2>1, <3>1
    <3>3. h[n - 1] = f[M] \o g[k - 1]
      <4>1. CASE n - 1 <= M
        <5>1. n - 1 = M /\ k - 1 = 0
          BY <1>3, <2>3, <4>1
        <5>2. h[n - 1] = f[M] /\ M \in 0..M
          BY <1>3, <2>1, <5>1
        <5>3. f[M] \in T
          <6>. HIDE DEF T
          <6>. QED
            BY <5>2
        <5>. HIDE DEF T, h
        <5>. QED
          BY <1>2, <1>6, <5>1, <5>2, <5>3
      <4>2. CASE ~(n - 1 <= M)
        <5>1. (n - 1) - M = k - 1
          BY <1>3
        <5>. QED
          BY <2>1, <4>2, <5>1
      <4>. QED
        BY <4>1, <4>2
    <3>4. g[k] = g[k - 1] \o t[k] /\ both[n] = t[k]
      BY <1>2, <1>4, <3>1
    <3>. HIDE DEF h, both, T, k, M, N
    <3>5. f[M] \in T /\ g[k - 1] \in T /\ t[k] \in T
      <4>1. M \in 0..M
        BY <1>3
      <4>. QED
        BY <1>3, <3>1, <4>1
    <3>6. f[M] \o (g[k - 1] \o t[k]) = (f[M] \o g[k - 1]) \o t[k]
      BY <1>5, <3>5
    <3>. QED
      BY <3>2, <3>3, <3>4, <3>6, Zenon
  <2>4. n <= M \/ n > M
    BY <1>3
  <2>. QED
    BY <2>2, <2>3, <2>4, Zenon
<1>9. h[M + N] = f[M] \o g[N]
  <2>1. CASE N = 0
    <3>1. M + N <= M /\ M + N \in 0..(M + N) /\ M \in 0..M /\ M + N = M
      BY <1>3, <2>1
    <3>2. h[M + N] = f[M]
      BY <3>1
    <3>. QED
      BY <1>2, <1>6, <2>1, <3>1, <3>2
  <2>2. CASE N # 0
    <3>1. ~(M + N <= M) /\ M + N \in 0..(M + N) /\ (M + N) - M = N
      BY <1>3, <2>2
    <3>. QED
      BY <3>1
  <2>. QED
    BY <2>1, <2>2
<1>10. FlattenSeq(both) = h[M + N]
  <2>. HIDE DEF h, both
  <2>1. \A n \in 1..Len(both) : h[n] = h[n - 1] \o both[n]
    BY <1>4, <1>8
  <2>. QED
    BY <1>4, <1>7, <2>1, FlattenIs
<1>11. f[M] \in T
  BY <1>3
<1>. QED
  BY <1>1, <1>2, <1>9, <1>10, <1>11

\* One sequence flattens to itself.
LEMMA FlattenOne ==
    ASSUME NEW A, NEW x \in Seq(A)
    PROVE  FlattenSeq(<<x>>) = x /\ FlattenSeq(<<>>) = <<>>
  BY DEF FlattenSeq

\* Sequences over a set flatten to a sequence over that set.
LEMMA FlattenTypes ==
    ASSUME NEW A, NEW seqs \in Seq(Seq(A))
    PROVE  FlattenSeq(seqs) \in Seq(A)
<1>1. <<>> \in Seq(Seq(A))
  OBVIOUS
<1>. QED
  BY <1>1, FlattenConcat

-----------------------------------------------------------------------------
(* Members dropped from a sequence.                                         *)

\* What is before the i-th member, and what is after it.
Before(s, i) == [k \in 1..(i - 1) |-> s[k]]
After(s, i) == [k \in 1..(Len(s) - i) |-> s[i + k]]

\* A sequence is what is before a member, the member, and what is after it.
LEMMA Around ==
    ASSUME NEW A, NEW s \in Seq(A), NEW i \in 1..Len(s)
    PROVE  /\ Before(s, i) \in Seq(A) /\ After(s, i) \in Seq(A)
           /\ s = (Before(s, i) \o <<s[i]>>) \o After(s, i)
<1>. DEFINE N == Len(s)
            a == [k \in 1..(i - 1) |-> s[k]]
            b == [k \in 1..(N - i) |-> s[i + k]]
<1>1. N \in Nat /\ i \in 1..N /\ s \in [1..N -> A]
  OBVIOUS
<1>2. i - 1 \in Nat /\ N - i \in Nat
  BY <1>1
<1>3. a \in Seq(A) /\ Len(a) = i - 1
  BY <1>1, <1>2
<1>4. b \in Seq(A) /\ Len(b) = N - i
  BY <1>1, <1>2
<1>5. (a \o <<s[i]>>) \in Seq(A) /\ Len(a \o <<s[i]>>) = i
  <2>1. <<s[i]>> \in Seq(A) /\ Len(<<s[i]>>) = 1
    BY <1>1
  <2>. HIDE DEF a
  <2>. QED
    BY <1>1, <1>3, <2>1
<1>6. (a \o <<s[i]>>) \o b \in Seq(A) /\ Len((a \o <<s[i]>>) \o b) = N
  BY <1>1, <1>4, <1>5
<1>7. ASSUME NEW k \in 1..N PROVE ((a \o <<s[i]>>) \o b)[k] = s[k]
  <2>1. CASE k < i
    <3>1. k \in 1..(i - 1)
      BY <1>1, <2>1
    <3>2. a[k] = s[k]
      BY <3>1
    <3>. HIDE DEF a, b
    <3>. QED
      BY <1>1, <1>3, <1>4, <1>5, <3>1, <3>2
  <2>2. CASE k = i
    <3>. HIDE DEF a, b
    <3>. QED
      BY <1>1, <1>3, <1>4, <1>5, <2>2
  <2>3. CASE k > i
    <3>1. k - i \in 1..(N - i)
      BY <1>1, <2>3
    <3>2. b[k - i] = s[k]
      BY <1>1, <3>1
    <3>. HIDE DEF a, b
    <3>. QED
      BY <1>1, <1>3, <1>4, <1>5, <2>3, <3>1, <3>2
  <2>. QED
    BY <1>1, <2>1, <2>2, <2>3
<1>8. s = (a \o <<s[i]>>) \o b
  <2>. DEFINE t == (a \o <<s[i]>>) \o b
  <2>1. t \in Seq(A) /\ Len(t) = N /\ \A k \in 1..N : t[k] = s[k]
    BY <1>6, <1>7
  <2>. HIDE DEF t
  <2>2. t = s
    BY <1>1, <2>1
  <2>. QED
    BY <2>2 DEF t
<1>. QED
  BY <1>3, <1>4, <1>8 DEF Before, After

\* What is flattened is there as a piece.
LEMMA FlattenPart ==
    ASSUME NEW A, NEW T, T = Seq(A), NEW seqs \in Seq(T), NEW i \in 1..Len(seqs)
    PROVE  \E a, b \in Seq(A) : FlattenSeq(seqs) = (a \o seqs[i]) \o b
<1>1. PICK s \in Seq(T), t \in Seq(T) : seqs = (s \o <<seqs[i]>>) \o t
  <2>1. Before(seqs, i) \in Seq(T) /\ After(seqs, i) \in Seq(T)
        /\ seqs = (Before(seqs, i) \o <<seqs[i]>>) \o After(seqs, i)
    BY Around
  <2>. QED
    BY <2>1
<1>2. seqs[i] \in T /\ <<seqs[i]>> \in Seq(T) /\ s \o <<seqs[i]>> \in Seq(T)
  OBVIOUS
<1>3. FlattenSeq(<<seqs[i]>>) = seqs[i]
  BY <1>2, FlattenOne
<1>4. FlattenSeq(s \o <<seqs[i]>>) = FlattenSeq(s) \o seqs[i]
  BY <1>2, <1>3, FlattenConcat
<1>5. FlattenSeq(seqs) = (FlattenSeq(s) \o seqs[i]) \o FlattenSeq(t)
  BY <1>1, <1>2, <1>4, FlattenConcat
<1>6. FlattenSeq(s) \in T /\ FlattenSeq(t) \in T
  BY FlattenTypes
<1>. QED
  BY <1>5, <1>6

\* What is left of each member.
LEMMA DroppingPieces ==
    ASSUME NEW A, NEW s \in Seq(A), NEW X
    PROVE  /\ [i \in DOMAIN s |-> IF s[i] \in X THEN <<>> ELSE <<s[i]>>] \in Seq(Seq(A \ X))
           /\ Dropping(s, X) \in Seq(A \ X) /\ Dropping(s, X) \in Seq(A)
<1>. DEFINE pieces == [i \in DOMAIN s |-> IF s[i] \in X THEN <<>> ELSE <<s[i]>>]
<1>1. DOMAIN s = 1..Len(s) /\ Len(s) \in Nat
  OBVIOUS
<1>2. ASSUME NEW i \in DOMAIN s PROVE pieces[i] \in Seq(A \ X)
  <2>1. s[i] \notin X => <<s[i]>> \in Seq(A \ X)
    OBVIOUS
  <2>2. <<>> \in Seq(A \ X)
    OBVIOUS
  <2>. QED
    BY <2>1, <2>2
<1>3. pieces \in Seq(Seq(A \ X))
  BY <1>1, <1>2
<1>4. Dropping(s, X) \in Seq(A \ X)
  <2>1. FlattenSeq(pieces) \in Seq(A \ X)
    <3>. HIDE DEF pieces
    <3>. QED
      BY <1>3, FlattenTypes
  <2>. QED
    BY <2>1 DEF Dropping
<1>5. \A t \in Seq(A \ X) : t \in Seq(A)
  OBVIOUS
<1>. QED
  BY <1>3, <1>4, <1>5

LEMMA DroppingOne ==
    ASSUME NEW x, NEW X
    PROVE  /\ x \in X => Dropping(<<x>>, X) = <<>>
           /\ x \notin X => Dropping(<<x>>, X) = <<x>>
           /\ Dropping(<<>>, X) = <<>>
<1>. DEFINE p == IF x \in X THEN <<>> ELSE <<x>>
<1>1. [i \in DOMAIN <<x>> |-> IF <<x>>[i] \in X THEN <<>> ELSE <<(<<x>>[i])>>] = <<p>>
  OBVIOUS
<1>2. p \in Seq({x})
  <2>1. <<x>> \in Seq({x}) /\ <<>> \in Seq({x})
    OBVIOUS
  <2>. QED
    BY <2>1
<1>3. FlattenSeq(<<p>>) = p
  BY <1>2, FlattenOne
<1>4. Dropping(<<x>>, X) = p
  BY <1>1, <1>3 DEF Dropping
<1>5. [i \in DOMAIN <<>> |-> IF <<>>[i] \in X THEN <<>> ELSE <<(<<>>[i])>>] = <<>>
  OBVIOUS
<1>6. Dropping(<<>>, X) = <<>>
  <2>1. FlattenSeq(<<>>) = <<>>
    BY <1>2, FlattenOne
  <2>. QED
    BY <1>5, <2>1 DEF Dropping
<1>. QED
  BY <1>4, <1>6

\* Dropping is a homomorphism.
LEMMA DroppingConcat ==
    ASSUME NEW A, NEW s \in Seq(A), NEW t \in Seq(A), NEW X
    PROVE  Dropping(s \o t, X) = Dropping(s, X) \o Dropping(t, X)
<1>. DEFINE of(u) == [i \in DOMAIN u |-> IF u[i] \in X THEN <<>> ELSE <<u[i]>>]
            both == s \o t
<1>1. both \in Seq(A) /\ Len(both) = Len(s) + Len(t)
      /\ (\A i \in 1..Len(s) : both[i] = s[i]) /\ (\A i \in 1..Len(t) : both[Len(s) + i] = t[i])
  OBVIOUS
<1>2. of(s) \in Seq(Seq(A \ X)) /\ of(t) \in Seq(Seq(A \ X)) /\ of(both) \in Seq(Seq(A \ X))
  <2>. HIDE DEF both
  <2>. QED
    BY <1>1, DroppingPieces
<1>3. of(both) = of(s) \o of(t)
  <2>1. /\ Len(of(s)) = Len(s) /\ Len(of(t)) = Len(t) /\ Len(of(both)) = Len(both)
        /\ Len(s) \in Nat /\ Len(t) \in Nat
    BY <1>1
  <2>2. \A i \in 1..Len(s) : of(both)[i] = of(s)[i]
    BY <1>1
  <2>3. \A i \in 1..Len(t) : of(both)[Len(s) + i] = of(t)[i]
    BY <1>1
  <2>. DEFINE u == of(s)
              v == of(t)
              w == of(both)
  <2>4. /\ u \in Seq(Seq(A \ X)) /\ v \in Seq(Seq(A \ X)) /\ w \in Seq(Seq(A \ X))
        /\ Len(w) = Len(u) + Len(v)
        /\ \A i \in 1..Len(u) : w[i] = u[i]
        /\ \A i \in 1..Len(v) : w[Len(u) + i] = v[i]
    BY <1>1, <1>2, <2>1, <2>2, <2>3
  <2>. HIDE DEF u, v, w, both
  <2>5. w = u \o v
    <3>1. u \o v \in Seq(Seq(A \ X)) /\ Len(u \o v) = Len(u) + Len(v)
          /\ Len(u) \in Nat /\ Len(v) \in Nat
      BY <2>4
    <3>2. ASSUME NEW i \in 1..Len(w) PROVE w[i] = (u \o v)[i]
      <4>1. CASE i <= Len(u)
        <5>1. (u \o v)[i] = u[i] /\ i \in 1..Len(u)
          BY <2>4, <3>1, <4>1
        <5>. QED
          BY <2>4, <5>1
      <4>2. CASE i > Len(u)
        <5>1. i - Len(u) \in 1..Len(v) /\ i = Len(u) + (i - Len(u))
          BY <2>4, <3>1, <4>2
        <5>2. (u \o v)[i] = v[i - Len(u)]
          BY <2>4, <3>1, <4>2
        <5>. QED
          BY <2>4, <5>1, <5>2
      <4>. QED
        BY <2>4, <4>1, <4>2, <3>1
    <3>3. w \in Seq(Seq(A \ X)) /\ u \o v \in Seq(Seq(A \ X)) /\ Len(w) = Len(u \o v)
      BY <2>4, <3>1
    <3>. DEFINE x == u \o v
    <3>4. w \in Seq(Seq(A \ X)) /\ x \in Seq(Seq(A \ X)) /\ Len(w) = Len(x)
          /\ \A i \in 1..Len(w) : w[i] = x[i]
      BY <3>2, <3>3
    <3>. HIDE DEF x
    <3>5. w = x
      BY <3>4
    <3>. QED
      BY <3>5 DEF x
  <2>. QED
    BY <2>5 DEF u, v, w, both
<1>4. FlattenSeq(of(both)) = FlattenSeq(of(s)) \o FlattenSeq(of(t))
  <2>. HIDE DEF of, both
  <2>. QED
    BY <1>2, <1>3, FlattenConcat
<1>. QED
  BY <1>4 DEF Dropping

\* To drop from what is flattened is to flatten what is left of each.
LEMMA DroppingFlatten ==
    ASSUME NEW A, NEW seqs \in Seq(Seq(A)), NEW X
    PROVE  /\ [i \in DOMAIN seqs |-> Dropping(seqs[i], X)] \in Seq(Seq(A))
           /\ Dropping(FlattenSeq(seqs), X) = FlattenSeq([i \in DOMAIN seqs |-> Dropping(seqs[i], X)])
<1>. DEFINE N == Len(seqs)
            left == [i \in DOMAIN seqs |-> Dropping(seqs[i], X)]
<1>1. DOMAIN seqs = 1..N /\ N \in Nat /\ \A i \in 1..N : seqs[i] \in Seq(A)
  OBVIOUS
<1>2. left \in Seq(Seq(A)) /\ Len(left) = N /\ \A i \in 1..N : left[i] = Dropping(seqs[i], X)
  <2>1. \A i \in 1..N : Dropping(seqs[i], X) \in Seq(A)
    BY <1>1, DroppingPieces
  <2>. QED
    BY <1>1, <2>1
<1>0. \A p, q \in Seq(A) : Dropping(p \o q, X) = Dropping(p, X) \o Dropping(q, X)
  BY DroppingConcat
<1>3. PICK flat \in [0..N -> Seq(A)] :
         /\ flat[0] = <<>>
         /\ \A n \in 1..N : flat[n] = flat[n - 1] \o seqs[n]
         /\ FlattenSeq(seqs) = flat[N]
  BY FlattenUnfolds
<1>. DEFINE f == [n \in 0..N |-> Dropping(flat[n], X)]
<1>4. f[0] = <<>>
  <2>1. Dropping(<<>>, X) = <<>>
    BY DroppingOne
  <2>. QED
    BY <1>1, <1>3, <2>1
<1>5. ASSUME NEW n \in 1..N PROVE f[n] = f[n - 1] \o left[n]
  <2>1. n \in 0..N /\ n - 1 \in 0..N
    BY <1>1
  <2>2. flat[n - 1] \in Seq(A) /\ seqs[n] \in Seq(A) /\ flat[n] = flat[n - 1] \o seqs[n]
    BY <1>1, <1>3, <2>1
  <2>3. Dropping(flat[n], X) = Dropping(flat[n - 1], X) \o Dropping(seqs[n], X)
    BY <1>0, <2>2
  <2>. HIDE DEF left
  <2>. QED
    BY <1>2, <2>1, <2>3
<1>6. FlattenSeq(left) = f[N]
  <2>. HIDE DEF f, left
  <2>. QED
    BY <1>2, <1>4, <1>5, FlattenIs
<1>7. f[N] = Dropping(flat[N], X)
  BY <1>1
<1>. QED
  BY <1>2, <1>3, <1>6, <1>7

\* What is left of each alike, what is left of them flattened is alike.
LEMMA DroppingAlike ==
    ASSUME NEW A, NEW s \in Seq(Seq(A)), NEW t \in Seq(Seq(A)), NEW X, Len(s) = Len(t),
           \A i \in DOMAIN s : Dropping(s[i], X) = Dropping(t[i], X)
    PROVE  Dropping(FlattenSeq(s), X) = Dropping(FlattenSeq(t), X)
<1>1. DOMAIN s = DOMAIN t
  OBVIOUS
<1>2. [i \in DOMAIN s |-> Dropping(s[i], X)] = [i \in DOMAIN t |-> Dropping(t[i], X)]
  BY <1>1
<1>3. /\ Dropping(FlattenSeq(s), X) = FlattenSeq([i \in DOMAIN s |-> Dropping(s[i], X)])
      /\ Dropping(FlattenSeq(t), X) = FlattenSeq([i \in DOMAIN t |-> Dropping(t[i], X)])
  BY DroppingFlatten
<1>. QED
  BY <1>2, <1>3

\* To drop some and then more is to drop those.
LEMMA DroppingAgain ==
    ASSUME NEW A, NEW s \in Seq(A), NEW X, NEW Y, X \subseteq Y
    PROVE  Dropping(Dropping(s, X), Y) = Dropping(s, Y)
<1>. DEFINE pieces == [i \in DOMAIN s |-> IF s[i] \in X THEN <<>> ELSE <<s[i]>>]
            left == [i \in DOMAIN s |-> IF s[i] \in Y THEN <<>> ELSE <<s[i]>>]
<1>1. pieces \in Seq(Seq(A)) /\ DOMAIN pieces = DOMAIN s
  <2>1. DOMAIN s = 1..Len(s) /\ Len(s) \in Nat
    OBVIOUS
  <2>2. \A i \in DOMAIN s : pieces[i] \in Seq(A)
    OBVIOUS
  <2>. QED
    BY <2>1, <2>2
<1>2. ASSUME NEW i \in DOMAIN s PROVE Dropping(pieces[i], Y) = left[i]
  BY DroppingOne
<1>3. [i \in DOMAIN pieces |-> Dropping(pieces[i], Y)] = left
  BY <1>1, <1>2
<1>4. Dropping(FlattenSeq(pieces), Y) = FlattenSeq([i \in DOMAIN pieces |-> Dropping(pieces[i], Y)])
  <2>. HIDE DEF pieces
  <2>. QED
    BY <1>1, DroppingFlatten
<1>. QED
  BY <1>3, <1>4 DEF Dropping

\* What is not dropped is left.
LEMMA DroppingLeaves ==
    ASSUME NEW A, NEW s \in Seq(A), NEW X, NEW i \in 1..Len(s), s[i] \notin X
    PROVE  Dropping(s, X) # <<>>
<1>0. \A p, q \in Seq(A) : Dropping(p \o q, X) = Dropping(p, X) \o Dropping(q, X)
  BY DroppingConcat
<1>1. PICK a \in Seq(A), b \in Seq(A) : s = (a \o <<s[i]>>) \o b
  <2>1. Before(s, i) \in Seq(A) /\ After(s, i) \in Seq(A)
        /\ s = (Before(s, i) \o <<s[i]>>) \o After(s, i)
    BY Around
  <2>. QED
    BY <2>1
<1>2. s[i] \in A /\ <<s[i]>> \in Seq(A) /\ a \o <<s[i]>> \in Seq(A)
  OBVIOUS
<1>3. Dropping(s, X) = (Dropping(a, X) \o <<s[i]>>) \o Dropping(b, X)
  <2>2. Dropping(<<s[i]>>, X) = <<s[i]>>
    BY DroppingOne
  <2>3. Dropping(a \o <<s[i]>>, X) = Dropping(a, X) \o <<s[i]>>
    BY <1>0, <1>2, <2>2, ZenonT(40)
  <2>4. Dropping((a \o <<s[i]>>) \o b, X) = Dropping(a \o <<s[i]>>, X) \o Dropping(b, X)
    BY <1>0, <1>2
  <2>. QED
    BY <1>1, <2>3, <2>4
<1>4. Dropping(a, X) \in Seq(A) /\ Dropping(b, X) \in Seq(A)
  BY DroppingPieces
<1>5. ASSUME NEW p \in Seq(A), NEW q \in Seq(A) PROVE Len((p \o <<s[i]>>) \o q) # 0
  BY <1>2
<1>6. Len(Dropping(s, X)) # 0
  BY <1>3, <1>4, <1>5
<1>. QED
  BY <1>6

\* A function on the first N numbers is a sequence of N.
LEMMA OfLength ==
    ASSUME NEW T, NEW N \in Nat, NEW f \in [1..N -> T]
    PROVE  f \in Seq(T) /\ Len(f) = N /\ DOMAIN f = 1..N
OBVIOUS

\* A sequence with one more at its end.
LEMMA OneMore ==
    ASSUME NEW T, NEW N \in Nat, NEW p \in Seq(T), Len(p) = N, NEW x \in T, NEW r, r = p \o <<x>>
    PROVE  /\ r = [i \in 1..(N + 1) |-> r[i]]
           /\ \A i \in 1..N : r[i] = p[i]
           /\ r[N + 1] = x
<1>1. r \in Seq(T) /\ Len(r) = N + 1
  OBVIOUS
<1>2. (\A i \in 1..N : r[i] = p[i]) /\ r[N + 1] = x
  OBVIOUS
<1>. QED
  BY <1>1, <1>2

\* A sequence grows by its members.
LEMMA BeforeGrows ==
    ASSUME NEW A, NEW s \in Seq(A)
    PROVE  /\ Before(s, 1) = <<>> /\ Before(s, Len(s) + 1) = s
           /\ \A n \in 1..Len(s) : /\ Before(s, n) \in Seq(A) /\ Len(Before(s, n)) = n - 1
                                   /\ Before(s, n + 1) = Before(s, n) \o <<s[n]>>
<1>. DEFINE N == Len(s)
<1>1. N \in Nat /\ DOMAIN s = 1..N /\ s \in [1..N -> A]
  OBVIOUS
<1>2. ASSUME NEW n \in 1..N
      PROVE  /\ Before(s, n) \in Seq(A) /\ Len(Before(s, n)) = n - 1
             /\ Before(s, n + 1) = Before(s, n) \o <<s[n]>>
  <2>. DEFINE p == [k \in 1..(n - 1) |-> s[k]]
              q == [k \in 1..n |-> s[k]]
              r == p \o <<s[n]>>
  <2>1. Before(s, n) = p
    BY DEF Before
  <2>2. Before(s, n + 1) = q
    <3>1. (n + 1) - 1 = n
      BY <1>1
    <3>. QED
      BY <3>1 DEF Before
  <2>3. p \in Seq(A) /\ Len(p) = n - 1
    BY <1>1
  <2>4. q \in Seq(A) /\ Len(q) = n
    BY <1>1
  <2>5. r \in Seq(A) /\ Len(r) = n /\ r[n] = s[n] /\ \A k \in 1..(n - 1) : r[k] = p[k]
    <3>1. <<s[n]>> \in Seq(A) /\ Len(<<s[n]>>) = 1
      BY <1>1
    <3>. HIDE DEF p
    <3>. QED
      BY <2>3, <3>1
  <2>6. ASSUME NEW k \in 1..n PROVE r[k] = q[k]
    <3>1. CASE k = n
      BY <2>5, <3>1
    <3>2. CASE k # n
      <4>1. k \in 1..(n - 1)
        BY <3>2
      <4>2. p[k] = s[k] /\ q[k] = s[k]
        BY <4>1
      <4>. HIDE DEF r, p, q
      <4>. QED
        BY <2>5, <4>1, <4>2
    <3>. QED
      BY <3>1, <3>2
  <2>7. r = q
    <3>. HIDE DEF r, q
    <3>. QED
      BY <2>4, <2>5, <2>6
  <2>. QED
    BY <2>1, <2>2, <2>3, <2>7
<1>3. Before(s, 1) = <<>>
  BY DEF Before
<1>4. Before(s, N + 1) = s
  BY <1>1 DEF Before
<1>. QED
  BY <1>2, <1>3, <1>4

\* Single members flatten to the sequence of them.
LEMMA FlattenSingles ==
    ASSUME NEW A, NEW s \in Seq(A)
    PROVE  FlattenSeq([i \in DOMAIN s |-> <<s[i]>>]) = s
<1>. DEFINE N == Len(s)
            singles == [i \in DOMAIN s |-> <<s[i]>>]
            f == [n \in 0..N |-> Before(s, n + 1)]
<1>1. N \in Nat /\ DOMAIN s = 1..N /\ \A i \in 1..N : <<s[i]>> \in Seq(A)
  OBVIOUS
<1>2. singles \in Seq(Seq(A)) /\ Len(singles) = N /\ \A i \in 1..N : singles[i] = <<s[i]>>
  BY <1>1
<1>3. /\ Before(s, 1) = <<>> /\ Before(s, N + 1) = s
      /\ \A n \in 1..N : Before(s, n + 1) = Before(s, n) \o <<s[n]>>
  BY BeforeGrows
<1>4. f[0] = <<>> /\ f[N] = s
  BY <1>1, <1>3
<1>5. ASSUME NEW n \in 1..Len(singles) PROVE f[n] = f[n - 1] \o singles[n]
  <2>1. n \in 1..N /\ n \in 0..N /\ n - 1 \in 0..N /\ (n - 1) + 1 = n
    BY <1>1, <1>2
  <2>. QED
    BY <1>2, <1>3, <2>1
<1>. HIDE DEF f, singles
<1>6. FlattenSeq(singles) = f[N]
  BY <1>2, <1>4, <1>5, FlattenIs
<1>. QED
  BY <1>4, <1>6 DEF singles

\* A sequence that has nothing to drop stays as it is.
LEMMA DroppingNone ==
    ASSUME NEW A, NEW s \in Seq(A), NEW X, \A i \in DOMAIN s : s[i] \notin X
    PROVE  Dropping(s, X) = s
<1>1. [i \in DOMAIN s |-> IF s[i] \in X THEN <<>> ELSE <<s[i]>>] = [i \in DOMAIN s |-> <<s[i]>>]
  OBVIOUS
<1>. QED
  BY <1>1, FlattenSingles DEF Dropping

\* To filter out nothing leaves a sequence as it is.
LEMMA FilterAll ==
    ASSUME NEW A, NEW s \in Seq(A), NEW S, \A i \in 1..Len(s) : s[i] \in S
    PROVE  Filter(s, S) = s
<1>. DEFINE N == Len(s)
<1>1. PICK kept \in [0..N -> Seq(A \cap S)] :
         /\ kept[0] = <<>>
         /\ \A n \in 1..N : s[n] \in S => kept[n] = Append(kept[n - 1], s[n])
         /\ \A n \in 1..N : s[n] \notin S => kept[n] = kept[n - 1]
         /\ Filter(s, S) = kept[N]
  BY FilterUnfolds
<1>2. /\ Before(s, 1) = <<>> /\ Before(s, N + 1) = s /\ N \in Nat
      /\ \A n \in 1..N : /\ Before(s, n) \in Seq(A)
                         /\ Before(s, n + 1) = Before(s, n) \o <<s[n]>>
  BY BeforeGrows
<1>. DEFINE good == {n \in 0..N : kept[n] = Before(s, n + 1)}
<1>3. 0 \in good
  BY <1>1, <1>2
<1>4. ASSUME NEW n \in 0..N, n # N, n \in good PROVE n + 1 \in good
  <2>1. n + 1 \in 1..N /\ (n + 1) - 1 = n /\ n + 1 \in 0..N
    BY <1>2, <1>4
  <2>2. kept[n + 1] = Append(Before(s, n + 1), s[n + 1])
    BY <1>1, <1>4, <2>1
  <2>. DEFINE p == Before(s, n + 1)
              x == s[n + 1]
  <2>3. p \in Seq(A) /\ x \in A
    <3>1. p \in Seq(A)
      BY <1>2, <2>1
    <3>2. x \in A
      BY <2>1
    <3>. QED
      BY <3>1, <3>2
  <2>. HIDE DEF p, x
  <2>4. Append(p, x) = p \o <<x>>
    BY <2>3, SMTT(30)
  <2>5. Before(s, (n + 1) + 1) = p \o <<x>>
    BY <1>2, <2>1 DEF p, x
  <2>. QED
    BY <2>1, <2>2, <2>4, <2>5 DEF p, x
<1>5. N \in good
  <2>. HIDE DEF good, N
  <2>1. 0..N \subseteq good
    BY <1>2, <1>3, <1>4, Upto
  <2>. QED
    BY <1>2, <2>1
<1>. QED
  BY <1>1, <1>2, <1>5

-----------------------------------------------------------------------------
(* Least and greatest members.                                              *)

\* Min of a nonempty set of naturals is its least member.
LEMMA LeastIsMin ==
    ASSUME NEW S \in SUBSET Nat, S # {}
    PROVE  Min(S) \in S /\ \A n \in S : Min(S) <= n
<1>1. \E n \in S : \A m \in S : n <= m
  BY LeastNat
<1>. QED
  BY <1>1 DEF Min

\* Max of a nonempty bounded set of naturals is its greatest member.
LEMMA GreatestIsMax ==
    ASSUME NEW N \in Nat, NEW S \in SUBSET (0..N), S # {}
    PROVE  Max(S) \in S /\ \A n \in S : Max(S) >= n
<1>. DEFINE below == {N - n : n \in S}
<1>1. below \in SUBSET Nat /\ below # {}
  <2>1. \A n \in S : N - n \in Nat
    OBVIOUS
  <2>2. PICK n \in S : TRUE
    OBVIOUS
  <2>3. N - n \in below
    OBVIOUS
  <2>. QED
    BY <2>1, <2>3
<1>2. PICK k \in below : \A m \in below : k <= m
  <2>. HIDE DEF below
  <2>. QED
    BY <1>1, LeastNat
<1>3. PICK n \in S : k = N - n
  BY <1>2
<1>4. \A m \in S : N - m \in below
  OBVIOUS
<1>5. \A m \in S : n >= m
  BY <1>2, <1>3, <1>4
<1>. QED
  BY <1>5 DEF Max

\* The numbers from 1 on.
CountsUp(ids) == \A i \in DOMAIN ids : ids[i] = i

\* Filtered by their places, the places that stay are in order.
LEMMA FilterPlaces ==
    ASSUME NEW A, NEW ids \in Seq(A), A = 1..Len(ids), CountsUp(ids), NEW S
    PROVE  /\ Filter(ids, S) \in Seq(A \cap S)
           /\ ToSet(Filter(ids, S)) = A \cap S
           /\ \A i, j \in DOMAIN Filter(ids, S) : i < j => Filter(ids, S)[i] < Filter(ids, S)[j]
<1>. DEFINE P == A \cap S
            Rising(t, n) == /\ \A i \in 1..Len(t) : t[i] <= n
                            /\ \A i, j \in 1..Len(t) : i < j => t[i] < t[j]
<1>2. Filter(ids, S) \in Seq(P) /\ ToSet(Filter(ids, S)) = P
  <2>1. /\ Filter(ids, S) \in Seq(A \cap S)
        /\ ToSet(Filter(ids, S)) = ToSet(ids) \cap S
    BY FilterTypes
  <2>2. ToSet(ids) = A
    BY DEF ToSet, CountsUp
  <2>. QED
    BY <2>1, <2>2
<1>6. PICK kept \in [0..Len(ids) -> Seq(A \cap S)] :
         /\ kept[0] = <<>>
         /\ \A n \in 1..Len(ids) : ids[n] \in S => kept[n] = Append(kept[n - 1], ids[n])
         /\ \A n \in 1..Len(ids) : ids[n] \notin S => kept[n] = kept[n - 1]
         /\ Filter(ids, S) = kept[Len(ids)]
  BY FilterUnfolds
<1>. DEFINE N == Len(ids)
<1>1. A = 1..N /\ N \in Nat /\ N \in 0..N /\ \A i \in 1..N : ids[i] = i
  BY DEF CountsUp
<1>3. /\ kept \in [0..N -> Seq(P)]
      /\ kept[0] = <<>>
      /\ \A n \in 1..N : ids[n] \in S => kept[n] = Append(kept[n - 1], ids[n])
      /\ \A n \in 1..N : ids[n] \notin S => kept[n] = kept[n - 1]
      /\ Filter(ids, S) = kept[N]
  BY <1>6
<1>. HIDE DEF N
<1>. DEFINE G == {n \in 0..N : Rising(kept[n], n)}
<1>4. 0 \in G
  BY <1>1, <1>3
<1>5. ASSUME NEW n \in 0..N, n # N, n \in G PROVE n + 1 \in G
  <2>1. n + 1 \in 1..N /\ (n + 1) - 1 = n /\ n + 1 \in 0..N
    <3>. HIDE DEF G
    <3>. QED
      BY <1>1, <1>5
  <2>2. kept[n] \in Seq(P) /\ Rising(kept[n], n) /\ ids[n + 1] = n + 1
    BY <1>1, <1>3, <1>5, <2>1
  <2>6. \A i \in 1..Len(kept[n]) : kept[n][i] \in Nat
    <3>. DEFINE t == kept[n]
    <3>1. t \in Seq(P) /\ P \subseteq Nat
      BY <2>2
    <3>. HIDE DEF t, P
    <3>2. \A i \in 1..Len(t) : t[i] \in P
      BY <3>1
    <3>. QED
      BY <3>1, <3>2 DEF t
  <2>3. CASE n + 1 \in S
    <3>. DEFINE t == kept[n]
                m == n + 1
                more == Append(t, m)
    <3>1. kept[m] = more /\ m \in P
      BY <1>1, <1>3, <2>1, <2>2, <2>3
    <3>0. \A i \in 1..Len(t) : t[i] \in Nat
      BY <2>6
    <3>2. /\ Len(more) = Len(t) + 1 /\ Len(t) \in Nat /\ more[Len(t) + 1] = m
          /\ \A i \in 1..Len(t) : more[i] = t[i] /\ t[i] \in Nat
      <4>1. t \in Seq(P) /\ m \in P
        BY <2>2, <3>1
      <4>. HIDE DEF t, m, P
      <4>2. /\ Len(more) = Len(t) + 1 /\ Len(t) \in Nat /\ more[Len(t) + 1] = m
            /\ \A i \in 1..Len(t) : more[i] = t[i]
        BY <4>1
      <4>. QED
        BY <3>0, <4>2
    <3>3. Rising(t, n)
      BY <2>2
    <3>. HIDE DEF t, more
    <3>4. Rising(more, m)
      <4>. DEFINE L == Len(t)
                  M == Len(more)
      <4>0. M = L + 1 /\ L \in Nat
        BY <3>2
      <4>1. \A i \in 1..M : i \in 1..L \/ i = L + 1
        <5>. HIDE DEF L, M
        <5>. QED
          BY <4>0
      <4>2. \A i \in 1..Len(t) : more[i] <= n
        BY <3>2, <3>3
      <4>3. \A i \in 1..Len(more) : more[i] <= m
        <5>. SUFFICES ASSUME NEW i \in 1..Len(more) PROVE more[i] <= m
          OBVIOUS
        <5>1. CASE i \in 1..Len(t)
          <6>1. more[i] <= n /\ more[i] \in Nat
            BY <3>2, <4>2, <5>1
          <6>. HIDE DEF more
          <6>. QED
            BY <6>1
        <5>2. CASE i = Len(t) + 1
          BY <3>2, <5>2
        <5>. QED
          BY <4>1, <5>1, <5>2
      <4>4. ASSUME NEW i \in 1..Len(more), NEW j \in 1..Len(more), i < j
            PROVE  more[i] < more[j]
        <5>1. i \in 1..Len(t)
          BY <3>2, <4>1, <4>4
        <5>2. CASE j \in 1..Len(t)
          BY <3>2, <3>3, <4>4, <5>1, <5>2
        <5>3. CASE j = Len(t) + 1
          <6>1. more[j] = n + 1 /\ more[i] <= n /\ more[i] \in Nat
            BY <3>2, <4>2, <5>1, <5>3
          <6>. HIDE DEF more
          <6>. QED
            BY <6>1
        <5>. QED
          BY <4>1, <5>2, <5>3
      <4>. QED
        BY <4>3, <4>4
    <3>. QED
      BY <2>1, <3>1, <3>4
  <2>4. CASE n + 1 \notin S
    <3>1. kept[n + 1] = kept[n]
      BY <1>3, <2>1, <2>2, <2>4
    <3>. DEFINE t == kept[n]
    <3>2. \A i \in 1..Len(t) : t[i] \in Nat
      BY <2>6
    <3>3. Rising(t, n)
      BY <2>2
    <3>. HIDE DEF t
    <3>4. Rising(t, n + 1)
      BY <3>2, <3>3
    <3>. QED
      BY <2>1, <3>1, <3>4 DEF t
  <2>. QED
    BY <2>3, <2>4
<1>8. N \in G
  <2>. HIDE DEF G
  <2>1. 0..N \subseteq G
    BY <1>1, <1>4, <1>5, Upto
  <2>. QED
    BY <1>1, <2>1
<1>7. DOMAIN Filter(ids, S) = 1..Len(Filter(ids, S))
  BY <1>2
<1>. QED
  BY <1>2, <1>3, <1>7, <1>8
=============================================================================
