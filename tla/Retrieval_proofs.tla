--------------------------- MODULE Retrieval_proofs ---------------------------
(***************************************************************************)
(* The fusion of the two halves is a fair reordering of them, and the        *)
(* selection repeats nothing, drops nothing and takes the pages in turn: for  *)
(* every collection, request, limit, answer of the searches and reranking.   *)
(***************************************************************************)
EXTENDS Retrieval, FiniteSetTheorems, TLAPS

-----------------------------------------------------------------------------
(* Numbers.                                                                 *)

\* Every nonempty set of naturals has a least member.
LEMMA LeastNat ==
    ASSUME NEW S \in SUBSET Nat, S # {}
    PROVE  \E n \in S : \A m \in S : n <= m
<1>. DEFINE R == OpToRel(<, Nat)
<1>1. PICK n \in S : \A m \in S : <<m, n>> \notin R
  BY NatLessThanWellFounded, WFMin
<1>2. \A m \in S : ~(m < n)
  BY <1>1 DEF OpToRel
<1>. QED
  BY <1>2

Pos == Nat \ {0}

\* A product of two numbers of which neither is 0.
LEMMA Product == \A a, b \in Pos : a * b \in Pos
<1>. SUFFICES ASSUME NEW a \in Pos, NEW b \in Pos PROVE a * b \in Pos
  OBVIOUS
<1>1. a \in Nat /\ b \in Nat /\ a > 0 /\ b > 0
  BY DEF Pos
<1>. QED
  BY <1>1, SMT DEF Pos

\* A factor that is not 0 keeps the order of two numbers.
LEMMA Scaled ==
    ASSUME NEW a \in Nat, NEW b \in Nat, NEW c \in Pos
    PROVE  a < b <=> a * c < b * c
<1>1. c \in Nat /\ c > 0
  BY DEF Pos
<1>2. ASSUME a < b PROVE a * c < b * c
  <2>1. (b - a) * c > 0
    BY <1>1, <1>2
  <2>2. (b - a) * c = b * c - a * c
    BY <1>1
  <2>. QED
    BY <1>1, <2>1, <2>2
<1>3. ASSUME b <= a PROVE b * c <= a * c
  <2>1. (a - b) * c >= 0
    BY <1>1, <1>3
  <2>2. (a - b) * c = a * c - b * c
    BY <1>1
  <2>. QED
    BY <1>1, <2>1, <2>2
<1>. QED
  BY <1>1, <1>2, <1>3

\* Factors may be swapped.
LEMMA Swap == \A x, y, z \in Nat : (x * y) * z = (x * z) * y
  OBVIOUS

\* Fractions are ordered through a common denominator: if x is not below y, and y
\* not below z, then x is not below z, and is above it if either is strict.
LEMMA AboveThrough ==
    ASSUME NEW a \in Pos, NEW b \in Pos, NEW c \in Pos, NEW d \in Pos,
           NEW e \in Pos, NEW f \in Pos,
           a * d >= c * b, c * f >= e * d
    PROVE  /\ a * f >= e * b
           /\ a * d > c * b \/ c * f > e * d => a * f > e * b
<1>. DEFINE ad == a * d
            cb == c * b
            cf == c * f
            ed == e * d
            af == a * f
            eb == e * b
<1>1. ad \in Nat /\ cb \in Nat /\ cf \in Nat /\ ed \in Nat /\ af \in Nat /\ eb \in Nat
  BY Product DEF Pos
<1>0. cb <= ad /\ ed <= cf
  BY <1>1
<1>4. /\ ad * f = af * d /\ cb * f = cf * b /\ ed * b = eb * d
  BY Swap DEF Pos
<1>5. /\ ad * f \in Nat /\ cb * f \in Nat /\ cf * b \in Nat
      /\ ed * b \in Nat /\ af * d \in Nat /\ eb * d \in Nat
  BY <1>1 DEF Pos
<1>. HIDE DEF ad, cb, cf, ed, af, eb
<1>2. (ad < cb <=> ad * f < cb * f) /\ (cb < ad <=> cb * f < ad * f)
  BY <1>1, Scaled, Zenon
<1>3. (cf < ed <=> cf * b < ed * b) /\ (ed < cf <=> ed * b < cf * b)
  BY <1>1, Scaled, Zenon
<1>7. (af < eb <=> af * d < eb * d) /\ (eb < af <=> eb * d < af * d)
  BY <1>1, Scaled, Zenon
<1>6. eb * d <= af * d /\ (cb < ad \/ ed < cf => eb * d < af * d)
  <2>. DEFINE A == ad * f
              B == cb * f
              C == ed * b
  <2>1. A \in Nat /\ B \in Nat /\ C \in Nat /\ af * d = A /\ cf * b = B /\ eb * d = C
    BY <1>4, <1>5
  <2>2. (ad < cb <=> A < B) /\ (cb < ad <=> B < A) /\ (cf < ed <=> B < C) /\ (ed < cf <=> C < B)
    BY <1>2, <1>3, <2>1
  <2>. HIDE DEF A, B, C
  <2>3. C <= A /\ (cb < ad \/ ed < cf => C < A)
    BY <1>0, <1>1, <2>1, <2>2
  <2>. QED
    BY <2>1, <2>3
<1>. QED
  BY <1>0, <1>1, <1>7, <1>5, <1>6 DEF ad, cb, cf, ed, af, eb

\* 1/x + 1/y is above 1/z when x and y are below twice z.
LEMMA SumAbove ==
    ASSUME NEW x \in Pos, NEW y \in Pos, NEW z \in Pos, x < 2 * z, y < 2 * z
    PROVE  (x + y) * z > x * y
<1>1. 2 * z \in Nat /\ x \in Nat /\ y \in Nat /\ z \in Nat
  BY DEF Pos
<1>2. y * x < (2 * z) * x
  BY <1>1, Scaled, Zenon
<1>3. x * y < (2 * z) * y
  BY <1>1, Scaled, Zenon
<1>. QED
  BY <1>1, <1>2, <1>3

\* 1/x + 1/y is above 1/x', and above 1/x' + 1/y', when x < x' and y < y'.
LEMMA SumsOrdered ==
    ASSUME NEW x \in Pos, NEW y \in Pos, NEW u \in Pos, NEW v \in Pos, x < u
    PROVE  /\ (x + y) * u > x * y
           /\ y < v => (x + y) * (u * v) > (u + v) * (x * y)
<1>1. x \in Nat /\ y \in Nat /\ u \in Nat /\ v \in Nat
  BY DEF Pos
<1>2. x * y < u * y
  BY <1>1, Scaled, Zenon
<1>3. x * u \in Pos /\ x * y \in Nat /\ u * y \in Nat /\ u * v \in Pos /\ y * v \in Pos
  BY <1>1, Product DEF Pos
<1>4. (x + y) * u = x * u + u * y
  BY <1>1
<1>5. (x + y) * u > x * y
  BY <1>2, <1>3, <1>4 DEF Pos
<1>6. ASSUME y < v PROVE (x + y) * (u * v) > (u + v) * (x * y)
  <2>. DEFINE a == x * u
              b == y * v
  <2>1. y * a < v * a
    BY <1>1, <1>3, <1>6, Scaled, Zenon
  <2>2. x * b < u * b
    BY <1>1, <1>3, Scaled, Zenon
  <2>3. (x + y) * (u * v) = v * a + u * b
    BY <1>1
  <2>4. (u + v) * (x * y) = y * a + x * b
    BY <1>1
  <2>5. y * a \in Nat /\ v * a \in Nat /\ x * b \in Nat /\ u * b \in Nat
    BY <1>1, <1>3 DEF Pos
  <2>. HIDE DEF a, b
  <2>. QED
    BY <2>1, <2>2, <2>3, <2>4, <2>5
<1>. QED
  BY <1>5, <1>6

-----------------------------------------------------------------------------
(* The fusion.                                                              *)

\* A half: points of S, each once, best first.
IsHalf(half, S) == /\ half \in Seq(S)
                   /\ \A i, j \in DOMAIN half : half[i] = half[j] => i = j

\* The rank of a point is the place where it stands, and no other.
LEMMA RankIsPlace ==
    ASSUME NEW S, NEW half, IsHalf(half, S)
    PROVE  /\ \A p \in Values(half) : /\ Rank(half, p) \in DOMAIN half
                                      /\ half[Rank(half, p)] = p
                                      /\ Rank(half, p) \in Pos
           /\ \A i \in DOMAIN half : half[i] \in Values(half) /\ Rank(half, half[i]) = i
           /\ \A p, q \in Values(half) : Rank(half, p) = Rank(half, q) => p = q
           /\ Values(half) \subseteq S
<1>1. DOMAIN half = 1..Len(half) /\ Len(half) \in Nat /\ half \in [1..Len(half) -> S]
  BY DEF IsHalf
<1>2. ASSUME NEW p \in Values(half)
      PROVE  Rank(half, p) \in DOMAIN half /\ half[Rank(half, p)] = p /\ Rank(half, p) \in Pos
  <2>1. \E i \in DOMAIN half : half[i] = p
    BY DEF Values
  <2>2. Rank(half, p) \in DOMAIN half /\ half[Rank(half, p)] = p
    BY <2>1 DEF Rank
  <2>. QED
    BY <1>1, <2>2 DEF Pos
<1>3. ASSUME NEW i \in DOMAIN half
      PROVE  half[i] \in Values(half) /\ Rank(half, half[i]) = i
  <2>1. half[i] \in Values(half)
    BY DEF Values
  <2>. QED
    BY <1>2, <2>1 DEF IsHalf
<1>4. Values(half) \subseteq S
  BY <1>1 DEF Values
<1>5. ASSUME NEW p \in Values(half), NEW q \in Values(half), Rank(half, p) = Rank(half, q)
      PROVE  p = q
  BY <1>2, <1>5
<1>. QED
  BY <1>2, <1>3, <1>4, <1>5

\* A score is a fraction of positive numbers.
LEMMA ScoreIsFraction ==
    ASSUME NEW S, NEW d, NEW s, IsHalf(d, S), IsHalf(s, S),
           NEW p \in Values(d) \cup Values(s)
    PROVE  /\ FusedScore(d, s, p)[1] \in Pos
           /\ FusedScore(d, s, p)[2] \in Pos
<1>. DEFINE x == RRF_K + Rank(d, p)
            y == RRF_K + Rank(s, p)
<1>1. p \in Values(d) => x \in Pos
  BY RankIsPlace, LimitAssumption DEF Pos
<1>2. p \in Values(s) => y \in Pos
  BY RankIsPlace, LimitAssumption DEF Pos
<1>. HIDE DEF x, y
<1>3. FusedScore(d, s, p) = IF p \notin Values(s) THEN <<1, x>>
                            ELSE IF p \notin Values(d) THEN <<1, y>>
                            ELSE <<x + y, x * y>>
  BY DEF FusedScore, Score, x, y
<1>4. 1 \in Pos
  BY DEF Pos
<1>5. ASSUME p \in Values(d), p \in Values(s) PROVE x + y \in Pos /\ x * y \in Pos
  <2>1. x + y \in Pos
    BY <1>1, <1>2, <1>5 DEF Pos
  <2>. QED
    BY <2>1, <1>1, <1>2, <1>5, Product
<1>. QED
  BY <1>1, <1>2, <1>3, <1>4, <1>5

\* Precedes orders the nodes strictly, and any two of them.
LEMMA PrecedesOrders ==
    ASSUME NEW S, NEW d, NEW s, IsHalf(d, S), IsHalf(s, S)
    PROVE  LET nodes == Values(d) \cup Values(s) IN
           /\ \A p \in nodes : ~Precedes(d, s, p, p)
           /\ \A p, q \in nodes : p # q => Precedes(d, s, p, q) \/ Precedes(d, s, q, p)
           /\ \A p, q, r \in nodes : Precedes(d, s, p, q) /\ Precedes(d, s, q, r)
                                        => Precedes(d, s, p, r)
<1>. DEFINE nodes == Values(d) \cup Values(s)
            n(p) == FusedScore(d, s, p)[1]
            m(p) == FusedScore(d, s, p)[2]
            Higher(p, q) == Above(FusedScore(d, s, p), FusedScore(d, s, q))
            Ahead(p, q) == Earlier(d, s, p, q)
<1>1. \A p \in nodes : n(p) \in Pos /\ m(p) \in Pos
  BY ScoreIsFraction
<1>2. \A p, q \in nodes : /\ n(p) * m(q) \in Nat
                          /\ Higher(p, q) <=> n(p) * m(q) > n(q) * m(p)
  BY <1>1, Product DEF Above, Pos
<1>3. \A p, q : Precedes(d, s, p, q) <=> Higher(p, q) \/ (~Higher(q, p) /\ Ahead(p, q))
  BY DEF Precedes
<1>4. /\ \A p \in Values(d) : Rank(d, p) \in Nat
      /\ \A p \in Values(s) : Rank(s, p) \in Nat
      /\ \A p, q \in Values(d) : Rank(d, p) = Rank(d, q) => p = q
      /\ \A p, q \in Values(s) : Rank(s, p) = Rank(s, q) => p = q
  BY RankIsPlace DEF Pos
<1>5. /\ \A p \in nodes : ~Ahead(p, p)
      /\ \A p, q \in nodes : p # q => Ahead(p, q) \/ Ahead(q, p)
      /\ \A p, q, r \in nodes : Ahead(p, q) /\ Ahead(q, r) => Ahead(p, r)
  BY <1>4 DEF Earlier
<1>6. \A p, q, r \in nodes :
         ~Higher(q, p) /\ ~Higher(r, q)
           => /\ ~Higher(r, p)
              /\ Higher(p, q) \/ Higher(q, r) => Higher(p, r)
  <2>. SUFFICES ASSUME NEW p \in nodes, NEW q \in nodes, NEW r \in nodes,
                       ~Higher(q, p), ~Higher(r, q)
                PROVE  /\ ~Higher(r, p)
                       /\ Higher(p, q) \/ Higher(q, r) => Higher(p, r)
    OBVIOUS
  <2>1. n(p) * m(q) >= n(q) * m(p) /\ n(q) * m(r) >= n(r) * m(q)
    BY <1>2
  <2>2. /\ n(p) * m(r) >= n(r) * m(p)
        /\ n(p) * m(q) > n(q) * m(p) \/ n(q) * m(r) > n(r) * m(q)
             => n(p) * m(r) > n(r) * m(p)
    <3>. HIDE DEF n, m, nodes
    <3>. QED
      BY <1>1, <2>1, AboveThrough, Zenon
  <2>. QED
    BY <1>2, <2>2
<1>7. \A p, q \in nodes : Higher(p, q) => ~Higher(q, p)
  BY <1>2
<1>. HIDE DEF n, m, Higher, Ahead, nodes
<1>8. \A p \in nodes : ~Precedes(d, s, p, p)
  BY <1>3, <1>5, <1>7
<1>9. \A p, q \in nodes : p # q => Precedes(d, s, p, q) \/ Precedes(d, s, q, p)
  BY <1>3, <1>5
<1>10. \A p, q, r \in nodes : Precedes(d, s, p, q) /\ Precedes(d, s, q, r)
                                => Precedes(d, s, p, r)
  BY <1>3, <1>5, <1>6, <1>7
<1>. QED
  BY <1>8, <1>9, <1>10 DEF nodes

\* The nodes that come before p.
Before(d, s, p) == {q \in (Values(d) \cup Values(s)) \ {p} : Precedes(d, s, q, p)}

\* Of two nodes the one that comes first has fewer before it.
LEMMA PlacesAreDistinct ==
    ASSUME NEW S, NEW d, NEW s, IsHalf(d, S), IsHalf(s, S), IsFiniteSet(S),
           NEW nodes, nodes = Values(d) \cup Values(s)
    PROVE  /\ IsFiniteSet(nodes) /\ Cardinality(nodes) \in Nat
           /\ \A p \in nodes : Cardinality(Before(d, s, p)) \in 0..(Cardinality(nodes) - 1)
           /\ \A p, q \in nodes : Precedes(d, s, p, q) =>
                 Cardinality(Before(d, s, p)) < Cardinality(Before(d, s, q))
<1>. DEFINE before(p) == Before(d, s, p)
<1>1. nodes \subseteq S
  BY RankIsPlace
<1>2. IsFiniteSet(nodes) /\ Cardinality(nodes) \in Nat
  BY <1>1, FS_Subset, FS_CardinalityType
<1>3. ASSUME NEW p \in nodes
      PROVE  /\ IsFiniteSet(before(p)) /\ Cardinality(before(p)) \in Nat
             /\ Cardinality(before(p)) <= Cardinality(nodes) - 1
  <2>1. IsFiniteSet(nodes \ {p}) /\ Cardinality(nodes \ {p}) = Cardinality(nodes) - 1
    BY <1>2, FS_RemoveElement
  <2>2. before(p) \in SUBSET (nodes \ {p})
    BY DEF Before
  <2>3. IsFiniteSet(before(p)) /\ Cardinality(before(p)) <= Cardinality(nodes \ {p})
    BY <2>1, <2>2, FS_Subset
  <2>4. Cardinality(before(p)) \in Nat
    BY <2>3, FS_CardinalityType
  <2>. HIDE DEF before
  <2>. QED
    BY <1>2, <2>1, <2>3, <2>4
<1>4. ASSUME NEW p \in nodes, NEW q \in nodes, Precedes(d, s, p, q)
      PROVE  Cardinality(before(p)) < Cardinality(before(q))
  <2>1. ~Precedes(d, s, p, p) /\ ~Precedes(d, s, q, q)
    BY PrecedesOrders
  <2>2. p \in before(q) /\ p \notin before(p)
    BY <1>4, <2>1 DEF Before
  <2>3. \A r \in nodes : Precedes(d, s, r, p) => Precedes(d, s, r, q)
    BY <1>4, PrecedesOrders
  <2>4. q \notin before(p)
    BY <2>1, <2>3 DEF Before
  <2>5. before(p) \cup {p} \in SUBSET before(q)
    BY <2>2, <2>3, <2>4 DEF Before
  <2>6. Cardinality(before(p) \cup {p}) = Cardinality(before(p)) + 1
    BY <1>3, <2>2, FS_AddElement
  <2>7. Cardinality(before(p) \cup {p}) <= Cardinality(before(q))
    BY <1>3, <2>5, FS_Subset
  <2>8. Cardinality(before(p)) \in Nat /\ Cardinality(before(q)) \in Nat
    BY <1>3
  <2>. HIDE DEF before
  <2>. QED
    BY <2>6, <2>7, <2>8
<1>5. \A p \in nodes : Cardinality(before(p)) \in 0..(Cardinality(nodes) - 1)
  <2>. DEFINE N == Cardinality(nodes)
              c(p) == Cardinality(before(p))
  <2>1. N \in Nat /\ \A p \in nodes : c(p) \in Nat /\ c(p) <= N - 1
    BY <1>2, <1>3
  <2>. HIDE DEF N, c
  <2>2. \A p \in nodes : c(p) \in 0..(N - 1)
    BY <2>1
  <2>. QED
    BY <2>2 DEF N, c
<1>. QED
  BY <1>2, <1>4, <1>5

\* The fusion holds every node of either half once, and in their order.
LEMMA FusedIsOrdered ==
    ASSUME NEW S, NEW d, NEW s, IsHalf(d, S), IsHalf(s, S), IsFiniteSet(S)
    PROVE  /\ IsHalf(Fused(d, s), S)
           /\ Values(Fused(d, s)) = Values(d) \cup Values(s)
           /\ Len(Fused(d, s)) = Cardinality(Values(d) \cup Values(s))
           /\ \A p, q \in Values(d) \cup Values(s) :
                 Precedes(d, s, p, q) => Rank(Fused(d, s), p) < Rank(Fused(d, s), q)
<1>. DEFINE nodes == Values(d) \cup Values(s)
            N == Cardinality(nodes)
            place(p) == Cardinality(Before(d, s, p)) + 1
            fused == Fused(d, s)
            number == [p \in nodes |-> place(p)]
<1>1. nodes \subseteq S
  BY RankIsPlace
<1>2. fused = [n \in 1..N |-> CHOOSE p \in nodes : n = place(p)]
  BY DEF Fused, Before
<1>3. /\ IsFiniteSet(nodes) /\ N \in Nat
      /\ \A p \in nodes : place(p) \in 1..N
      /\ \A p, q \in nodes : Precedes(d, s, p, q) => place(p) < place(q)
  <2>. DEFINE c(p) == Cardinality(Before(d, s, p))
  <2>1. /\ IsFiniteSet(nodes) /\ N \in Nat
        /\ \A p \in nodes : c(p) \in 0..(N - 1)
        /\ \A p, q \in nodes : Precedes(d, s, p, q) => c(p) < c(q)
    BY PlacesAreDistinct
  <2>. HIDE DEF nodes, N, c
  <2>. QED
    BY <2>1 DEF c
<1>4. \A p, q \in nodes : p # q => Precedes(d, s, p, q) \/ Precedes(d, s, q, p)
  BY PrecedesOrders
<1>5. number = [p \in nodes |-> place(p)]
  OBVIOUS
<1>6. Values(fused) = {fused[n] : n \in DOMAIN fused}
  BY DEF Values
<1>. HIDE DEF nodes, N, place, fused, number
<1>7. \A p, q \in nodes : place(p) = place(q) => p = q
  BY <1>3, <1>4
<1>8. \A n \in 1..N : \E p \in nodes : n = place(p)
  <2>1. number \in Injection(nodes, 1..N)
    BY <1>3, <1>5, <1>7 DEF Injection, IsInjective
  <2>2. IsFiniteSet(1..N) /\ Cardinality(1..N) = N
    BY <1>3, FS_Interval
  <2>3. number \in Surjection(nodes, 1..N)
    BY <2>1, <2>2, FS_Injection DEF N
  <2>. QED
    BY <1>5, <2>3 DEF Surjection
<1>9. \A n \in 1..N : fused[n] \in nodes /\ place(fused[n]) = n
  <2>. SUFFICES ASSUME NEW n \in 1..N PROVE fused[n] \in nodes /\ place(fused[n]) = n
    OBVIOUS
  <2>1. \E p \in nodes : n = place(p)
    BY <1>8
  <2>2. fused[n] = CHOOSE p \in nodes : n = place(p)
    BY <1>2
  <2>. QED
    BY <2>1, <2>2
<1>10. fused \in Seq(nodes) /\ Len(fused) = N /\ DOMAIN fused = 1..N
  <2>1. DOMAIN fused = 1..N /\ fused \in [1..N -> nodes]
    BY <1>2, <1>9
  <2>. QED
    BY <1>3, <2>1
<1>11. \A p \in nodes : fused[place(p)] = p
  BY <1>3, <1>7, <1>9
<1>12. Values(fused) = nodes
  BY <1>3, <1>6, <1>9, <1>10, <1>11
<1>13. \A i, j \in DOMAIN fused : fused[i] = fused[j] => i = j
  BY <1>9, <1>10
<1>14. fused \in Seq(S)
  BY <1>1, <1>10
<1>15. IsHalf(fused, S)
  BY <1>13, <1>14 DEF IsHalf
<1>16. \A p \in nodes : Rank(fused, p) = place(p)
  BY <1>3, <1>10, <1>11, <1>15, RankIsPlace
<1>17. \A p, q \in nodes : Precedes(d, s, p, q) => Rank(fused, p) < Rank(fused, q)
  BY <1>3, <1>16
<1>. QED
  BY <1>10, <1>12, <1>15, <1>17 DEF fused, nodes, N

\* A node that both halves return at ranks up to RRF_K comes before every node
\* that one of them returns alone.
LEMMA BothComeFirst ==
    ASSUME NEW S, NEW d, NEW s, IsHalf(d, S), IsHalf(s, S),
           NEW p \in Values(d) \cap Values(s), NEW q \in Values(d) \cup Values(s),
           q \notin Values(d) \cap Values(s),
           Rank(d, p) <= RRF_K, Rank(s, p) <= RRF_K
    PROVE  Precedes(d, s, p, q)
<1>. DEFINE x == RRF_K + Rank(d, p)
            y == RRF_K + Rank(s, p)
            z == RRF_K + (IF q \in Values(d) THEN Rank(d, q) ELSE Rank(s, q))
<1>1. /\ Rank(d, p) \in Pos /\ Rank(s, p) \in Pos
      /\ (IF q \in Values(d) THEN Rank(d, q) ELSE Rank(s, q)) \in Pos
      /\ RRF_K \in Nat
  BY RankIsPlace, LimitAssumption
<1>2. x \in Pos /\ y \in Pos /\ z \in Pos /\ x < 2 * z /\ y < 2 * z
  BY <1>1 DEF Pos
<1>3. FusedScore(d, s, p) = <<x + y, x * y>> /\ FusedScore(d, s, q) = <<1, z>>
  BY DEF FusedScore, Score
<1>. HIDE DEF x, y, z
<1>4. (x + y) * z > x * y /\ 1 * (x * y) = x * y
  BY <1>2, SumAbove DEF Pos
<1>5. Above(<<x + y, x * y>>, <<1, z>>)
  BY <1>4 DEF Above
<1>. QED
  BY <1>3, <1>5 DEF Precedes

\* p stands before q in the half, or q is not in it.
StandsAhead(half, p, q) ==
    q \in Values(half) => p \in Values(half) /\ Rank(half, p) < Rank(half, q)

\* A node that is ahead wherever the other was found comes before it.
LEMMA AheadComesFirst ==
    ASSUME NEW S, NEW d, NEW s, IsHalf(d, S), IsHalf(s, S),
           NEW p \in Values(d) \cup Values(s), NEW q \in Values(d) \cup Values(s),
           StandsAhead(d, p, q), StandsAhead(s, p, q)
    PROVE  Precedes(d, s, p, q)
<1>. DEFINE x == RRF_K + Rank(d, p)
            y == RRF_K + Rank(s, p)
            u == RRF_K + Rank(d, q)
            v == RRF_K + Rank(s, q)
            above == Above(FusedScore(d, s, p), FusedScore(d, s, q))
<1>1. /\ p \in Values(d) => x \in Pos
      /\ p \in Values(s) => y \in Pos
      /\ q \in Values(d) => u \in Pos /\ x < u
      /\ q \in Values(s) => v \in Pos /\ y < v
  BY RankIsPlace, LimitAssumption DEF Pos, StandsAhead
<1>2. \A r : FusedScore(d, s, r) =
         IF r \notin Values(s) THEN <<1, RRF_K + Rank(d, r)>>
         ELSE IF r \notin Values(d) THEN <<1, RRF_K + Rank(s, r)>>
         ELSE <<(RRF_K + Rank(d, r)) + (RRF_K + Rank(s, r)),
                (RRF_K + Rank(d, r)) * (RRF_K + Rank(s, r))>>
  BY DEF FusedScore, Score
<1>3. /\ FusedScore(d, s, p) = IF p \notin Values(s) THEN <<1, x>>
                               ELSE IF p \notin Values(d) THEN <<1, y>>
                               ELSE <<x + y, x * y>>
      /\ FusedScore(d, s, q) = IF q \notin Values(s) THEN <<1, u>>
                               ELSE IF q \notin Values(d) THEN <<1, v>>
                               ELSE <<u + v, u * v>>
  BY <1>2
<1>4. \A a, b \in Pos : a < b => Above(<<1, a>>, <<1, b>>)
  BY DEF Above, Pos
<1>5. \A a, b, c \in Pos : a < c => Above(<<a + b, a * b>>, <<1, c>>)
  <2>. SUFFICES ASSUME NEW a \in Pos, NEW b \in Pos, NEW c \in Pos, a < c
                PROVE  Above(<<a + b, a * b>>, <<1, c>>)
    OBVIOUS
  <2>1. (a + b) * c > a * b /\ 1 * (a * b) = a * b
    BY SumsOrdered DEF Pos
  <2>. QED
    BY <2>1 DEF Above
<1>6. p \in Values(d) /\ q \in Values(d) => q \in Values(s) \/ above
  <2>. HIDE DEF x, y, u, v
  <2>. QED
    BY <1>1, <1>3, <1>4, <1>5
<1>7. ASSUME q \in Values(s), q \notin Values(d) PROVE above
  <2>1. (x + y = y + x /\ x * y = y * x) \/ p \notin Values(d)
    BY <1>1, <1>7 DEF StandsAhead, Pos
  <2>2. p \in Values(s)
    BY <1>7 DEF StandsAhead
  <2>. HIDE DEF x, y, u, v
  <2>. QED
    BY <1>1, <1>3, <1>4, <1>5, <1>7, <2>1, <2>2
<1>8. ASSUME q \in Values(s), q \in Values(d) PROVE above
  <2>1. p \in Values(s) /\ p \in Values(d)
    BY <1>8 DEF StandsAhead
  <2>. HIDE DEF x, y, u, v
  <2>2. (x + y) * (u * v) > (u + v) * (x * y)
    BY <1>1, <1>8, <2>1, SumsOrdered
  <2>3. Above(<<x + y, x * y>>, <<u + v, u * v>>)
    BY <2>2 DEF Above
  <2>. QED
    BY <1>3, <1>8, <2>1, <2>3
<1>9. q \in Values(d) => p \in Values(d)
  BY DEF StandsAhead
<1>. QED
  BY <1>6, <1>7, <1>8, <1>9 DEF Precedes

-----------------------------------------------------------------------------
(* The inductive invariant.                                                 *)

\* Until something is ranked nothing is selected.
Fresh ==
    pc \in {"search", "rerank"} =>
        /\ ranked = <<>> /\ selected = <<>>
        /\ cursor = [k \in Pages |-> 0]
        /\ turn = 1 /\ round = 1
        /\ seenText = {} /\ seenParents = {}

\* What there is to rerank is the fusion of the two halves.
FusionOfHalves ==
    pc = "rerank" => /\ IsHalf(halves[1], DOMAIN store)
                     /\ IsHalf(halves[2], DOMAIN store)
                     /\ candidates = Fused(halves[1], halves[2])

\* A reranker that is switched off leaves the fusion as it is.
AllRanked == pc = "select" /\ ~reranking => ranked = candidates

\* What was seen is what the selected passages say, and their sections.
SeenIsSelected ==
    /\ seenText = {ReturnText(ranked[selected[n].at]) : n \in DOMAIN selected}
    /\ seenParents = IF collapse_parents
                     THEN {Lineage(ranked[selected[n].at]) : n \in DOMAIN selected}
                     ELSE {}

\* A page's cursor passes no passage that is not represented.
LookedAt ==
    \A i \in DOMAIN ranked : i <= cursor[PageKey(ranked[i])] => Represented(i)

\* A page whose turn is over gave a passage in this round, or has no more.
TurnsTaken ==
    \A t \in DOMAIN ranked :
        t < turn /\ IsBest(t) =>
            Gave(PageKey(ranked[t]), round) \/ Rest(PageKey(ranked[t])) = {}

\* No page gives a passage before its turn.
GivenAtTurn ==
    \A n \in DOMAIN selected :
        selected[n].round = round =>
            \E t \in DOMAIN ranked : /\ t < turn /\ IsBest(t)
                                     /\ PageKey(ranked[t]) = PageKey(ranked[selected[n].at])

\* In a round that is over each page gave a passage, or had none to give.
RoundsDone ==
    \A r \in 1..(round - 1) : \A i \in DOMAIN ranked :
        Gave(PageKey(ranked[i]), r) \/ Represented(i)

\* Each round gives at least one passage.
RoundsAdmit == \A n \in DOMAIN selected : selected[n].round <= n

SelectionInv == /\ SeenIsSelected /\ LookedAt
                /\ TurnsTaken /\ GivenAtTurn /\ RoundsDone /\ RoundsAdmit

RetrievalInv == /\ TypeOK /\ Fresh /\ FusionOfHalves /\ AllRanked /\ SelectionInv
                /\ NoRepeats /\ PagesTakeTurns /\ NothingDropped

-----------------------------------------------------------------------------
(* What the request makes of a passage.                                     *)

\* The first of three texts when it is not empty, and the next when it is.
LEMMA FirstOfThree ==
    ASSUME NEW a, NEW b, NEW c
    PROVE  /\ a # NoText => FirstText(<<a, b, c>>) = a
           /\ a = NoText /\ b # NoText => FirstText(<<a, b, c>>) = b
<1>. DEFINE texts == <<a, b, c>>
            Good(i) == texts[i] # NoText /\ \A j \in 1..(i - 1) : texts[j] = NoText
<1>1. DOMAIN texts = 1..3 /\ texts[1] = a /\ texts[2] = b /\ texts[3] = c
  OBVIOUS
<1>. HIDE DEF texts
<1>2. ASSUME a # NoText PROVE FirstText(texts) = a
  <2>1. 1 \in DOMAIN texts /\ Good(1)
    BY <1>1, <1>2
  <2>2. \A i \in DOMAIN texts : Good(i) => i = 1
    BY <1>1, <1>2
  <2>3. (CHOOSE i \in DOMAIN texts : Good(i)) = 1
    BY <2>1, <2>2
  <2>. QED
    BY <1>1, <1>2, <2>1, <2>3 DEF FirstText
<1>3. ASSUME a = NoText, b # NoText PROVE FirstText(texts) = b
  <2>1. 2 \in DOMAIN texts /\ Good(2)
    BY <1>1, <1>3
  <2>2. \A i \in DOMAIN texts : Good(i) => i = 2
    BY <1>1, <1>3
  <2>3. (CHOOSE i \in DOMAIN texts : Good(i)) = 2
    BY <2>1, <2>2
  <2>. QED
    BY <1>1, <1>3, <2>1, <2>3 DEF FirstText
<1>. QED
  BY <1>2, <1>3 DEF texts

\* Every point says something, and where sections are returned it says its own.
LEMMA ReturnTextIsText ==
    ASSUME store \in Stores, NEW p \in DOMAIN store
    PROVE  /\ ReturnText(p) \in Texts \ {NoText}
           /\ collapse_parents => ReturnText(p) = store[p].parent
           /\ PageKey(p) \in Pages
<1>1. IsPayload(store[p])
  BY StoreAssumption
<1>. DEFINE c == store[p]
<1>2. /\ c.parent \in Texts \ {NoText} /\ c.text \in Texts \ {NoText}
      /\ c.child \in Texts /\ c.page \in Pages
  BY <1>1, StoreAssumption DEF IsPayload, Roles
<1>3. /\ FirstText(<<c.parent, c.text, c.child>>) = c.parent
      /\ FirstText(<<c.text, c.child, c.parent>>) = c.text
      /\ FirstText(<<c.child, c.text, c.parent>>) \in {c.child, c.text} \ {NoText}
  BY <1>2, FirstOfThree
<1>. QED
  BY <1>2, <1>3 DEF ReturnText, collapse_parents, PageKey

\* What is wanted is a number of passages, at least one.
LEMMA WantedIsNumber ==
    ASSUME asked \in Requests
    PROVE  /\ request.topK \in Pos /\ asked.topK \in Pos
           /\ fetch_target \in Nat
<1>1. asked.topK \in Pos
  BY LimitAssumption DEF Pos
<1>2. request.topK \in {asked.topK, Larger(asked.topK, GraphTopK)}
  BY DEF request, Wanted
<1>3. request.topK \in Pos
  BY <1>1, <1>2, LimitAssumption DEF Pos, Larger
<1>4. fetch_target = Larger(2 * request.topK, DenseLimit) /\ DenseLimit \in Nat
  BY LimitAssumption DEF fetch_target
<1>. HIDE DEF request, fetch_target
<1>. QED
  BY <1>1, <1>3, <1>4 DEF Pos, Larger

\* A half that the search may return is a half of the points of the store.
LEMMA HalvesAreHalves ==
    ASSUME store \in Stores, asked \in Requests
    PROVE  /\ IsFiniteSet(DOMAIN store)
           /\ \A h \in DenseHalf \cup SparseHalf : IsHalf(h, DOMAIN store)
<1>1. IsFiniteSet(DOMAIN store)
  BY StoreAssumption, FS_Subset
<1>2. Matching \in SUBSET DOMAIN store
  BY DEF Matching
<1>3. Cardinality(Matching) \in Nat
  BY <1>1, <1>2, FS_Subset, FS_CardinalityType
<1>4. Smaller(fetch_target, Cardinality(Matching)) \in Nat
  BY <1>3, WantedIsNumber DEF Smaller
<1>5. ASSUME NEW n \in Nat, NEW h \in Arrangements(Matching, n)
      PROVE  IsHalf(h, DOMAIN store)
  <2>1. /\ h \in [1..n -> DOMAIN store] /\ DOMAIN h = 1..n
        /\ \A i, j \in 1..n : h[i] = h[j] => i = j
    BY <1>2 DEF Arrangements
  <2>. QED
    BY <2>1 DEF IsHalf
<1>6. ASSUME NEW h \in DenseHalf \cup SparseHalf
      PROVE  \E n \in Nat : h \in Arrangements(Matching, n)
  BY <1>4 DEF DenseHalf, SparseHalf
<1>. QED
  BY <1>1, <1>5, <1>6

-----------------------------------------------------------------------------
(* The search and the ranking.                                              *)

\* What is ranked is some of the candidates, or all of them without a reranker.
LEMMA PoolIsRanked ==
    ASSUME TypeOK, Positional \/ Reranked
    PROVE  /\ ranked' \in Seq(DOMAIN store)
           /\ ~reranking => ranked' = candidates
<1>1. candidates \in Seq(DOMAIN store) /\ Len(candidates) \in Nat
  BY DEF TypeOK
<1>2. request.topK \in Nat /\ PoolSize \in Nat
  BY WantedIsNumber, LimitAssumption DEF TypeOK, Pos
<1>3. pool_n \in 0..Len(candidates) /\ (~reranking => pool_n = Len(candidates))
  <2>. HIDE DEF request
  <2>. QED
    BY <1>1, <1>2 DEF pool_n, Smaller, Larger
<1>. HIDE DEF pool_n
<1>4. /\ pool \in Seq(DOMAIN store) /\ Len(pool) = pool_n
      /\ pool \in [1..pool_n -> DOMAIN store]
      /\ ~reranking => pool = candidates
  <2>1. /\ pool \in Seq(DOMAIN store) /\ Len(pool) = pool_n
        /\ \A i \in 1..pool_n : pool[i] = candidates[i]
    BY <1>1, <1>3 DEF pool
  <2>2. DOMAIN pool = 1..pool_n /\ pool \in [1..pool_n -> DOMAIN store]
    BY <2>1
  <2>3. ~reranking => pool = candidates
    BY <1>1, <1>3, <2>1, <2>2
  <2>. QED
    BY <2>1, <2>2, <2>3
<1>. HIDE DEF pool
<1>5. CASE Positional
  BY <1>4, <1>5 DEF Positional
<1>6. CASE Reranked
  <2>1. PICK order \in Orders : ranked' = [i \in DOMAIN order |-> pool[order[i]]]
    BY <1>6 DEF Reranked
  <2>2. PICK n \in 1..pool_n : order \in [1..n -> 1..pool_n]
    BY <2>1 DEF Orders, Arrangements
  <2>3. ranked' \in [1..n -> DOMAIN store]
    BY <1>4, <2>1, <2>2
  <2>4. n \in Nat
    BY <1>1, <1>3, <2>2
  <2>5. ranked' \in Seq(DOMAIN store)
    BY <2>3, <2>4
  <2>. QED
    BY <2>5, <1>6 DEF Reranked
<1>. QED
  BY <1>5, <1>6

\* Before the first passage is looked at.
Unread == /\ store \in Stores /\ ranked \in Seq(DOMAIN store)
          /\ selected = <<>> /\ cursor = [k \in Pages |-> 0]
          /\ turn = 1 /\ round = 1
          /\ seenText = {} /\ seenParents = {}

\* With nothing selected there is nothing to say of the selection.
LEMMA NothingSelected == Unread => SelectionInv /\ NoRepeats /\ PagesTakeTurns
<1>. SUFFICES ASSUME Unread PROVE SelectionInv /\ NoRepeats /\ PagesTakeTurns
  OBVIOUS
<1>. USE DEF Unread
<1>1. DOMAIN selected = {} /\ 1..(round - 1) = {}
  OBVIOUS
<1>2. \A i \in DOMAIN ranked : i \in Pos /\ PageKey(ranked[i]) \in Pages
  BY ReturnTextIsText DEF Pos
<1>3. SeenIsSelected
  BY <1>1 DEF SeenIsSelected
<1>4. LookedAt /\ TurnsTaken
  BY <1>2 DEF LookedAt, TurnsTaken, Pos
<1>5. GivenAtTurn /\ RoundsDone /\ RoundsAdmit /\ NoRepeats /\ PagesTakeTurns
  BY <1>1 DEF GivenAtTurn, RoundsDone, RoundsAdmit, NoRepeats, PagesTakeTurns
<1>. QED
  BY <1>3, <1>4, <1>5 DEF SelectionInv

\* The invariant holds before the first query.
LEMMA InitInv == Init => RetrievalInv
<1>. SUFFICES ASSUME Init PROVE RetrievalInv
  OBVIOUS
<1>. USE DEF Init
<1>1. TypeOK
  <2>1. <<>> \in Seq(DOMAIN store) /\ <<>> \in Seq([at : DOMAIN ranked, round : 1..round])
    OBVIOUS
  <2>2. cursor \in [Pages -> 0..Len(ranked)] /\ turn \in 1..(Len(ranked) + 1)
        /\ round \in 1..(Len(selected) + 1)
    OBVIOUS
  <2>. QED
    BY <2>1, <2>2 DEF TypeOK, NoAnswer
<1>2. Fresh /\ FusionOfHalves /\ AllRanked /\ NothingDropped
  BY DEF Fresh, FusionOfHalves, AllRanked, NothingDropped, Ranked
<1>3. SelectionInv /\ NoRepeats /\ PagesTakeTurns
  BY <1>1, NothingSelected DEF TypeOK, Unread
<1>. QED
  BY <1>1, <1>2, <1>3 DEF RetrievalInv

\* The fusion of what the search returned.
LEMMA SearchKeeps == RetrievalInv /\ Search => RetrievalInv'
<1>. SUFFICES ASSUME RetrievalInv, Search PROVE RetrievalInv'
  OBVIOUS
<1>0. /\ TypeOK /\ pc = "search"
      /\ UNCHANGED <<store, reranking, asked, ranked, measured, loop>>
  BY DEF RetrievalInv, Search, Found
<1>1. PICK dense \in DenseHalf, sparse \in SparseHalf : Found(dense, sparse)
  BY DEF Search
<1>2. /\ halves' = <<dense, sparse>> /\ candidates' = Fused(dense, sparse)
      /\ pc' \in {"answered", "rerank"}
      /\ answer'.retrieval \in {"none", "error", "empty", "hybrid", "hybrid+rerank"}
      /\ pc' = "answered" => answer'.retrieval = "empty"
  BY <1>0, <1>1 DEF Found, TypeOK, Refusal
<1>3. /\ IsFiniteSet(DOMAIN store)
      /\ IsHalf(dense, DOMAIN store) /\ IsHalf(sparse, DOMAIN store)
  BY <1>0, HalvesAreHalves DEF TypeOK
<1>4. candidates' \in Seq(DOMAIN store)
  BY <1>2, <1>3, FusedIsOrdered DEF IsHalf
<1>5. TypeOK'
  BY <1>0, <1>2, <1>4 DEF TypeOK, loop
<1>6. Fresh /\ SelectionInv /\ NoRepeats /\ PagesTakeTurns
  BY DEF RetrievalInv
<1>7. Fresh'
  BY <1>0, <1>6 DEF Fresh, loop
<1>8. FusionOfHalves'
  BY <1>0, <1>2, <1>3 DEF FusionOfHalves
<1>9. AllRanked' /\ NothingDropped'
  BY <1>2 DEF AllRanked, NothingDropped, Ranked
<1>10. (SelectionInv /\ NoRepeats /\ PagesTakeTurns)'
  <2>1. Unread'
    BY <1>0, <1>5, <1>6 DEF Fresh, loop, TypeOK, Unread
  <2>. QED
    BY <2>1, NothingSelected, PTL
<1>. QED
  BY <1>5, <1>7, <1>8, <1>9, <1>10 DEF RetrievalInv

\* What the pool is ranked to.
LEMMA RankingKeeps == RetrievalInv /\ (Positional \/ Reranked) => RetrievalInv'
<1>. SUFFICES ASSUME RetrievalInv, Positional \/ Reranked PROVE RetrievalInv'
  OBVIOUS
<1>1. /\ TypeOK /\ pc = "rerank" /\ pc' = "select" /\ measured' \in BOOLEAN
      /\ UNCHANGED <<store, reranking, asked, candidates, loop, answer>>
  BY DEF RetrievalInv, Positional, Reranked, StartSelection
<1>2. ranked' \in Seq(DOMAIN store) /\ (~reranking => ranked' = candidates)
  BY <1>1, PoolIsRanked
<1>3. Fresh
  BY DEF RetrievalInv
<1>4. Unread'
  BY <1>1, <1>2, <1>3 DEF Fresh, loop, TypeOK, Unread
<1>5. TypeOK'
  <2>1. /\ cursor' = [k \in Pages |-> 0] /\ turn' = 1 /\ round' = 1 /\ selected' = <<>>
        /\ seenText' = {} /\ Len(ranked') \in Nat
    BY <1>2, <1>4 DEF Unread
  <2>2. selected' \in Seq([at : DOMAIN ranked', round : 1..round'])
    BY <2>1
  <2>3. /\ cursor' \in [Pages -> 0..Len(ranked')]
        /\ turn' \in 1..(Len(ranked') + 1) /\ round' \in 1..(Len(selected') + 1)
    BY <2>1
  <2>. QED
    BY <1>1, <1>2, <2>1, <2>2, <2>3 DEF TypeOK
<1>6. Fresh' /\ FusionOfHalves' /\ AllRanked' /\ NothingDropped'
  BY <1>1, <1>2 DEF Fresh, FusionOfHalves, AllRanked, NothingDropped, Ranked
<1>7. (SelectionInv /\ NoRepeats /\ PagesTakeTurns)'
  BY <1>4, NothingSelected, PTL
<1>. QED
  BY <1>5, <1>6, <1>7 DEF RetrievalInv

-----------------------------------------------------------------------------
(* The selection.                                                           *)

\* What is selected is a passage of the ranking, in a round there was.
LEMMA SelectedIsRanked ==
    ASSUME TypeOK, NEW n \in DOMAIN selected
    PROVE  /\ selected[n].at \in DOMAIN ranked
           /\ selected[n].round \in 1..round
           /\ ranked[selected[n].at] \in DOMAIN store
<1>1. selected[n] \in [at : DOMAIN ranked, round : 1..round]
  <2>. DEFINE R == [at : DOMAIN ranked, round : 1..round]
  <2>1. selected \in Seq(R)
    BY DEF TypeOK
  <2>. HIDE DEF R
  <2>2. selected \in [1..Len(selected) -> R] /\ DOMAIN selected = 1..Len(selected)
    BY <2>1
  <2>3. selected[n] \in R
    BY <2>2
  <2>. QED
    BY <2>3 DEF R
<1>2. selected[n].at \in DOMAIN ranked /\ selected[n].round \in 1..round
  BY <1>1
<1>3. \A i \in DOMAIN ranked : ranked[i] \in DOMAIN store
  BY DEF TypeOK
<1>. QED
  BY <1>2, <1>3

\* With the ranking and the request as they were its passages read as they did.
LEMMA SameReading ==
    ASSUME UNCHANGED <<store, asked, ranked>>
    PROVE  /\ \A i : /\ ReturnText(ranked[i])' = ReturnText(ranked[i])
                     /\ Lineage(ranked[i])' = Lineage(ranked[i])
                     /\ PageKey(ranked[i])' = PageKey(ranked[i])
           /\ collapse_parents' = collapse_parents
           /\ \A i, j : Same(i, j)' = Same(i, j)
           /\ \A i : IsBest(i)' = IsBest(i)
<1>1. /\ \A i : /\ ReturnText(ranked[i])' = ReturnText(ranked[i])
                /\ Lineage(ranked[i])' = Lineage(ranked[i])
                /\ PageKey(ranked[i])' = PageKey(ranked[i])
      /\ collapse_parents' = collapse_parents
  BY DEF ReturnText, Lineage, PageKey, collapse_parents, request
<1>2. \A i, j : Same(i, j)' = Same(i, j)
  BY <1>1 DEF Same
<1>3. \A i : IsBest(i)' = IsBest(i)
  BY <1>1 DEF IsBest
<1>. QED
  BY <1>1, <1>2, <1>3

\* The passages selected so far stay.
Extended == /\ DOMAIN selected \subseteq DOMAIN selected'
            /\ \A n \in DOMAIN selected : selected'[n] = selected[n]

\* A longer selection represents what the shorter did.
LEMMA MoreSelected ==
    ASSUME UNCHANGED <<store, asked, ranked>>, Extended
    PROVE  /\ \A i : Represented(i) => Represented(i)'
           /\ \A k, r : Gave(k, r) => Gave(k, r)'
<1>1. ASSUME NEW i, Represented(i) PROVE Represented(i)'
  BY <1>1, SameReading DEF Represented, Extended
<1>2. ASSUME NEW k, NEW r, Gave(k, r) PROVE Gave(k, r)'
  BY <1>2, SameReading DEF Gave, Extended
<1>. QED
  BY <1>1, <1>2

\* A step that selects nothing keeps what is said of the selected passages.
LEMMA NoneSelected ==
    ASSUME UNCHANGED <<store, asked, ranked, selected>>
    PROVE  /\ \A i : Represented(i)' = Represented(i)
           /\ \A k, r : Gave(k, r)' = Gave(k, r)
           /\ NoRepeats => NoRepeats'
           /\ RoundsAdmit => RoundsAdmit'
<1>1. \A i : Represented(i)' = Represented(i)
  BY SameReading DEF Represented
<1>2. \A k, r : Gave(k, r)' = Gave(k, r)
  BY SameReading DEF Gave
<1>3. NoRepeats => NoRepeats'
  BY SameReading DEF NoRepeats
<1>4. RoundsAdmit => RoundsAdmit'
  BY DEF RoundsAdmit
<1>. QED
  BY <1>1, <1>2, <1>3, <1>4

\* Pages still take turns when the selection stays.
LEMMA TurnsKept ==
    ASSUME UNCHANGED <<store, asked, ranked, selected>>, PagesTakeTurns
    PROVE  PagesTakeTurns'
<1>1. ASSUME NEW n \in DOMAIN selected, NEW m \in DOMAIN selected,
             selected[m].round = selected[n].round,
             PageKey(ranked[selected[m].at])' = PageKey(ranked[selected[n].at])'
      PROVE  m = n
  BY <1>1, SameReading DEF PagesTakeTurns
<1>2. ASSUME NEW n \in DOMAIN selected, NEW r \in 1..(selected[n].round - 1),
             NEW i \in DOMAIN ranked
      PROVE  (Gave(PageKey(ranked[i]), r) \/ Chosen(i) \/ Represented(i))'
  <2>1. Gave(PageKey(ranked[i]), r) \/ Chosen(i) \/ Represented(i)
    BY DEF PagesTakeTurns
  <2>2. Chosen(i)' = Chosen(i)
    BY DEF Chosen
  <2>3. PageKey(ranked[i])' = PageKey(ranked[i])
    BY SameReading
  <2>4. Gave(PageKey(ranked[i]), r) => Gave(PageKey(ranked[i]), r)'
    BY <2>3, SameReading DEF Gave
  <2>. QED
    BY <2>1, <2>2, <2>4, NoneSelected
<1>. QED
  BY <1>1, <1>2 DEF PagesTakeTurns

\* What was seen is still what was selected when the selection stays.
LEMMA TextsKept ==
    ASSUME UNCHANGED <<store, asked, ranked, selected, seenText, seenParents>>,
           SeenIsSelected
    PROVE  SeenIsSelected'
<1>. DEFINE text(n) == ReturnText(ranked[selected[n].at])
            section(n) == Lineage(ranked[selected[n].at])
<1>1. \A n \in DOMAIN selected : text(n)' = text(n) /\ section(n)' = section(n)
  BY SameReading
<1>2. DOMAIN selected' = DOMAIN selected /\ collapse_parents' = collapse_parents
  BY SameReading
<1>. HIDE DEF text, section
<1>3. /\ {text(n) : n \in DOMAIN selected}' = {text(n) : n \in DOMAIN selected}
      /\ {section(n) : n \in DOMAIN selected}' = {section(n) : n \in DOMAIN selected}
  BY <1>1, <1>2
<1>4. SeenIsSelected <=>
        /\ seenText = {text(n) : n \in DOMAIN selected}
        /\ seenParents = IF collapse_parents THEN {section(n) : n \in DOMAIN selected}
                         ELSE {}
  BY DEF SeenIsSelected, text, section
<1>5. SeenIsSelected' <=>
        /\ seenText' = {text(n) : n \in DOMAIN selected}'
        /\ seenParents' = IF collapse_parents' THEN {section(n) : n \in DOMAIN selected}'
                          ELSE {}
  BY DEF SeenIsSelected, text, section
<1>. QED
  BY <1>2, <1>3, <1>4, <1>5

\* A step of no part of the selection keeps all that is said of it.
LEMMA SelectionKept ==
    ASSUME UNCHANGED <<store, asked, ranked, loop>>,
           SelectionInv, NoRepeats, PagesTakeTurns
    PROVE  (SelectionInv /\ NoRepeats /\ PagesTakeTurns)'
<1>. USE DEF loop, SelectionInv
<1>1. (NoRepeats /\ PagesTakeTurns /\ RoundsAdmit)'
  BY NoneSelected, TurnsKept
<1>2. SeenIsSelected'
  BY TextsKept
<1>3. LookedAt'
  BY SameReading, NoneSelected DEF LookedAt
<1>4. TurnsTaken'
  BY SameReading, NoneSelected DEF TurnsTaken, Rest
<1>5. GivenAtTurn'
  BY SameReading DEF GivenAtTurn
<1>6. RoundsDone'
  BY SameReading, NoneSelected DEF RoundsDone
<1>. QED
  BY <1>1, <1>2, <1>3, <1>4, <1>5, <1>6

\* A search or a reranking that fails leaves the selection as it was.
LEMMA FailureKeeps ==
    RetrievalInv /\ (SearchFails \/ RerankFails \/ UNCHANGED vars) => RetrievalInv'
<1>. SUFFICES ASSUME RetrievalInv, SearchFails \/ RerankFails \/ UNCHANGED vars
              PROVE  RetrievalInv'
  OBVIOUS
<1>1. /\ UNCHANGED <<store, reranking, asked, ranked, measured, loop, search>>
      /\ \/ pc' = "answered" /\ answer'.retrieval = "error"
         \/ UNCHANGED <<pc, answer>>
  BY DEF SearchFails, RerankFails, Refusal, vars
<1>2. (SelectionInv /\ NoRepeats /\ PagesTakeTurns)'
  BY <1>1, SelectionKept DEF RetrievalInv
<1>3. TypeOK'
  BY <1>1 DEF RetrievalInv, TypeOK, loop, search
<1>4. Fresh' /\ FusionOfHalves' /\ AllRanked'
  BY <1>1 DEF RetrievalInv, Fresh, FusionOfHalves, AllRanked, loop, search
<1>5. NothingDropped'
  <2>1. CASE pc' = "answered" /\ answer'.retrieval = "error"
    BY <2>1 DEF NothingDropped, Ranked
  <2>2. CASE UNCHANGED <<pc, answer>>
    <3>1. request' = request
      BY <1>1 DEF request
    <3>2. \A i : Chosen(i)' = Chosen(i) /\ Represented(i)' = Represented(i)
      BY <1>1, NoneSelected DEF Chosen, loop
    <3>. HIDE DEF request
    <3>. QED
      BY <1>1, <2>2, <3>1, <3>2 DEF RetrievalInv, NothingDropped, Ranked, loop, search
  <2>. QED
    BY <1>1, <2>1, <2>2
<1>. QED
  BY <1>2, <1>3, <1>4, <1>5 DEF RetrievalInv

\* A page that has a passage has a best one.
LEMMA PageHasBest ==
    ASSUME TypeOK, NEW i \in DOMAIN ranked
    PROVE  \E t \in DOMAIN ranked : IsBest(t) /\ PageKey(ranked[t]) = PageKey(ranked[i])
<1>. DEFINE mine == {t \in DOMAIN ranked : PageKey(ranked[t]) = PageKey(ranked[i])}
<1>1. DOMAIN ranked = 1..Len(ranked) /\ Len(ranked) \in Nat
  BY DEF TypeOK
<1>2. mine \in SUBSET Nat /\ mine # {}
  BY <1>1
<1>3. PICK t \in mine : \A m \in mine : t <= m
  BY <1>2, LeastNat
<1>4. IsBest(t)
  BY <1>1, <1>3 DEF IsBest
<1>. QED
  BY <1>3, <1>4

\* When every page had its turn each gave a passage, or has no more to give.
LEMMA RoundIsDone ==
    ASSUME TypeOK, TurnsTaken, LookedAt, turn > Len(ranked), NEW i \in DOMAIN ranked
    PROVE  Gave(PageKey(ranked[i]), round) \/ Represented(i)
<1>1. PICK t \in DOMAIN ranked : IsBest(t) /\ PageKey(ranked[t]) = PageKey(ranked[i])
  BY PageHasBest
<1>2. DOMAIN ranked = 1..Len(ranked) /\ Len(ranked) \in Nat /\ turn \in Nat
  BY DEF TypeOK
<1>3. t < turn
  BY <1>2
<1>4. Gave(PageKey(ranked[i]), round) \/ Rest(PageKey(ranked[i])) = {}
  BY <1>1, <1>3 DEF TurnsTaken
<1>5. ASSUME Rest(PageKey(ranked[i])) = {} PROVE Represented(i)
  <2>1. ~(i > cursor[PageKey(ranked[i])])
    BY <1>5 DEF Rest
  <2>2. PageKey(ranked[i]) \in Pages
    BY ReturnTextIsText DEF TypeOK
  <2>3. i \in Nat /\ cursor[PageKey(ranked[i])] \in Nat
    BY <1>2, <2>2 DEF TypeOK
  <2>. QED
    BY <2>1, <2>3 DEF LookedAt
<1>. QED
  BY <1>4, <1>5

\* The passage that is next: of the page whose turn it is, after those looked at.
LEMMA NextIsOfPage ==
    ASSUME TypeOK, HasTurn, NEW i \in DOMAIN ranked, IsNext(i)
    PROVE  /\ key \in Pages /\ i \in Nat /\ i > cursor[key]
           /\ i \in 0..Len(ranked) /\ cursor[key] \in Nat
           /\ PageKey(ranked[i]) = key /\ PageKey(ranked[turn]) = key
           /\ ranked[i] \in DOMAIN store
           /\ ReturnText(ranked[i]) \in Texts \ {NoText}
           /\ \A j \in DOMAIN ranked :
                 PageKey(ranked[j]) = key /\ j > cursor[key] => i <= j
<1>1. /\ DOMAIN ranked = 1..Len(ranked) /\ Len(ranked) \in Nat
      /\ store \in Stores /\ turn \in DOMAIN ranked
      /\ \A j \in DOMAIN ranked : ranked[j] \in DOMAIN store
  BY DEF TypeOK, HasTurn
<1>2. key \in Pages /\ PageKey(ranked[turn]) = key
  BY <1>1, ReturnTextIsText DEF key
<1>3. cursor[key] \in Nat
  BY <1>1, <1>2 DEF TypeOK
<1>4. /\ i > cursor[key] /\ PageKey(ranked[i]) = key
      /\ \A j \in DOMAIN ranked : PageKey(ranked[j]) = key /\ j > cursor[key] => i <= j
  BY DEF IsNext, Rest
<1>5. ReturnText(ranked[i]) \in Texts \ {NoText}
  BY <1>1, ReturnTextIsText
<1>. QED
  BY <1>1, <1>2, <1>3, <1>4, <1>5

\* A cursor that moves to the next passage leaves less of every page, and passes
\* no passage but that one.
LEMMA CursorMoves ==
    ASSUME TypeOK, HasTurn, NEW i \in DOMAIN ranked, IsNext(i),
           cursor' = [cursor EXCEPT ![key] = i], UNCHANGED <<store, ranked>>
    PROVE  /\ cursor' \in [Pages -> 0..Len(ranked)]
           /\ \A k \in Pages : Rest(k)' \subseteq Rest(k)
           /\ \A j \in DOMAIN ranked :
                 j <= cursor'[PageKey(ranked[j])]
                   => j <= cursor[PageKey(ranked[j])] \/ j = i
<1>1. /\ cursor \in [Pages -> 0..Len(ranked)] /\ Len(ranked) \in Nat
      /\ DOMAIN ranked = 1..Len(ranked) /\ store \in Stores
  BY DEF TypeOK
<1>2. \A k \in Pages : cursor'[k] = IF k = key THEN i ELSE cursor[k]
  BY <1>1
<1>3. \A k \in Pages : cursor[k] \in Nat /\ cursor'[k] \in Nat /\ cursor[k] <= cursor'[k]
  BY <1>1, <1>2, NextIsOfPage
<1>4. \A j \in DOMAIN ranked : PageKey(ranked[j])' = PageKey(ranked[j])
  BY DEF PageKey
<1>5. cursor' \in [Pages -> 0..Len(ranked)]
  BY <1>1, NextIsOfPage
<1>6. \A k \in Pages : Rest(k)' \subseteq Rest(k)
  BY <1>1, <1>3, <1>4 DEF Rest
<1>7. ASSUME NEW j \in DOMAIN ranked, j <= cursor'[PageKey(ranked[j])]
      PROVE  j <= cursor[PageKey(ranked[j])] \/ j = i
  <2>1. PageKey(ranked[j]) \in Pages /\ j \in Nat
    BY <1>1, ReturnTextIsText DEF TypeOK
  <2>2. CASE PageKey(ranked[j]) = key
    BY <1>2, <1>3, <1>7, <2>1, <2>2, NextIsOfPage
  <2>3. CASE PageKey(ranked[j]) # key
    BY <1>2, <1>7, <2>1, <2>3
  <2>. QED
    BY <2>2, <2>3
<1>. QED
  BY <1>5, <1>6, <1>7

\* A passage that is skipped says what a selected one says.
LEMMA SkippedIsRepresented ==
    ASSUME TypeOK, SeenIsSelected, HasTurn, NEW i \in DOMAIN ranked, IsNext(i),
           TextSeen(ranked[i]) \/ LineageSeen(ranked[i])
    PROVE  ReturnText(ranked[i]) \in seenText /\ Represented(i)
<1>1. ReturnText(ranked[i]) \in seenText
  <2>1. CASE TextSeen(ranked[i])
    BY <2>1 DEF TextSeen
  <2>2. CASE LineageSeen(ranked[i])
    <3>1. collapse_parents /\ Lineage(ranked[i]) \in seenParents
      BY <2>2 DEF LineageSeen
    <3>2. PICK n \in DOMAIN selected :
             Lineage(ranked[i]) = Lineage(ranked[selected[n].at])
      BY <3>1 DEF SeenIsSelected
    <3>3. /\ ranked[i] \in DOMAIN store /\ ranked[selected[n].at] \in DOMAIN store
          /\ store \in Stores
      BY SelectedIsRanked, SMTT(30) DEF TypeOK
    <3>4. store[ranked[i]].parent = store[ranked[selected[n].at]].parent
      BY <3>2 DEF Lineage
    <3>5. ReturnText(ranked[i]) = ReturnText(ranked[selected[n].at])
      BY <3>1, <3>3, <3>4, ReturnTextIsText
    <3>. QED
      BY <3>5 DEF SeenIsSelected
  <2>. QED
    BY <2>1, <2>2
<1>2. PICK n \in DOMAIN selected : ReturnText(ranked[selected[n].at]) = ReturnText(ranked[i])
  BY <1>1 DEF SeenIsSelected
<1>. QED
  BY <1>1, <1>2 DEF Represented, Same

\* A passage that repeats is passed over.
LEMMA SkipKeeps ==
    ASSUME NEW i \in DOMAIN ranked
    PROVE  RetrievalInv /\ Skip(i) => RetrievalInv'
<1>. SUFFICES ASSUME RetrievalInv, Skip(i) PROVE RetrievalInv'
  OBVIOUS
<1>1. /\ TypeOK /\ SelectionInv /\ NoRepeats /\ PagesTakeTurns /\ AllRanked
      /\ SeenIsSelected
  BY DEF RetrievalInv, SelectionInv
<1>2. /\ HasTurn /\ IsNext(i) /\ (TextSeen(ranked[i]) \/ LineageSeen(ranked[i]))
      /\ cursor' = [cursor EXCEPT ![key] = i] /\ pc = "select" /\ pc' = "select"
      /\ seenText' = seenText \cup ({ReturnText(ranked[i])} \ {NoText})
      /\ UNCHANGED <<store, reranking, asked, search, ranked, measured, turn, round,
                     selected, seenParents, answer>>
  BY DEF Skip, HasTurn
<1>3. seenText' = seenText /\ Represented(i)
  BY <1>1, <1>2, SkippedIsRepresented
<1>4. TypeOK'
  BY <1>1, <1>2, <1>3, CursorMoves DEF TypeOK, search
<1>5. Fresh' /\ FusionOfHalves' /\ AllRanked' /\ NothingDropped'
  BY <1>1, <1>2 DEF Fresh, FusionOfHalves, AllRanked, NothingDropped, Ranked, search
<1>6. (NoRepeats /\ PagesTakeTurns /\ RoundsAdmit)'
  BY <1>1, <1>2, NoneSelected, TurnsKept DEF SelectionInv
<1>7. SeenIsSelected'
  BY <1>1, <1>2, <1>3, TextsKept
<1>8. LookedAt'
  BY <1>1, <1>2, <1>3, CursorMoves, NoneSelected, SameReading DEF SelectionInv, LookedAt
<1>9. TurnsTaken'
  <2>1. \A t \in DOMAIN ranked : PageKey(ranked[t]) \in Pages
    BY <1>1, ReturnTextIsText DEF TypeOK
  <2>. QED
    BY <1>1, <1>2, <2>1, CursorMoves, NoneSelected, SameReading, ZenonT(60) DEF SelectionInv, TurnsTaken
<1>10. GivenAtTurn'
  BY <1>1, <1>2, SameReading DEF SelectionInv, GivenAtTurn
<1>11. RoundsDone'
  BY <1>1, <1>2, SameReading, NoneSelected DEF SelectionInv, RoundsDone
<1>. QED
  BY <1>4, <1>5, <1>6, <1>7, <1>8, <1>9, <1>10, <1>11 DEF RetrievalInv, SelectionInv

\* A passage that is admitted comes after those selected, and is new.
LEMMA AdmittedIsNew ==
    ASSUME TypeOK, SeenIsSelected, HasTurn, NEW i \in DOMAIN ranked, IsNext(i),
           ~TextSeen(ranked[i]), ~LineageSeen(ranked[i])
    PROVE  \A n \in DOMAIN selected : ~Same(selected[n].at, i) /\ ~Same(i, selected[n].at)
<1>. SUFFICES ASSUME NEW n \in DOMAIN selected
              PROVE  ~Same(selected[n].at, i) /\ ~Same(i, selected[n].at)
  OBVIOUS
<1>1. ReturnText(ranked[i]) \notin seenText
  BY NextIsOfPage DEF TextSeen
<1>2. ReturnText(ranked[selected[n].at]) \in seenText
  BY DEF SeenIsSelected
<1>3. collapse_parents => /\ Lineage(ranked[i]) \notin seenParents
                          /\ Lineage(ranked[selected[n].at]) \in seenParents
  BY DEF SeenIsSelected, LineageSeen
<1>. QED
  BY <1>1, <1>2, <1>3 DEF Same

\* The one that has its turn is its page's best, and its page gave nothing yet.
LEMMA NotGivenYet ==
    ASSUME TypeOK, GivenAtTurn, HasTurn, NEW n \in DOMAIN selected,
           selected[n].round = round
    PROVE  PageKey(ranked[selected[n].at]) # key
<1>. SUFFICES ASSUME PageKey(ranked[selected[n].at]) = key PROVE FALSE
  OBVIOUS
<1>1. PICK t \in DOMAIN ranked : t < turn /\ PageKey(ranked[t]) = key
  BY DEF GivenAtTurn
<1>2. t \in 1..(turn - 1)
  BY <1>1, SMTT(30) DEF TypeOK
<1>. QED
  BY <1>1, <1>2 DEF HasTurn, IsBest, key

\* A passage that is new is selected, and its page has had its turn.
LEMMA AdmitKeeps ==
    ASSUME NEW i \in DOMAIN ranked
    PROVE  RetrievalInv /\ Admit(i) => RetrievalInv'
<1>. SUFFICES ASSUME RetrievalInv, Admit(i) PROVE RetrievalInv'
  OBVIOUS
<1>. DEFINE e == [at |-> i, round |-> round]
<1>0. PICK new : new = Len(selected) + 1
  OBVIOUS
<1>1. /\ TypeOK /\ SelectionInv /\ NoRepeats /\ PagesTakeTurns /\ AllRanked
      /\ SeenIsSelected /\ GivenAtTurn
  BY DEF RetrievalInv, SelectionInv
<1>2. /\ HasTurn /\ IsNext(i) /\ ~TextSeen(ranked[i]) /\ ~LineageSeen(ranked[i])
      /\ selected' = Append(selected, e)
      /\ cursor' = [cursor EXCEPT ![key] = i] /\ pc = "select" /\ pc' = "select"
      /\ turn' = turn + 1
      /\ UNCHANGED <<store, reranking, asked, search, ranked, measured, round, answer>>
  BY DEF Admit, HasTurn
<1>3. /\ seenText' = seenText \cup {ReturnText(ranked[i])}
      /\ seenParents' = IF collapse_parents THEN seenParents \cup {Lineage(ranked[i])}
                        ELSE seenParents
  BY <1>1, <1>2, NextIsOfPage DEF Admit, Noted
<1>4. /\ DOMAIN selected' = DOMAIN selected \cup {new} /\ new \notin DOMAIN selected
      /\ \A n \in DOMAIN selected : selected'[n] = selected[n]
      /\ selected'[new] = e /\ new \in Nat /\ Len(selected') = new
      /\ DOMAIN selected = 1..Len(selected)
  BY <1>0, <1>1, <1>2, SMTT(30) DEF TypeOK
<1>5. Extended
  BY <1>4 DEF Extended
<1>6. /\ ranked' = ranked /\ turn \in DOMAIN ranked /\ IsBest(turn)
      /\ DOMAIN ranked = 1..Len(ranked) /\ Len(ranked) \in Nat /\ turn \in Nat
      /\ round \in Nat /\ round \in 1..round
  BY <1>1, <1>2 DEF TypeOK, HasTurn
<1>7. /\ PageKey(ranked[i]) = key /\ PageKey(ranked[turn]) = key
      /\ ReturnText(ranked[i]) \in Texts /\ key \in Pages
  BY <1>1, <1>2, NextIsOfPage
<1>8. TypeOK'
  <2>1. selected' \in Seq([at : DOMAIN ranked', round : 1..round'])
    BY <1>1, <1>2, <1>6 DEF TypeOK
  <2>2. turn' \in 1..(Len(ranked') + 1) /\ round' \in 1..(Len(selected') + 1)
    BY <1>0, <1>1, <1>2, <1>4, <1>6 DEF TypeOK
  <2>3. cursor' \in [Pages -> 0..Len(ranked')]
    BY <1>1, <1>2, CursorMoves
  <2>4. seenText' \subseteq Texts
    BY <1>1, <1>3, <1>7 DEF TypeOK
  <2>. QED
    BY <1>1, <1>2, <2>1, <2>2, <2>3, <2>4 DEF TypeOK, search
<1>9. Fresh' /\ FusionOfHalves' /\ AllRanked' /\ NothingDropped'
  BY <1>1, <1>2 DEF Fresh, FusionOfHalves, AllRanked, NothingDropped, Ranked, search
<1>10. Represented(i)' /\ \A k : k = key => Gave(k, round)'
  <2>1. new \in DOMAIN selected' /\ selected'[new].at = i /\ selected'[new].round = round'
    BY <1>2, <1>4
  <2>2. PageKey(ranked[i])' = key
    BY <1>2, <1>7, SameReading
  <2>3. Represented(i)'
    BY <2>1 DEF Represented, Same
  <2>4. PageKey(ranked[selected[new].at])' = key
    BY <2>1, <2>2
  <2>. QED
    BY <2>1, <2>3, <2>4 DEF Gave
<1>11. NoRepeats'
  <2>1. \A n \in DOMAIN selected : ~Same(selected[n].at, i) /\ ~Same(i, selected[n].at)
    BY <1>1, <1>2, AdmittedIsNew
  <2>2. \A m, n \in DOMAIN selected : Same(selected[m].at, selected[n].at) => m = n
    BY <1>1 DEF NoRepeats
  <2>3. \A k, l : Same(k, l)' = Same(k, l)
    BY <1>2, SameReading
  <2>4. ASSUME NEW m \in DOMAIN selected', NEW n \in DOMAIN selected',
               Same(selected'[m].at, selected'[n].at)
        PROVE  m = n
    BY <1>4, <2>1, <2>2, <2>4
  <2>. QED
    BY <2>3, <2>4 DEF NoRepeats
<1>12. SeenIsSelected'
  <2>. DEFINE text(n) == ReturnText(ranked[selected[n].at])
              section(n) == Lineage(ranked[selected[n].at])
  <2>1. \A n \in DOMAIN selected : text(n)' = text(n) /\ section(n)' = section(n)
    BY <1>2, <1>4, SameReading
  <2>6. \A n : n = new => text(n)' = ReturnText(ranked[i]) /\ section(n)' = Lineage(ranked[i])
    BY <1>2, <1>4, SameReading
  <2>2. collapse_parents' = collapse_parents
    BY <1>2, SameReading
  <2>3. /\ seenText = {text(n) : n \in DOMAIN selected}
        /\ seenParents = IF collapse_parents THEN {section(n) : n \in DOMAIN selected}
                         ELSE {}
    BY <1>1 DEF SeenIsSelected
  <2>4. SeenIsSelected' <=>
          /\ seenText' = {text(n) : n \in DOMAIN selected}'
          /\ seenParents' = IF collapse_parents' THEN {section(n) : n \in DOMAIN selected}'
                            ELSE {}
    BY DEF SeenIsSelected
  <2>. HIDE DEF text, section
  <2>5. /\ {text(n) : n \in DOMAIN selected}' = seenText \cup {ReturnText(ranked[i])}
        /\ collapse_parents => {section(n) : n \in DOMAIN selected}'
                                  = seenParents \cup {Lineage(ranked[i])}
    <3>1. /\ {text(n) : n \in DOMAIN selected}' = {text(n)' : n \in DOMAIN selected'}
          /\ {section(n) : n \in DOMAIN selected}' = {section(n)' : n \in DOMAIN selected'}
      OBVIOUS
    <3>2. new \in DOMAIN selected'
      BY <1>4
    <3>. QED
      BY <1>4, <2>1, <2>3, <2>6, <3>1, <3>2
  <2>. QED
    BY <1>3, <2>2, <2>3, <2>4, <2>5
<1>13. LookedAt'
  BY <1>1, <1>2, <1>5, <1>10, CursorMoves, MoreSelected, SameReading DEF SelectionInv, LookedAt
<1>14. TurnsTaken'
  <2>1. ASSUME NEW t \in DOMAIN ranked, t < turn, IsBest(t)
        PROVE  (Gave(PageKey(ranked[t]), round) \/ Rest(PageKey(ranked[t])) = {})'
    <3>1. Gave(PageKey(ranked[t]), round) \/ Rest(PageKey(ranked[t])) = {}
      BY <1>1, <2>1 DEF SelectionInv, TurnsTaken
    <3>2. PageKey(ranked[t]) \in Pages
      BY <1>1, ReturnTextIsText DEF TypeOK
    <3>3. Rest(PageKey(ranked[t]))' \subseteq Rest(PageKey(ranked[t]))
      BY <1>1, <1>2, <3>2, CursorMoves, SameReading
    <3>4. Gave(PageKey(ranked[t]), round) => Gave(PageKey(ranked[t]), round)'
      BY <1>2, <1>5, MoreSelected, SameReading
    <3>. QED
      BY <3>1, <3>3, <3>4
  <2>2. ASSUME NEW t \in DOMAIN ranked, t = turn
        PROVE  Gave(PageKey(ranked[t]), round)'
    <3>1. PageKey(ranked[t])' = key
      BY <1>2, <1>7, <2>2, SameReading
    <3>. QED
      BY <1>10, <3>1
  <2>3. \A t \in DOMAIN ranked : t < turn' => t < turn \/ t = turn
    BY <1>2, <1>6
  <2>4. \A t : IsBest(t)' = IsBest(t)
    BY <1>2, SameReading
  <2>. QED
    BY <1>2, <2>1, <2>2, <2>3, <2>4 DEF TurnsTaken
<1>15. GivenAtTurn'
  <2>1. turn < turn' /\ \A t \in DOMAIN ranked : t < turn => t < turn'
    BY <1>2, <1>6
  <2>2. ASSUME NEW n \in DOMAIN selected', selected'[n].round = round
        PROVE  \E t \in DOMAIN ranked : /\ t < turn' /\ IsBest(t)
                                        /\ PageKey(ranked[t]) = PageKey(ranked[selected'[n].at])
    BY <1>1, <1>4, <1>6, <1>7, <2>1, <2>2 DEF GivenAtTurn
  <2>. QED
    BY <1>2, <2>2, SameReading DEF GivenAtTurn
<1>16. RoundsDone'
  <2>1. ASSUME NEW r \in 1..(round - 1), NEW j \in DOMAIN ranked
        PROVE  (Gave(PageKey(ranked[j]), r) \/ Represented(j))'
    <3>1. Gave(PageKey(ranked[j]), r) \/ Represented(j)
      BY <1>1 DEF SelectionInv, RoundsDone
    <3>. QED
      BY <1>2, <1>5, <3>1, MoreSelected, SameReading
  <2>. QED
    BY <1>2, <2>1 DEF RoundsDone
<1>17. RoundsAdmit'
  <2>1. round <= new
    BY <1>0, <1>1 DEF TypeOK
  <2>. QED
    BY <1>1, <1>4, <2>1 DEF SelectionInv, RoundsAdmit
<1>18. PagesTakeTurns'
  <2>1. ASSUME NEW n \in DOMAIN selected', NEW m \in DOMAIN selected',
               selected'[m].round = selected'[n].round,
               PageKey(ranked[selected'[m].at]) = PageKey(ranked[selected'[n].at])
        PROVE  m = n
    <3>1. \A l \in DOMAIN selected :
             selected[l].round = round => PageKey(ranked[selected[l].at]) # key
      BY <1>1, <1>2, NotGivenYet
    <3>. QED
      BY <1>1, <1>4, <1>7, <2>1, <3>1 DEF PagesTakeTurns
  <2>2. ASSUME NEW n \in DOMAIN selected', NEW r \in 1..(selected'[n].round - 1),
               NEW j \in DOMAIN ranked
        PROVE  (Gave(PageKey(ranked[j]), r) \/ Represented(j))'
    <3>1. selected'[n].round \in 1..round
      BY <1>1, <1>4, <1>6, SelectedIsRanked
    <3>2. r \in 1..(round' - 1)
      BY <1>2, <1>6, <3>1, SMTT(30)
    <3>. QED
      BY <1>2, <1>16, <3>2 DEF RoundsDone
  <2>. QED
    BY <1>2, <2>1, <2>2, SameReading DEF PagesTakeTurns
<1>. QED
  BY <1>8, <1>9, <1>11, <1>12, <1>13, <1>14, <1>15, <1>16, <1>17, <1>18
     DEF RetrievalInv, SelectionInv

\* A page with nothing left passes.
LEMMA PassTurnKeeps == RetrievalInv /\ PassTurn => RetrievalInv'
<1>. SUFFICES ASSUME RetrievalInv, PassTurn PROVE RetrievalInv'
  OBVIOUS
<1>1. /\ TypeOK /\ SelectionInv /\ NoRepeats /\ PagesTakeTurns
      /\ SeenIsSelected /\ TurnsTaken /\ GivenAtTurn
  BY DEF RetrievalInv, SelectionInv
<1>2. /\ pc = "select" /\ turn \in DOMAIN ranked /\ (IsBest(turn) => Rest(key) = {})
      /\ turn' = turn + 1
      /\ UNCHANGED <<store, reranking, asked, pc, search, ranked, measured, cursor,
                     round, selected, seenText, seenParents, answer>>
  BY DEF PassTurn
<1>3. DOMAIN ranked = 1..Len(ranked) /\ Len(ranked) \in Nat /\ turn \in Nat
  BY <1>1 DEF TypeOK
<1>4. TypeOK'
  BY <1>1, <1>2, <1>3 DEF TypeOK, search
<1>5. Fresh' /\ FusionOfHalves' /\ AllRanked' /\ NothingDropped'
  BY <1>2 DEF RetrievalInv, Fresh, FusionOfHalves, AllRanked, NothingDropped, Ranked, search
<1>6. (NoRepeats /\ PagesTakeTurns /\ RoundsAdmit /\ SeenIsSelected)'
  BY <1>1, <1>2, NoneSelected, TurnsKept, TextsKept DEF SelectionInv
<1>7. LookedAt' /\ RoundsDone'
  BY <1>1, <1>2, SameReading, NoneSelected DEF SelectionInv, LookedAt, RoundsDone
<1>8. TurnsTaken'
  <2>1. \A k : Rest(k)' = Rest(k)
    BY <1>2, SameReading DEF Rest
  <2>2. ASSUME NEW t \in DOMAIN ranked, t < turn', IsBest(t)
        PROVE  Gave(PageKey(ranked[t]), round) \/ Rest(PageKey(ranked[t])) = {}
    <3>1. t < turn \/ t = turn
      BY <1>2, <1>3, <2>2
    <3>. QED
      BY <1>1, <1>2, <2>2, <3>1 DEF TurnsTaken, key
  <2>. QED
    BY <1>2, <2>1, <2>2, NoneSelected, SameReading DEF TurnsTaken
<1>9. GivenAtTurn'
  <2>1. \A t \in DOMAIN ranked : t < turn => t < turn'
    BY <1>2, <1>3
  <2>. QED
    BY <1>1, <1>2, <2>1, SameReading DEF GivenAtTurn
<1>. QED
  BY <1>4, <1>5, <1>6, <1>7, <1>8, <1>9 DEF RetrievalInv, SelectionInv

\* A round ends when every page had its turn.
LEMMA NextRoundKeeps == RetrievalInv /\ NextRound => RetrievalInv'
<1>. SUFFICES ASSUME RetrievalInv, NextRound PROVE RetrievalInv'
  OBVIOUS
<1>1. /\ TypeOK /\ SelectionInv /\ NoRepeats /\ PagesTakeTurns
      /\ SeenIsSelected /\ TurnsTaken /\ LookedAt /\ RoundsDone
  BY DEF RetrievalInv, SelectionInv
<1>2. /\ pc = "select" /\ turn > Len(ranked) /\ Admitted(round)
      /\ round' = round + 1 /\ turn' = 1
      /\ UNCHANGED <<store, reranking, asked, pc, search, ranked, measured, cursor,
                     selected, seenText, seenParents, answer>>
  BY DEF NextRound
<1>3. /\ DOMAIN ranked = 1..Len(ranked) /\ Len(ranked) \in Nat
      /\ Len(selected) \in Nat /\ DOMAIN selected = 1..Len(selected)
      /\ round \in Nat /\ round >= 1
  BY <1>1 DEF TypeOK
<1>4. round <= Len(selected)
  <2>1. PICK n \in DOMAIN selected : selected[n].round = round
    BY <1>2 DEF Admitted
  <2>2. round <= n
    BY <1>1, <2>1 DEF SelectionInv, RoundsAdmit
  <2>. QED
    BY <1>3, <2>1, <2>2
<1>5. TypeOK'
  <2>1. [at : DOMAIN ranked, round : 1..round] \subseteq [at : DOMAIN ranked', round : 1..round']
    BY <1>2, <1>3
  <2>2. selected' \in Seq([at : DOMAIN ranked', round : 1..round'])
    <3>. DEFINE R == [at : DOMAIN ranked, round : 1..round]
                Q == [at : DOMAIN ranked', round : 1..round']
    <3>1. selected \in Seq(R) /\ R \subseteq Q
      BY <1>1, <2>1 DEF TypeOK
    <3>. HIDE DEF R, Q
    <3>2. selected \in Seq(Q)
      BY <3>1
    <3>. QED
      BY <1>2, <3>2 DEF Q
  <2>3. turn' \in 1..(Len(ranked') + 1) /\ round' \in 1..(Len(selected') + 1)
    BY <1>2, <1>3, <1>4
  <2>. QED
    BY <1>1, <1>2, <2>2, <2>3 DEF TypeOK, search
<1>6. Fresh' /\ FusionOfHalves' /\ AllRanked' /\ NothingDropped'
  BY <1>2 DEF RetrievalInv, Fresh, FusionOfHalves, AllRanked, NothingDropped, Ranked, search
<1>7. (NoRepeats /\ PagesTakeTurns /\ RoundsAdmit /\ SeenIsSelected)'
  BY <1>1, <1>2, NoneSelected, TurnsKept, TextsKept DEF SelectionInv
<1>8. LookedAt'
  BY <1>1, <1>2, SameReading, NoneSelected DEF LookedAt
<1>9. TurnsTaken'
  BY <1>2, <1>3 DEF TurnsTaken
<1>10. GivenAtTurn'
  <2>1. \A n \in DOMAIN selected : selected[n].round # round + 1
    BY <1>1, <1>3, SelectedIsRanked
  <2>. QED
    BY <1>2, <2>1 DEF GivenAtTurn
<1>11. RoundsDone'
  <2>1. ASSUME NEW r \in 1..round, NEW i \in DOMAIN ranked
        PROVE  Gave(PageKey(ranked[i]), r) \/ Represented(i)
    <3>1. CASE r = round
      BY <1>1, <1>2, <3>1, RoundIsDone
    <3>2. CASE r # round
      BY <1>1, <1>3, <3>2 DEF RoundsDone
    <3>. QED
      BY <3>1, <3>2
  <2>2. 1..(round' - 1) = 1..round
    BY <1>2, <1>3
  <2>. QED
    BY <1>2, <2>1, <2>2, SameReading, NoneSelected DEF RoundsDone
<1>. QED
  BY <1>5, <1>6, <1>7, <1>8, <1>9, <1>10, <1>11 DEF RetrievalInv, SelectionInv

\* The answer is what was selected.
LEMMA AnswerKeeps == RetrievalInv /\ Answer => RetrievalInv'
<1>. SUFFICES ASSUME RetrievalInv, Answer PROVE RetrievalInv'
  OBVIOUS
<1>1. /\ TypeOK /\ SelectionInv /\ NoRepeats /\ PagesTakeTurns /\ AllRanked
      /\ TurnsTaken /\ LookedAt
  BY DEF RetrievalInv, SelectionInv
<1>2. /\ pc = "select" /\ pc' = "answered"
      /\ answer'.retrieval \in {"hybrid", "hybrid+rerank"}
      /\ UNCHANGED <<store, reranking, asked, search, ranked, measured, loop>>
      /\ \/ Len(selected) >= request.topK
         \/ turn > Len(ranked) /\ ~Admitted(round)
  BY DEF Answer
<1>3. (SelectionInv /\ NoRepeats /\ PagesTakeTurns)'
  BY <1>1, <1>2, SelectionKept
<1>4. TypeOK'
  BY <1>1, <1>2 DEF TypeOK, loop, search
<1>5. Fresh' /\ FusionOfHalves' /\ AllRanked'
  BY <1>2 DEF Fresh, FusionOfHalves, AllRanked
<1>6. NothingDropped'
  <2>1. ~reranking => Values(ranked) = Values(candidates)
    BY <1>1, <1>2 DEF AllRanked
  <2>2. ASSUME Len(selected) < request.topK, NEW i \in DOMAIN ranked PROVE Represented(i)
    <3>1. turn > Len(ranked) /\ ~Admitted(round)
      <4>1. request.topK \in Nat /\ Len(selected) \in Nat
        BY <1>1, WantedIsNumber DEF TypeOK, Pos
      <4>. HIDE DEF request
      <4>. QED
        BY <1>2, <2>2, <4>1
    <3>2. ~Gave(PageKey(ranked[i]), round)
      BY <3>1 DEF Gave, Admitted
    <3>. QED
      BY <1>1, <3>1, <3>2, RoundIsDone
  <2>3. \A i : Represented(i)' = Represented(i)
    BY <1>2, NoneSelected DEF loop
  <2>4. request' = request
    BY <1>2 DEF request
  <2>. HIDE DEF request
  <2>. QED
    BY <1>2, <2>1, <2>2, <2>3, <2>4 DEF NothingDropped, search, loop
<1>. QED
  BY <1>3, <1>4, <1>5, <1>6 DEF RetrievalInv

\* Every step keeps the invariant.
LEMMA StepKeeps == RetrievalInv /\ [Next]_vars => RetrievalInv'
BY SearchKeeps, RankingKeeps, FailureKeeps, SkipKeeps, AdmitKeeps, PassTurnKeeps,
   NextRoundKeeps, AnswerKeeps DEF Next, SelectStep

\* The fusion is fair to both halves.
LEMMA FusionIsFair == RetrievalInv => FusedFairly
<1>. SUFFICES ASSUME RetrievalInv, pc = "rerank" PROVE FusedFairly
  BY DEF FusedFairly
<1>. DEFINE d == halves[1]
            s == halves[2]
            both == Values(d) \cap Values(s)
            nodes == Values(d) \cup Values(s)
<1>1. IsFiniteSet(DOMAIN store)
  BY HalvesAreHalves DEF RetrievalInv, TypeOK
<1>2. /\ IsHalf(d, DOMAIN store) /\ IsHalf(s, DOMAIN store)
      /\ candidates = Fused(d, s)
  BY DEF RetrievalInv, FusionOfHalves
<1>. HIDE DEF d, s
<1>3. /\ Values(candidates) = nodes /\ Len(candidates) = Cardinality(nodes)
      /\ \A p, q \in nodes : Precedes(d, s, p, q) => Place(p) < Place(q)
  BY <1>1, <1>2, FusedIsOrdered DEF Place
<1>4. ASSUME NEW p \in both, NEW q \in nodes, q \notin both,
             Rank(d, p) <= RRF_K, Rank(s, p) <= RRF_K
      PROVE  Place(p) < Place(q)
  BY <1>2, <1>3, <1>4, BothComeFirst
<1>5. ASSUME NEW p \in nodes, NEW q \in nodes, StandsAhead(d, p, q), StandsAhead(s, p, q)
      PROVE  Place(p) < Place(q)
  BY <1>2, <1>3, <1>5, AheadComesFirst
<1>. QED
  BY <1>3, <1>4, <1>5 DEF FusedFairly, StandsAhead, d, s

\* Every variable holds what a query can come to.
THEOREM RetrievalTypes == Spec => []TypeOK
<1>1. RetrievalInv => TypeOK
  BY DEF RetrievalInv
<1>. QED
  BY <1>1, InitInv, StepKeeps, PTL DEF Spec

\* The fusion of any two halves keeps every node of either once, puts a node that
\* both return at ranks up to RRF_K before any that one returns alone, and never
\* puts a node behind one it was ahead of wherever that was found
\* (logged_rank_fusion).
THEOREM FusionFair == Spec => []FusedFairly
  BY InitInv, StepKeeps, FusionIsFair, PTL DEF Spec

\* No two passages of an answer say the same, nor have one section when sections
\* are what is returned (_select_ranked_candidates).
THEOREM NothingRepeated == Spec => []NoRepeats
<1>1. RetrievalInv => NoRepeats
  BY DEF RetrievalInv
<1>. QED
  BY <1>1, InitInv, StepKeeps, PTL DEF Spec

\* A page gives one passage a round, and a second only when every page had its
\* passage or has none left that is new (_select_ranked_candidates).
THEOREM PagesInTurn == Spec => []PagesTakeTurns
<1>1. RetrievalInv => PagesTakeTurns
  BY DEF RetrievalInv
<1>. QED
  BY <1>1, InitInv, StepKeeps, PTL DEF Spec

\* Without a reranker everything that either half found is read, and an answer
\* that falls short of what was wanted has left out only repetitions.
THEOREM OnlyRepeatsDropped == Spec => []NothingDropped
<1>1. RetrievalInv => NothingDropped
  BY DEF RetrievalInv
<1>. QED
  BY <1>1, InitInv, StepKeeps, PTL DEF Spec
=============================================================================
