------------------------------ MODULE NumberFacts ------------------------------
(****************************************************************************)
(* What the proofs of several components need of natural numbers: the least *)
(* number of a set and the greatest one of a bounded set, wherever the code *)
(* takes the first of what is left or the newest of what is there; and the  *)
(* induction and the recursion that loops over a list are reasoned about    *)
(* with, as statements about sets and functions.                            *)
(****************************************************************************)
EXTENDS Integers, FiniteSetTheorems, TLAPS

\* A set of numbers that is not empty has a least one: the sets 0..n of its
\* members are finite, and one of them has no other within it.
LEMMA LeastNumber ==
    ASSUME NEW T \in SUBSET Nat, T # {}
    PROVE  \E m \in T : \A k \in T : m <= k
  <1> DEFINE U == {0..n : n \in T}
  <1>1. U \subseteq FiniteSubsetsOf(Nat) /\ U # {}
    <2>1. ASSUME NEW n \in T PROVE 0..n \in FiniteSubsetsOf(Nat)
      <3>1. n \in Int /\ 0 \in Int /\ 0..n \subseteq Nat
        OBVIOUS
      <3>2. IsFiniteSet(0..n)
        BY <3>1, FS_Interval
      <3> QED
        BY <3>1, <3>2 DEF FiniteSubsetsOf
    <2> QED
      BY <2>1
  <1>2. IsWellFoundedOn(StrictSubsetOrdering(Nat), FiniteSubsetsOf(Nat))
    BY FS_StrictSubsetOrderingWellFounded
  <1>3. PICK u \in U : \A v \in U : ~(<<v, u>> \in StrictSubsetOrdering(Nat))
    BY <1>1, <1>2, WFMin
  <1>4. PICK m \in T : u = 0..m
    BY <1>3
  <1>5. ASSUME NEW k \in T PROVE m <= k
    <2>1. CASE k < m
      <3>1. 0..k \in U /\ 0..k \subseteq 0..m /\ 0..k # 0..m
        BY <2>1
      <3>2. <<0..k, 0..m>> \in StrictSubsetOrdering(Nat)
        BY <3>1 DEF StrictSubsetOrdering
      <3> QED
        BY <1>3, <1>4, <3>1, <3>2
    <2> QED
      BY <2>1
  <1> QED
    BY <1>4, <1>5

\* A set of numbers below a bound that is not empty has a greatest one.
LEMMA GreatestNumber ==
    ASSUME NEW n \in Nat, NEW T \in SUBSET (0..n), T # {}
    PROVE  \E m \in T : \A k \in T : k <= m
  <1> DEFINE U == {n - k : k \in T}
  <1>1. PICK l \in U : \A k \in U : l <= k
    <2>1. \A k \in T : n - k \in Nat
      OBVIOUS
    <2>2. U \in SUBSET Nat /\ U # {}
      BY <2>1
    <2> HIDE DEF U
    <2> QED
      BY <2>2, LeastNumber
  <1>2. PICK m \in T : l = n - m
    BY <1>1
  <1>3. \A k \in T : n - m <= n - k
    BY <1>1, <1>2
  <1> QED
    BY <1>2, <1>3

\* What holds of 0 and goes over from each number to the next holds of all up to n.
LEMMA Counting ==
    ASSUME NEW N \in Nat, NEW T, 0 \in T,
           \A n \in 0..(N - 1) : n \in T => n + 1 \in T
    PROVE  0..N \subseteq T
  <1> DEFINE U == (0..N) \ T
  <1>1. ASSUME U # {} PROVE FALSE
    <2>1. U \in SUBSET Nat
      OBVIOUS
    <2>2. PICK m \in U : \A k \in U : m <= k
      <3> HIDE DEF U
      <3> QED
        BY <1>1, <2>1, LeastNumber
    <2>3. m # 0 /\ m \in Nat /\ m <= N /\ m \notin T
      OBVIOUS
    <2>4. m - 1 \in 0..(N - 1) /\ m - 1 \notin U
      BY <2>2, <2>3
    <2>5. m - 1 \in T
      BY <2>4
    <2>6. m - 1 + 1 \in T
      BY <2>4, <2>5
    <2> QED
      BY <2>3, <2>6
  <1> QED
    BY <1>1

\* f is computed from base by the given steps, of which there are N.
Unfolds(N, V, base, step, f) ==
    f \in [0..N -> V] /\ f[0] = base /\ \A i \in 1..N : f[i] = step[i][f[i - 1]]

\* As long as the values of f are in V, they are those of the steps.
Follows(N, V, base, step, f) ==
    f[0] = base /\ \A i \in 1..N : f[i - 1] \in V => f[i] = step[i][f[i - 1]]

\* A computation in steps exists: a recursive definition over 0..N has a value.
LEMMA Stepwise ==
    ASSUME NEW N \in Nat, NEW V, NEW base \in V, NEW step \in [1..N -> [V -> V]]
    PROVE  \E f : Unfolds(N, V, base, step, f)
  <1> DEFINE Upto(n, f) == f[0] = base /\ \A i \in 1..n : f[i] = step[i][f[i - 1]]
             T == {n \in 0..N : \E f \in [0..N -> V] : Upto(n, f)}
  <1>1. 0 \in T
    <2> DEFINE h == [i \in 0..N |-> base]
    <2>1. h \in [0..N -> V] /\ h[0] = base
      OBVIOUS
    <2>2. Upto(0, h)
      BY <2>1
    <2> HIDE DEF h, Upto
    <2> QED
      BY <2>1, <2>2
  <1>2. ASSUME NEW n \in 0..(N - 1), n \in T PROVE n + 1 \in T
    <2>1. PICK f \in [0..N -> V] : Upto(n, f)
      BY <1>2
    <2>2. f[n] \in V /\ n + 1 \in 1..N /\ n \in 0..N /\ n + 1 \in 0..N
      OBVIOUS
    <2> DEFINE w == step[n + 1][f[n]]
               h == [f EXCEPT ![n + 1] = w]
    <2>3. w \in V
      BY <2>2
    <2>4. h \in [0..N -> V] /\ h[n + 1] = w /\ \A i \in 0..n : h[i] = f[i]
      <3> HIDE DEF w
      <3> QED
        BY <2>2, <2>3
    <2>5. h[0] = base
      BY <2>1, <2>4
    <2>6. ASSUME NEW i \in 1..(n + 1) PROVE h[i] = step[i][h[i - 1]]
      <3>1. CASE i = n + 1
        <4>1. h[i - 1] = f[n] /\ i - 1 = n
          BY <2>4, <3>1
        <4> QED
          BY <2>4, <3>1, <4>1
      <3>2. CASE i # n + 1
        <4>1. i \in 1..n /\ i \in 0..n /\ i - 1 \in 0..n
          BY <3>2
        <4> HIDE DEF h, w
        <4>2. h[i] = f[i] /\ h[i - 1] = f[i - 1]
          BY <2>4, <4>1
        <4> QED
          BY <2>1, <4>1, <4>2
      <3> QED
        BY <3>1, <3>2
    <2>7. Upto(n + 1, h)
      <3> HIDE DEF h
      <3> QED
        BY <2>5, <2>6
    <2> HIDE DEF h, Upto
    <2> QED
      BY <2>2, <2>4, <2>7
  <1>3. N \in T
    <2> HIDE DEF T
    <2>1. 0..N \subseteq T
      BY <1>1, <1>2, Counting
    <2> QED
      BY <2>1
  <1> QED
    BY <1>3 DEF Unfolds

\* The values of a computation in steps stay in V.
LEMMA Stepped ==
    ASSUME NEW N \in Nat, NEW V, NEW base \in V, NEW step \in [1..N -> [V -> V]], NEW f,
           Follows(N, V, base, step, f)
    PROVE  \A i \in 0..N : f[i] \in V
  <1> DEFINE T == {i \in 0..N : f[i] \in V}
  <1>1. 0 \in T
    BY DEF Follows
  <1>2. ASSUME NEW n \in 0..(N - 1), n \in T PROVE n + 1 \in T
    <2>1. n + 1 \in 1..N /\ n + 1 - 1 = n /\ f[n] \in V
      BY <1>2
    <2>2. f[n + 1] = step[n + 1][f[n]]
      BY <2>1 DEF Follows
    <2>3. f[n + 1] \in V
      BY <2>1, <2>2
    <2> QED
      BY <2>1, <2>3
  <1>3. 0..N \subseteq T
    <2> HIDE DEF T
    <2> QED
      BY <1>1, <1>2, Counting
  <1> QED
    BY <1>3


\* f is what a recursive definition with the given body stands for.
Solves(D, V, body, f) == f \in [D -> V] /\ body[f] = f

\* A recursive definition has a value if what it says of each argument depends on
\* arguments of lower rank only.
LEMMA Recursively ==
    ASSUME NEW D, NEW V, NEW v \in V, NEW M \in Nat, NEW rank \in [D -> 0..M],
           NEW body \in [[D -> V] -> [D -> V]],
           \A f, g \in [D -> V] : \A x \in D :
               (\A y \in D : rank[y] < rank[x] => f[y] = g[y]) => body[f][x] = body[g][x]
    PROVE  \E f : Solves(D, V, body, f)
  <1> DEFINE W == [D -> V]
             base == [x \in D |-> v]
             step == [i \in 1..(M + 2) |-> body]
  <1>1. M + 2 \in Nat /\ base \in W /\ step \in [1..(M + 2) -> [W -> W]]
    OBVIOUS
  <1>2. PICK F : Unfolds(M + 2, W, base, step, F)
    <2> HIDE DEF W, base, step
    <2> QED
      BY <1>1, Stepwise
  <1>3. F \in [0..(M + 2) -> W] /\ \A k \in 0..(M + 1) : F[k + 1] = body[F[k]]
    <2>1. \A i \in 1..(M + 2) : F[i] = body[F[i - 1]]
      BY <1>2 DEF Unfolds
    <2>2. ASSUME NEW k \in 0..(M + 1) PROVE F[k + 1] = body[F[k]]
      <3>1. k + 1 \in 1..(M + 2) /\ k + 1 - 1 = k
        OBVIOUS
      <3> HIDE DEF W
      <3> QED
        BY <2>1, <3>1
    <2> QED
      BY <1>2, <2>2 DEF Unfolds
  <1> DEFINE T == {k \in 0..(M + 1) : \A x \in D : rank[x] < k => F[k][x] = F[k + 1][x]}
  <1>4. 0 \in T
    OBVIOUS
  <1>5. ASSUME NEW k \in 0..(M + 1 - 1), k \in T PROVE k + 1 \in T
    <2>1. k + 1 \in 0..(M + 1) /\ k + 1 \in 1..(M + 2) /\ k + 1 + 1 \in 1..(M + 2) /\ k \in 0..(M + 2)
      OBVIOUS
    <2>2. F[k + 1] = body[F[k]] /\ F[k + 1 + 1] = body[F[k + 1]] /\ F[k] \in W /\ F[k + 1] \in W
      <3>1. k \in 0..(M + 1) /\ k + 1 \in 0..(M + 2)
        OBVIOUS
      <3> HIDE DEF W
      <3> QED
        BY <1>3, <2>1, <3>1
    <2>3. ASSUME NEW x \in D, rank[x] < k + 1 PROVE F[k + 1][x] = F[k + 1 + 1][x]
      <3>1. \A y \in D : rank[y] < rank[x] => rank[y] < k
        BY <2>3
      <3>2. \A y \in D : rank[y] < rank[x] => F[k][y] = F[k + 1][y]
        BY <1>5, <3>1
      <3> QED
        BY <2>2, <3>2
    <2> QED
      BY <2>1, <2>3
  <1>6. M + 1 \in T
    <2> DEFINE K == M + 1
    <2>1. K \in Nat /\ K \in 0..K /\ 0 \in T /\ \A k \in 0..(K - 1) : k \in T => k + 1 \in T
      BY <1>4, <1>5
    <2> HIDE DEF T, K
    <2>2. 0..K \subseteq T
      BY <2>1, Counting
    <2>3. K \in T
      BY <2>1, <2>2
    <2> QED
      BY <2>3 DEF K
  <1> DEFINE f == F[M + 1]
  <1>7. f \in W /\ F[M + 1 + 1] = body[f] /\ F[M + 1 + 1] \in W
    <2>1. M + 1 \in 0..(M + 2) /\ M + 1 \in 0..(M + 1) /\ M + 1 + 1 \in 0..(M + 2)
      OBVIOUS
    <2> HIDE DEF W
    <2> QED
      BY <1>3, <2>1
  <1>8. \A x \in D : f[x] = body[f][x]
    <2>1. \A x \in D : rank[x] < M + 1
      OBVIOUS
    <2> QED
      BY <1>6, <1>7, <2>1
  <1>9. body[f] \in W
    BY <1>7
  <1> QED
    BY <1>7, <1>8, <1>9 DEF Solves

\* What holds of an element whenever it holds of all of lower rank holds of all.
LEMMA ByRank ==
    ASSUME NEW D, NEW M \in Nat, NEW rank \in [D -> 0..M], NEW T,
           \A x \in D : (\A y \in D : rank[y] < rank[x] => y \in T) => x \in T
    PROVE  D \subseteq T
  <1> DEFINE K == M + 1
             U == {k \in 0..K : \A x \in D : rank[x] < k => x \in T}
  <1>1. K \in Nat /\ K \in 0..K /\ 0 \in U
    OBVIOUS
  <1>2. ASSUME NEW k \in 0..(K - 1), k \in U PROVE k + 1 \in U
    <2>1. ASSUME NEW x \in D, rank[x] < k + 1 PROVE x \in T
      <3>1. \A y \in D : rank[y] < rank[x] => rank[y] < k
        BY <2>1
      <3> QED
        BY <1>2, <3>1
    <2> QED
      BY <2>1
  <1>3. K \in U
    <2> HIDE DEF U, K
    <2>1. 0..K \subseteq U
      BY <1>1, <1>2, Counting
    <2> QED
      BY <1>1, <2>1
  <1>4. \A x \in D : rank[x] < K
    OBVIOUS
  <1> QED
    BY <1>3, <1>4

\* The order by two numbers, the second of which is at most N, as one number.
LEMMA InOrderOfTwo ==
    ASSUME NEW N \in Nat, NEW a \in Nat, NEW b \in Nat, a < b,
           NEW c \in Nat, NEW d \in Nat, c <= N
    PROVE  a * (N + 1) + c < b * (N + 1) + d
  <1>1. PICK k \in Nat : b = a + 1 + k
    <2>1. b - a - 1 \in Nat /\ b = a + 1 + (b - a - 1)
      OBVIOUS
    <2> QED
      BY <2>1
  <1>2. b * (N + 1) = a * (N + 1) + (N + 1) + k * (N + 1)
    BY <1>1
  <1>3. k * (N + 1) \in Nat /\ a * (N + 1) \in Nat
    OBVIOUS
  <1> QED
    BY <1>2, <1>3

\* How many of S are at most n: none at the beginning, one more at each member.
LEMMA UpTo ==
    ASSUME NEW L \in Nat, NEW S \in SUBSET (1..L)
    PROVE  /\ IsFiniteSet(S) /\ Cardinality(S) \in Nat
           /\ Cardinality({j \in S : j <= 0}) = 0 /\ Cardinality({j \in S : j <= L}) = Cardinality(S)
           /\ \A n \in 0..L : Cardinality({j \in S : j <= n}) \in Nat
           /\ \A n \in 0..(L - 1) :
                  Cardinality({j \in S : j <= n + 1}) =
                  Cardinality({j \in S : j <= n}) + IF n + 1 \in S THEN 1 ELSE 0
  <1>1. IsFiniteSet(1..L)
    BY FS_Interval
  <1>2. IsFiniteSet(S) /\ Cardinality(S) \in Nat
    BY <1>1, FS_Subset, FS_CardinalityType
  <1>3. ASSUME NEW T \in SUBSET S PROVE IsFiniteSet(T) /\ Cardinality(T) \in Nat
    BY <1>2, <1>3, FS_Subset, FS_CardinalityType
  <1>4. \A j \in S : j \in Nat /\ 1 <= j /\ j <= L
    OBVIOUS
  <1>5. {j \in S : j <= 0} = {}
    <2>1. \A j \in S : ~(j <= 0)
      BY <1>4
    <2> QED
      BY <2>1
  <1>6. {j \in S : j <= L} = S
    BY <1>4
  <1>7. ASSUME NEW n \in 0..(L - 1)
        PROVE  Cardinality({j \in S : j <= n + 1}) = Cardinality({j \in S : j <= n}) + IF n + 1 \in S THEN 1 ELSE 0
    <2> DEFINE T == {j \in S : j <= n}
               U == {j \in S : j <= n + 1}
    <2>1. IsFiniteSet(T) /\ Cardinality(T) \in Nat
      BY <1>3
    <2>2. n \in Nat /\ \A j \in S : j <= n + 1 <=> j <= n \/ j = n + 1
      BY <1>4
    <2>3. n + 1 \notin T
      BY <2>2
    <2>4. CASE n + 1 \in S
      <3>1. U = T \cup {n + 1}
        BY <2>2, <2>4
      <3> HIDE DEF T, U
      <3>2. Cardinality(U) = Cardinality(T) + 1
        BY <2>1, <2>3, <3>1, FS_AddElement
      <3> QED
        BY <2>4, <3>2 DEF T, U
    <2>5. CASE n + 1 \notin S
      <3>1. U = T
        BY <2>2, <2>5
      <3> HIDE DEF T, U
      <3>2. Cardinality(U) = Cardinality(T) + 0
        BY <2>1, <3>1
      <3> QED
        BY <2>5, <3>2 DEF T, U
    <2> QED
      BY <2>4, <2>5
  <1> QED
    BY <1>2, <1>3, <1>5, <1>6, <1>7, FS_EmptySet

\* Each number up to their count is the rank of a member.
LEMMA Ranks ==
    ASSUME NEW L \in Nat, NEW S \in SUBSET (1..L), NEW k \in 1..Cardinality(S)
    PROVE  \E i \in S : Cardinality({j \in S : j <= i}) = k
  <1> DEFINE f(n) == Cardinality({j \in S : j <= n})
             T == {n \in 0..L : k <= f(n)}
  <1>1. /\ f(0) = 0 /\ f(L) = Cardinality(S) /\ (\A n \in 0..L : f(n) \in Nat) /\ Cardinality(S) \in Nat
        /\ \A n \in 0..(L - 1) : f(n + 1) = f(n) + IF n + 1 \in S THEN 1 ELSE 0
    BY UpTo
  <1> HIDE DEF f
  <1>2. k \in Nat \ {0} /\ k <= f(L)
    BY <1>1
  <1>3. PICK m \in T : \A n \in T : m <= n
    <2>1. T \in SUBSET Nat /\ T # {}
      BY <1>2
    <2> HIDE DEF T
    <2> QED
      BY <2>1, LeastNumber
  <1>4. m \in 0..L /\ k <= f(m) /\ m # 0
    BY <1>1, <1>2
  <1> DEFINE n == m - 1
  <1>5. n \in 0..(L - 1) /\ n + 1 = m /\ n \in 0..L /\ n \notin T
    BY <1>3, <1>4
  <1> HIDE DEF n
  <1>6. f(n) \in Nat /\ f(n) < k /\ f(m) = f(n) + IF m \in S THEN 1 ELSE 0
    BY <1>1, <1>2, <1>5
  <1>7. m \in S /\ f(m) = k
    BY <1>2, <1>4, <1>6
  <1> QED
    BY <1>7 DEF f

\* Of two members the greater one has the greater rank.
LEMMA RanksGrow ==
    ASSUME NEW L \in Nat, NEW S \in SUBSET (1..L), NEW i \in S, NEW j \in S, i < j
    PROVE  Cardinality({k \in S : k <= i}) < Cardinality({k \in S : k <= j})
  <1> DEFINE A == {k \in S : k <= i}
             B == {k \in S : k <= j}
  <1>0. i \in Nat /\ j \in Nat /\ \A k \in S : k \in Nat
    OBVIOUS
  <1>1. IsFiniteSet(B) /\ Cardinality(B) \in Nat /\ A \in SUBSET B /\ j \in B /\ j \notin A
    <2>1. IsFiniteSet(S) /\ B \in SUBSET S
      BY UpTo
    <2>2. IsFiniteSet(B) /\ Cardinality(B) \in Nat
      <3> HIDE DEF B
      <3> QED
        BY <2>1, FS_Subset, FS_CardinalityType
    <2>3. \A k \in S : k <= i => k <= j
      BY <1>0
    <2>4. A \in SUBSET B
      BY <2>3
    <2>5. j \in B /\ j \notin A
      BY <1>0
    <2> QED
      BY <2>2, <2>4, <2>5
  <1> HIDE DEF A, B
  <1>2. Cardinality(A) <= Cardinality(B) /\ Cardinality(A) # Cardinality(B) /\ Cardinality(A) \in Nat
    BY <1>1, FS_Subset, FS_CardinalityType
  <1> QED
    BY <1>1, <1>2 DEF A, B

\* The members with fewer than N greater ones are the N last ones, or all.
LEMMA Latest ==
    ASSUME NEW L \in Nat, NEW S \in SUBSET (1..L), NEW N \in Nat \ {0}
    PROVE  Cardinality({i \in S : Cardinality({j \in S : j > i}) < N}) =
           IF Cardinality(S) <= N THEN Cardinality(S) ELSE N
  <1> DEFINE f(n) == Cardinality({j \in S : j <= n})
             g(n) == Cardinality({j \in S : j > n})
             C == Cardinality(S)
             T == {i \in S : g(i) < N}
  <1> SUFFICES Cardinality(T) = IF C <= N THEN C ELSE N
    OBVIOUS
  <1>1. IsFiniteSet(S) /\ C \in Nat
    BY UpTo
  <1>2. ASSUME NEW i \in S PROVE f(i) \in Nat /\ f(i) >= 1 /\ g(i) = C - f(i)
    <2> DEFINE A == {j \in S : j <= i}
               B == {j \in S : j > i}
    <2>1. B = S \ A /\ S \cap A = A /\ A \in SUBSET S /\ i \in A
      <3>1. i \in Nat /\ \A j \in S : j \in Nat /\ (j > i <=> ~(j <= i))
        OBVIOUS
      <3>2. B = S \ A
        BY <3>1
      <3>3. i \in A
        BY <3>1
      <3> QED
        BY <3>2, <3>3
    <2> HIDE DEF A, B
    <2>2. IsFiniteSet(A) /\ Cardinality(A) \in Nat /\ A # {}
      BY <1>1, <2>1, FS_Subset, FS_CardinalityType
    <2>3. Cardinality(A) # 0
      BY <2>2, FS_EmptySet
    <2>4. Cardinality(B) = Cardinality(S) - Cardinality(A)
      BY <1>1, <2>1, FS_Difference
    <2> QED
      BY <2>2, <2>3, <2>4 DEF A, B
  <1>3. CASE C <= N
    <2>1. T = S
      <3> HIDE DEF f, g, C
      <3>1. \A i \in S : g(i) < N
        BY <1>1, <1>2, <1>3
      <3> QED
        BY <3>1
    <2> QED
      BY <1>3, <2>1
  <1>4. CASE C > N
    <2>1. C - N \in 1..C
      <3> HIDE DEF C
      <3> QED
        BY <1>1, <1>4
    <2>2. PICK m \in S : f(m) = C - N
      <3> DEFINE k == C - N
      <3>1. k \in 1..Cardinality(S)
        BY <2>1
      <3> HIDE DEF k
      <3>2. \E i \in S : f(i) = k
        BY <3>1, Ranks
      <3> QED
        BY <3>2 DEF k
    <2>3. \A i \in S : (m < i => f(m) < f(i)) /\ (i < m => f(i) < f(m))
      BY RanksGrow
    <2>4. T = {i \in S : i > m}
      <3> HIDE DEF f, g, C
      <3>1. ASSUME NEW i \in S PROVE g(i) < N <=> i > m
        <4>1. m \in Nat /\ i \in Nat /\ f(i) \in Nat /\ g(i) = C - f(i)
          BY <1>2
        <4>2. CASE i > m
          BY <1>1, <2>2, <2>3, <4>1, <4>2
        <4>3. CASE i < m
          BY <1>1, <2>2, <2>3, <4>1, <4>3
        <4>4. CASE i = m
          BY <1>1, <2>2, <4>1, <4>4
        <4> QED
          BY <4>1, <4>2, <4>3, <4>4
      <3> QED
        BY <3>1
    <2>5. g(m) = N
      <3>1. g(m) = C - f(m)
        BY <1>2
      <3> HIDE DEF f, g, C
      <3> QED
        BY <1>1, <2>2, <3>1
    <2>6. Cardinality(T) = N
      <3>1. Cardinality({i \in S : i > m}) = N
        BY <2>5
      <3> HIDE DEF T
      <3> QED
        BY <2>4, <3>1
    <2>7. ~(C <= N)
      BY <1>1, <1>4
    <2> HIDE DEF T, C
    <2> QED
      BY <2>6, <2>7
  <1> HIDE DEF C
  <1> QED
    BY <1>1, <1>3, <1>4
===============================================================================
