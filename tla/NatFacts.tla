------------------------------ MODULE NatFacts ------------------------------
(***************************************************************************)
(* Facts about natural numbers that the proofs of several modules need:    *)
(* induction and the least and the greatest member, stated of sets so that *)
(* they can be cited for any property P as facts about {n \in Nat : P(n)}; *)
(* arithmetic modulo S, for counters that wrap and rings of slots; and     *)
(* sums of a function over a finite set.                                   *)
(***************************************************************************)
EXTENDS
  Integers, Powers, FiniteSetsExt, FiniteSetTheorems, WellFoundedInduction, TLAPS

\* The natural numbers are well ordered.
LEMMA SmallestMember ==
  ASSUME NEW T \in SUBSET Nat, T # {}
  PROVE  \E m \in T : \A n \in T : m <= n
<1> DEFINE R == OpToRel(<, Nat)
<1>1. IsWellFoundedOn(R, Nat)
  BY NatLessThanWellFounded
<1>2. \E m \in T : \A n \in T : ~ (<<n, m>> \in R)
  <2> HIDE DEF R
  <2> QED BY <1>1, WFMin
<1>3. ASSUME NEW m \in T, NEW n \in T, ~ (<<n, m>> \in R) PROVE m <= n
  BY <1>3 DEF OpToRel
<1> QED BY <1>2, <1>3

\* A set that holds 0, and n + 1 with n, holds every natural number.
LEMMA SetInduction ==
  ASSUME NEW S, 0 \in S, \A n \in Nat : n \in S => n + 1 \in S
  PROVE  Nat \subseteq S
<1> SUFFICES ASSUME ~(Nat \subseteq S) PROVE FALSE
  OBVIOUS
<1> DEFINE T == Nat \ S
<1>1. PICK m \in T : \A n \in T : m <= n
  BY SmallestMember
<1>2. m # 0 /\ m - 1 \in Nat /\ m - 1 \notin T
  BY <1>1
<1>3. m - 1 + 1 \in S
  BY <1>2
<1> QED BY <1>1, <1>3

\* A set of numbers up to n that is not empty has a greatest member.
LEMMA GreatestMember ==
  ASSUME NEW n \in Nat, NEW H \in SUBSET (1 .. n), H # {}
  PROVE  \E m \in H : \A i \in H : i <= m
<1> DEFINE T == {n - i : i \in H}
<1>1. T \in SUBSET Nat
  <2>1. ASSUME NEW i \in H PROVE n - i \in Nat
    <3>1. i \in 1 .. n
      OBVIOUS
    <3> QED BY <3>1
  <2> QED BY <2>1
<1>2. T # {}
  OBVIOUS
<1>3. PICK t \in T : \A s \in T : t <= s
  <2> HIDE DEF T
  <2> QED BY <1>1, <1>2, SmallestMember
<1>4. PICK m \in H : t = n - m
  BY <1>3
<1>5. ASSUME NEW i \in H PROVE i <= m
  <2>1. n - i \in T /\ t <= n - i
    BY <1>3
  <2>2. i \in 1 .. n /\ m \in 1 .. n
    OBVIOUS
  <2> QED BY <1>4, <2>1, <2>2
<1> QED BY <1>5

-----------------------------------------------------------------------------
(* Arithmetic modulo S *)

\* Quotient and remainder are unique.
LEMMA ModUnique ==
  ASSUME NEW S \in Nat \ {0}, NEW q \in Int, NEW r \in 0 .. S - 1
  PROVE  (q * S + r) % S = r
<1> DEFINE x == q * S + r
           p == x \div S
           s == x % S
<1>1. x = p * S + s /\ p \in Int /\ s \in 0 .. S - 1 /\ x \in Int
  OBVIOUS
<1>2. (q - p) * S = s - r
  BY <1>1
<1>3. q - p = 0
  <2>1. q - p >= 1 => (q - p) * S >= S
    BY <1>1
  <2>2. q - p <= -1 => (q - p) * S <= -S
    BY <1>1
  <2> QED BY <1>1, <1>2, <2>1, <2>2
<1> QED BY <1>1, <1>2, <1>3

\* A remainder is its own, and a multiple of S does not change it.
LEMMA ModSmall ==
  ASSUME NEW S \in Nat \ {0}, NEW r \in 0 .. S - 1
  PROVE  r % S = r /\ (r + S) % S = r /\ (r - S) % S = r
OBVIOUS

\* Nor does a multiple of S change that of any number.
LEMMA ModShift ==
  ASSUME NEW S \in Nat \ {0}, NEW M \in Nat, M % S = 0, NEW x \in Int
  PROVE  (x + M) % S = x % S
<1> DEFINE q == M \div S
           p == x \div S
           s == x % S
<1>1. M = q * S /\ q \in Int
  OBVIOUS
<1>2. x = p * S + s /\ p \in Int /\ s \in 0 .. S - 1
  OBVIOUS
<1>3. x + M = (p + q) * S + s
  BY <1>1, <1>2
<1>4. p + q \in Int
  BY <1>1, <1>2
<1> HIDE DEF p, q, s
<1>5. (x + M) % S = s
  BY <1>2, <1>3, <1>4, ModUnique
<1> QED BY <1>5 DEF s

\* Adding to a remainder is adding to the number.
LEMMA ModKeeps ==
  ASSUME NEW S \in Nat \ {0}, NEW x \in Int, NEW d \in Int
  PROVE  ((x % S) + d) % S = (x + d) % S
<1> DEFINE p == x \div S
           y == (x % S) + d
           q == y \div S
           r == y % S
<1>1. x = p * S + (x % S) /\ p \in Int /\ y \in Int
  OBVIOUS
<1>2. y = q * S + r /\ q \in Int /\ r \in 0 .. S - 1
  BY <1>1
<1>3. x + d = p * S + y
  BY <1>1
<1> HIDE DEF p, y, q, r
<1>4. x + d = (p + q) * S + r /\ p + q \in Int
  BY <1>1, <1>2, <1>3
<1>5. (x + d) % S = r
  BY <1>2, <1>4, ModUnique
<1> QED BY <1>5 DEF r, y

\* And taking a remainder away is taking the number away.
LEMMA ModTakes ==
  ASSUME NEW S \in Nat \ {0}, NEW x \in Int, NEW d \in Int
  PROVE  (d - (x % S)) % S = (d - x) % S
<1> DEFINE p == x \div S
           r == x % S
           y == d - x
           q == y \div S
           s == y % S
<1>1. x = p * S + r /\ p \in Int /\ r \in Int
  OBVIOUS
<1>2. y = q * S + s /\ q \in Int /\ s \in 0 .. S - 1
  OBVIOUS
<1>3. d - r = p * S + y
  BY <1>1
<1> HIDE DEF p, r, y, q, s
<1>4. d - r = (p + q) * S + s /\ p + q \in Int
  BY <1>1, <1>2, <1>3
<1>5. (d - r) % S = s
  BY <1>2, <1>4, ModUnique
<1> QED BY <1>5 DEF r, s, y

\* Going on by up to S, with at most one turn.
LEMMA ModAdd ==
  ASSUME NEW S \in Nat \ {0}, NEW x \in Int, NEW i \in 0 .. S
  PROVE  (x + i) % S = IF (x % S) + i < S THEN (x % S) + i ELSE (x % S) + i - S
<1> DEFINE p == x \div S
           s == x % S
<1>2. x = p * S + s /\ p \in Int /\ s \in 0 .. S - 1
  OBVIOUS
<1>3. x + i = p * S + (s + i) /\ x + i = (p + 1) * S + (s + i - S)
  BY <1>2
<1> HIDE DEF p, s
<1>4. CASE s + i < S
  <2>1. s + i \in 0 .. S - 1
    BY <1>2, <1>4
  <2>2. (p * S + (s + i)) % S = s + i
    BY <1>2, <2>1, ModUnique
  <2> QED BY <1>3, <1>4, <2>2 DEF s
<1>5. CASE ~(s + i < S)
  <2>1. s + i - S \in 0 .. S - 1 /\ p + 1 \in Int
    BY <1>2, <1>5
  <2>2. ((p + 1) * S + (s + i - S)) % S = s + i - S
    BY <2>1, ModUnique
  <2> QED BY <1>3, <1>5, <2>2 DEF s
<1> QED BY <1>4, <1>5

\* S consecutive numbers have different remainders.
LEMMA ModApart ==
  ASSUME NEW S \in Nat \ {0}, NEW x \in Int, NEW i \in 0 .. S - 1,
         NEW j \in 0 .. S - 1, (x + i) % S = (x + j) % S
  PROVE  i = j
<1>1. x % S \in 0 .. S - 1
  OBVIOUS
<1>a. i \in 0 .. S /\ j \in 0 .. S
  OBVIOUS
<1>2. (x + i) % S = IF (x % S) + i < S THEN (x % S) + i ELSE (x % S) + i - S
  BY <1>a, ModAdd
<1>3. (x + j) % S = IF (x % S) + j < S THEN (x % S) + j ELSE (x % S) + j - S
  BY <1>a, ModAdd
<1> QED BY <1>1, <1>2, <1>3

\* The distance from i to j on a ring of M.
LEMMA ModDifference ==
  ASSUME NEW M \in Nat \ {0}, NEW i \in 0 .. M - 1, NEW j \in 0 .. M - 1
  PROVE  (j - i) % M = IF i <= j THEN j - i ELSE j - i + M
<1>1. CASE i <= j
  <2>1. j - i \in 0 .. M - 1
    BY <1>1
  <2> QED BY <1>1, <2>1, ModSmall
<1>2. CASE j < i
  <2>1. j - i + M \in 0 .. M - 1 /\ (j - i + M) - M = j - i
    BY <1>2
  <2>2. ((j - i + M) - M) % M = j - i + M
    BY <2>1, ModSmall
  <2> QED BY <1>2, <2>1, <2>2
<1> QED BY <1>1, <1>2

\* The place after k on a ring of M.
LEMMA ModNext ==
  ASSUME NEW M \in Nat \ {0}, NEW k \in 0 .. M - 1
  PROVE  (k + 1) % M = IF k + 1 = M THEN 0 ELSE k + 1
<1>1. CASE k + 1 = M
  <2>1. 0 \in 0 .. M - 1 /\ 0 + M = k + 1
    BY <1>1
  <2>2. (0 + M) % M = 0
    BY <2>1, ModSmall
  <2> QED BY <1>1, <2>1, <2>2
<1>2. CASE k + 1 # M
  <2>1. k + 1 \in 0 .. M - 1
    BY <1>2
  <2> QED BY <1>2, <2>1, ModSmall
<1> QED BY <1>1, <1>2

\* A remainder of a remainder, when one divides the other.
LEMMA ModMod ==
  ASSUME NEW S \in Nat \ {0}, NEW M \in Nat \ {0}, M % S = 0, NEW x \in Int
  PROVE  (x % M) % S = x % S
<1> DEFINE p == x \div M
           y == x % M
           q == M \div S
           k == y \div S
           r == y % S
<1>1. x = p * M + y /\ p \in Int /\ y \in Int
  OBVIOUS
<1>2. M = q * S /\ q \in Int
  OBVIOUS
<1>3. y = k * S + r /\ k \in Int /\ r \in 0 .. S - 1
  BY <1>1
<1> HIDE DEF p, y, q, k, r
<1>4. p * (q * S) = (p * q) * S /\ p * q \in Int
  BY <1>1, <1>2
<1>5. x = (p * q + k) * S + r /\ p * q + k \in Int
  <2> DEFINE m == p * q
  <2>1. x = m * S + (k * S + r)
    BY <1>1, <1>2, <1>3, <1>4
  <2>2. m \in Int
    BY <1>4
  <2> HIDE DEF m
  <2>3. (m + k) * S = m * S + k * S
    BY <1>3, <2>2
  <2>4. m * S \in Int /\ k * S \in Int
    BY <1>3, <2>2
  <2>5. x = (m + k) * S + r /\ m + k \in Int
    BY <1>3, <2>1, <2>2, <2>3, <2>4
  <2> QED BY <2>5 DEF m
<1>6. x % S = r
  BY <1>3, <1>5, ModUnique
<1> QED BY <1>6 DEF r, y

\* How the distance between two counters changes when one is incremented.
LEMMA ModDistance ==
  ASSUME NEW M \in Nat \ {0}, NEW i \in 0 .. M - 1, NEW j \in 0 .. M - 1
  PROVE  /\ ((j - i) % M) \in 0 .. M - 1
         /\ ((j - i) % M) + 1 < M =>
              (((j + 1) % M) - i) % M = ((j - i) % M) + 1
         /\ ((j - i) % M) >= 1 =>
              (j - ((i + 1) % M)) % M = ((j - i) % M) - 1
<1> DEFINE ii == (i + 1) % M
           jj == (j + 1) % M
           d == (j - i) % M
<1>1. d = IF i <= j THEN j - i ELSE j - i + M
  BY ModDifference
<1>2. jj = IF j + 1 = M THEN 0 ELSE j + 1
  BY ModNext
<1>3. ii = IF i + 1 = M THEN 0 ELSE i + 1
  BY ModNext
<1> HIDE DEF ii, jj, d
<1>4. ii \in 0 .. M - 1 /\ jj \in 0 .. M - 1
  BY <1>2, <1>3
<1>5. (jj - i) % M = IF i <= jj THEN jj - i ELSE jj - i + M
  BY <1>4, ModDifference
<1>6. (j - ii) % M = IF ii <= j THEN j - ii ELSE j - ii + M
  BY <1>4, ModDifference
<1>7. /\ d \in 0 .. M - 1
      /\ d + 1 < M => (jj - i) % M = d + 1
      /\ d >= 1 => (j - ii) % M = d - 1
  BY <1>1, <1>2, <1>3, <1>5, <1>6
<1> QED BY <1>7 DEF ii, jj, d

\* One counter is their distance further on than the other, up to a wrap.
LEMMA ModSpan ==
  ASSUME NEW M \in Nat \ {0}, NEW i \in 0 .. M - 1, NEW j \in 0 .. M - 1
  PROVE  i + ((j - i) % M) = j \/ i + ((j - i) % M) = j + M
<1>1. (j - i) % M = IF i <= j THEN j - i ELSE j - i + M
  BY ModDifference
<1> QED BY <1>1

-----------------------------------------------------------------------------
(* Sums over a finite set, as the community modules compute them *)

\* The member that SumFunction takes first, and what it leaves.
FirstOf(s) == CHOOSE x \in s : TRUE
RestOf(s) == s \ {FirstOf(s)}

\* Every set smaller than a finite one is reached from {} by adding members.
LEMMA SubsetSizes ==
  ASSUME NEW S, IsFiniteSet(S), NEW s \in SUBSET S
  PROVE  /\ Cardinality(s) \in Nat /\ Cardinality(s) <= Cardinality(S)
         /\ Cardinality(s) = 0 <=> s = {}
         /\ s # {} => /\ FirstOf(s) \in s /\ RestOf(s) \in SUBSET S
                      /\ Cardinality(RestOf(s)) = Cardinality(s) - 1
<1>1. /\ IsFiniteSet(s) /\ Cardinality(s) <= Cardinality(S)
      /\ Cardinality(s) \in Nat
  BY FS_Subset, FS_CardinalityType
<1>2. Cardinality(s) = 0 <=> s = {}
  BY <1>1, FS_EmptySet
<1>3. ASSUME s # {}
      PROVE  /\ FirstOf(s) \in s /\ RestOf(s) \in SUBSET S
             /\ Cardinality(RestOf(s)) = Cardinality(s) - 1
  BY <1>1, <1>3, FS_RemoveElement DEF FirstOf, RestOf
<1> QED BY <1>1, <1>2, <1>3

\* Induction over the subsets of a finite set, in the order of SumFunction.
LEMMA SubsetInduction ==
  ASSUME NEW S, IsFiniteSet(S), NEW W, {} \in W,
         \A s \in SUBSET S : s # {} /\ RestOf(s) \in W => s \in W
  PROVE  \A s \in SUBSET S : s \in W
<1> DEFINE N == {n \in Nat : \A s \in SUBSET S :
                               Cardinality(s) = n => s \in W}
<1>1. 0 \in N
  BY SubsetSizes
<1>2. ASSUME NEW n \in Nat, n \in N PROVE n + 1 \in N
  <2>1. ASSUME NEW s \in SUBSET S, Cardinality(s) = n + 1 PROVE s \in W
    <3>1. s # {} /\ RestOf(s) \in SUBSET S /\ Cardinality(RestOf(s)) = n
      BY <2>1, SubsetSizes
    <3> QED BY <1>2, <3>1
  <2> QED BY <2>1
<1>3. Nat \subseteq N
  <2> HIDE DEF N
  <2> QED BY <1>1, <1>2, SetInduction
<1> QED BY <1>3, SubsetSizes

\* g is, for every subset of S, the sum of f over it, summed up as
\* SumFunction does.
SumsOf(g, f, S) ==
  g = [s \in SUBSET S |-> IF s = {} THEN 0 ELSE f[FirstOf(s)] + g[RestOf(s)]]

\* There are such sums: the recursion in SumFunction has a solution.
LEMMA SumsExist ==
  ASSUME NEW S, IsFiniteSet(S), NEW f \in [S -> Int]
  PROVE  \E g : SumsOf(g, f, S)
<1> DEFINE Upto(n) == {s \in SUBSET S : Cardinality(s) <= n}
           Sum(g, s) == IF s = {} THEN 0 ELSE f[FirstOf(s)] + g[RestOf(s)]
           Good(g, n) == g = [s \in Upto(n) |-> Sum(g, s)]
           N == {n \in Nat : \E g : Good(g, n)}
<1>1. 0 \in N
  <2>1. ASSUME NEW s \in Upto(0) PROVE s = {}
    BY SubsetSizes
  <2>2. Good([s \in Upto(0) |-> 0], 0)
    BY <2>1
  <2> HIDE DEF Good
  <2> QED BY <2>2
<1>2. ASSUME NEW n \in Nat, n \in N PROVE n + 1 \in N
  <2>1. PICK g : Good(g, n)
    BY <1>2
  <2> DEFINE h == [s \in Upto(n + 1) |-> Sum(g, s)]
  <2>2. ASSUME NEW s \in Upto(n + 1), s # {} PROVE RestOf(s) \in Upto(n)
    BY <2>2, SubsetSizes
  <2>3. ASSUME NEW s \in Upto(n) PROVE s \in Upto(n + 1) /\ h[s] = g[s]
    <3>1. s \in Upto(n + 1)
      BY SubsetSizes
    <3> QED BY <2>1, <3>1
  <2>4. ASSUME NEW s \in Upto(n + 1) PROVE h[s] = Sum(h, s)
    BY <2>2, <2>3
  <2>5. Good(h, n + 1)
    BY <2>4
  <2> HIDE DEF Good
  <2> QED BY <2>5
<1>3. Cardinality(S) \in N
  <2> HIDE DEF N
  <2> QED BY <1>1, <1>2, SetInduction, FS_CardinalityType
<1>4. PICK g : Good(g, Cardinality(S))
  BY <1>3
<1>5. Upto(Cardinality(S)) = SUBSET S
  BY SubsetSizes
<1> QED BY <1>4, <1>5 DEF SumsOf

\* So SumFunction is what it is meant to be.
LEMMA SumIs ==
  ASSUME NEW S, IsFiniteSet(S), NEW f \in [S -> Int]
  PROVE  \E g : SumsOf(g, f, S) /\ SumFunction(f) = g[S]
<1> DEFINE g == CHOOSE h : SumsOf(h, f, S)
<1>1. SumsOf(g, f, S)
  BY SumsExist
<1>2. SumFunction(f) = g[S]
  BY DEF SumFunction, SumFunctionOnSet, FoldFunctionOnSet, MapThenFoldSet,
         FirstOf, RestOf, SumsOf
<1> QED BY <1>1, <1>2

\* One step of the recursion.
LEMMA SumsRecursion ==
  ASSUME NEW S, NEW f, NEW g, SumsOf(g, f, S)
  PROVE  /\ g[{}] = 0
         /\ \A s \in SUBSET S : s # {} => g[s] = f[FirstOf(s)] + g[RestOf(s)]
BY DEF SumsOf

\* One term more or less changes the sum by as much.
LEMMA SumChange ==
  ASSUME NEW S, IsFiniteSet(S), NEW f \in [S -> Int], NEW g \in [S -> Int],
         NEW c \in S, \A x \in S : x # c => g[x] = f[x]
  PROVE  /\ SumFunction(f) \in Int
         /\ SumFunction(g) = SumFunction(f) + (g[c] - f[c])
<1>1. PICK F : SumsOf(F, f, S) /\ SumFunction(f) = F[S]
  BY SumIs
<1>2. PICK G : SumsOf(G, g, S) /\ SumFunction(g) = G[S]
  BY SumIs
<1> DEFINE W == {s \in SUBSET S :
                   /\ F[s] \in Int
                   /\ G[s] = F[s] + (IF c \in s THEN g[c] - f[c] ELSE 0)}
<1>3. {} \in W
  BY <1>1, <1>2, SumsRecursion
<1>4. ASSUME NEW s \in SUBSET S, s # {}, RestOf(s) \in W PROVE s \in W
  <2>1. PICK x \in s : x = FirstOf(s)
    BY <1>4, SubsetSizes
  <2>2. PICK r \in SUBSET S : r = RestOf(s) /\ r = s \ {x}
    BY <2>1 DEF RestOf
  <2>3. F[r] \in Int /\ G[r] = F[r] + (IF c \in r THEN g[c] - f[c] ELSE 0)
    BY <1>4, <2>2
  <2>4. F[s] = f[x] + F[r] /\ G[s] = g[x] + G[r]
    <3>1. F[s] = f[FirstOf(s)] + F[RestOf(s)]
      BY <1>1, <1>4, SumsRecursion
    <3>2. G[s] = g[FirstOf(s)] + G[RestOf(s)]
      BY <1>2, <1>4, SumsRecursion
    <3> QED BY <2>1, <2>2, <3>1, <3>2
  <2>5. (c \in s <=> c \in r \/ c = x) /\ (c = x => c \notin r)
    BY <2>1, <2>2
  <2>6. /\ f[x] \in Int /\ g[x] \in Int /\ f[c] \in Int /\ g[c] \in Int
        /\ x # c => g[x] = f[x]
    BY <2>1
  <2> QED BY <2>3, <2>4, <2>5, <2>6
<1>5. S \in W
  <2> HIDE DEF W
  <2> QED BY <1>3, <1>4, SubsetInduction
<1> QED BY <1>1, <1>2, <1>5

\* A sum of zeros is zero.
LEMMA SumZero ==
  ASSUME NEW S, IsFiniteSet(S), NEW f \in [S -> Int], \A x \in S : f[x] = 0
  PROVE  SumFunction(f) = 0
<1>1. PICK F : SumsOf(F, f, S) /\ SumFunction(f) = F[S]
  BY SumIs
<1> DEFINE W == {s \in SUBSET S : F[s] = 0}
<1>2. {} \in W
  BY <1>1, SumsRecursion
<1>3. ASSUME NEW s \in SUBSET S, s # {}, RestOf(s) \in W PROVE s \in W
  <2>1. F[s] = f[FirstOf(s)] + F[RestOf(s)] /\ FirstOf(s) \in S
    BY <1>1, <1>3, SumsRecursion, SubsetSizes
  <2> QED BY <1>3, <2>1
<1>4. S \in W
  <2> HIDE DEF W
  <2> QED BY <1>2, <1>3, SubsetInduction
<1> QED BY <1>1, <1>4

\* A sum of greater terms is greater.
LEMMA SumMonotone ==
  ASSUME NEW S, IsFiniteSet(S), NEW f \in [S -> Int], NEW g \in [S -> Int],
         \A x \in S : f[x] <= g[x]
  PROVE  SumFunction(f) <= SumFunction(g)
<1>1. PICK F : SumsOf(F, f, S) /\ SumFunction(f) = F[S]
  BY SumIs
<1>2. PICK G : SumsOf(G, g, S) /\ SumFunction(g) = G[S]
  BY SumIs
<1> DEFINE W == {s \in SUBSET S :
                   F[s] \in Int /\ G[s] \in Int /\ F[s] <= G[s]}
<1>3. {} \in W
  BY <1>1, <1>2, SumsRecursion
<1>4. ASSUME NEW s \in SUBSET S, s # {}, RestOf(s) \in W PROVE s \in W
  <2>1. F[s] = f[FirstOf(s)] + F[RestOf(s)] /\ FirstOf(s) \in S
    BY <1>1, <1>4, SumsRecursion, SubsetSizes
  <2>2. G[s] = g[FirstOf(s)] + G[RestOf(s)]
    BY <1>2, <1>4, SumsRecursion
  <2>3. /\ f[FirstOf(s)] \in Int /\ g[FirstOf(s)] \in Int
        /\ f[FirstOf(s)] <= g[FirstOf(s)]
    BY <2>1
  <2> QED BY <1>4, <2>1, <2>2, <2>3
<1>5. S \in W
  <2> HIDE DEF W
  <2> QED BY <1>3, <1>4, SubsetInduction
<1> QED BY <1>1, <1>2, <1>5

\* A sum of natural numbers is one, and no less than each of them.
LEMMA SumBounds ==
  ASSUME NEW S, IsFiniteSet(S), NEW f \in [S -> Nat]
  PROVE  SumFunction(f) \in Nat /\ \A c \in S : f[c] <= SumFunction(f)
<1>1. ASSUME NEW h \in [S -> Nat] PROVE SumFunction(h) \in Nat
  <2>1. PICK F : SumsOf(F, h, S) /\ SumFunction(h) = F[S]
    <3>1. h \in [S -> Int]
      OBVIOUS
    <3> QED BY <3>1, SumIs
  <2> DEFINE W == {s \in SUBSET S : F[s] \in Nat}
  <2>2. {} \in W
    BY <2>1, SumsRecursion
  <2>3. ASSUME NEW s \in SUBSET S, s # {}, RestOf(s) \in W PROVE s \in W
    <3>1. F[s] = h[FirstOf(s)] + F[RestOf(s)] /\ FirstOf(s) \in S
      BY <2>1, <2>3, SumsRecursion, SubsetSizes
    <3>2. h[FirstOf(s)] \in Nat
      BY <3>1
    <3> QED BY <2>3, <3>1, <3>2
  <2>4. S \in W
    <3> HIDE DEF W
    <3> QED BY <2>2, <2>3, SubsetInduction
  <2> QED BY <2>1, <2>4
<1>2. ASSUME NEW c \in S PROVE f[c] <= SumFunction(f)
  <2>1. PICK g \in [S -> Nat] : g = [f EXCEPT ![c] = 0]
    OBVIOUS
  <2>2. f \in [S -> Int] /\ g \in [S -> Int] /\ g[c] = 0 /\ f[c] \in Nat
        /\ \A x \in S : x # c => f[x] = g[x]
    BY <2>1
  <2>3. SumFunction(f) = SumFunction(g) + (f[c] - g[c])
    BY <2>2, SumChange
  <2>4. SumFunction(g) \in Nat
    BY <1>1
  <2> QED BY <2>2, <2>3, <2>4
<1> QED BY <1>1, <1>2

-----------------------------------------------------------------------------
(* Finite sets *)

\* Adding one to a finite set, and taking one from it.
LEMMA OneMore ==
  ASSUME NEW T, IsFiniteSet(T), NEW S \in SUBSET T, NEW R, NEW x, x \notin S,
         R = S \cup {x}
  PROVE  Cardinality(S) \in Nat /\ Cardinality(R) = Cardinality(S) + 1
<1>1. IsFiniteSet(S)
  BY FS_Subset
<1> QED BY <1>1, FS_AddElement, FS_CardinalityType

LEMMA OneLess ==
  ASSUME NEW T, IsFiniteSet(T), NEW S \in SUBSET T, NEW R, NEW x \in S,
         R = S \ {x}
  PROVE  Cardinality(S) \in Nat /\ Cardinality(R) = Cardinality(S) - 1
<1>1. IsFiniteSet(S)
  BY FS_Subset
<1> QED BY <1>1, FS_RemoveElement, FS_CardinalityType

-----------------------------------------------------------------------------
(* Powers of two *)

\* g has the powers up to the n-th.
PowersUpTo(g, n) ==
  g = [i \in 0 .. n |-> IF i = 0 THEN 1 ELSE 2 * g[i - 1]]

\* The recursion of Pow2 has a solution.
LEMMA PowersExist == Pow2 = [n \in Nat |-> IF n = 0 THEN 1 ELSE 2 * Pow2[n - 1]]
<1> DEFINE N == {n \in Nat : \E g : PowersUpTo(g, n)}
           G(n) == CHOOSE g : PowersUpTo(g, n)
<1>1. 0 \in N
  <2>1. PowersUpTo([i \in 0 .. 0 |-> 1], 0)
    BY DEF PowersUpTo
  <2> QED BY <2>1
<1>2. ASSUME NEW n \in Nat, n \in N PROVE n + 1 \in N
  <2>1. PICK g : PowersUpTo(g, n)
    BY <1>2
  <2> DEFINE h == [i \in 0 .. n + 1 |-> IF i = 0 THEN 1 ELSE 2 * g[i - 1]]
  <2>2. \A i \in 0 .. n : h[i] = g[i]
    BY <2>1 DEF PowersUpTo
  <2>3. PowersUpTo(h, n + 1)
    <3>1. ASSUME NEW i \in 0 .. n + 1, i # 0
          PROVE  i - 1 \in 0 .. n /\ h[i - 1] = g[i - 1]
      <4>1. i - 1 \in 0 .. n
        BY <3>1
      <4> HIDE DEF h
      <4> QED BY <2>2, <4>1
    <3> QED BY <3>1 DEF PowersUpTo
  <2> QED BY <2>3
<1>3. \A n \in Nat : PowersUpTo(G(n), n)
  <2>1. Nat \subseteq N
    <3> HIDE DEF N
    <3> QED BY <1>1, <1>2, SetInduction
  <2>2. ASSUME NEW n \in Nat PROVE \E g : PowersUpTo(g, n)
    BY <2>1
  <2> QED BY <2>2
<1>4. ASSUME NEW n \in Nat PROVE G(n + 1)[n] = G(n)[n]
  <2> DEFINE a == G(n)
             b == G(n + 1)
             M == {i \in Nat : i <= n => a[i] = b[i]}
  <2>0. PowersUpTo(a, n) /\ PowersUpTo(b, n + 1)
    BY <1>3
  <2> HIDE DEF a, b
  <2>1. 0 \in M
    BY <2>0 DEF PowersUpTo
  <2>2. ASSUME NEW i \in Nat, i \in M PROVE i + 1 \in M
    <3>1. ASSUME i + 1 <= n PROVE a[i + 1] = b[i + 1]
      <4>1. i + 1 \in 0 .. n /\ i + 1 \in 0 .. n + 1 /\ i + 1 - 1 = i /\ i + 1 # 0
        BY <3>1
      <4>2. a[i + 1] = 2 * a[i] /\ b[i + 1] = 2 * b[i]
        BY <2>0, <4>1 DEF PowersUpTo
      <4> QED BY <2>2, <3>1, <4>2
    <3> QED BY <3>1
  <2>3. n \in M
    <3> HIDE DEF M
    <3> QED BY <2>1, <2>2, SetInduction
  <2> QED BY <2>3 DEF a, b
<1> DEFINE f == [n \in Nat |-> G(n)[n]]
<1>5. f = [n \in Nat |-> IF n = 0 THEN 1 ELSE 2 * f[n - 1]]
  <2>1. ASSUME NEW n \in Nat PROVE G(n)[n] = IF n = 0 THEN 1 ELSE 2 * f[n - 1]
    <3>1. G(n)[n] = IF n = 0 THEN 1 ELSE 2 * G(n)[n - 1]
      <4>1. n \in 0 .. n
        OBVIOUS
      <4> HIDE DEF G
      <4> QED BY <1>3, <4>1 DEF PowersUpTo
    <3>2. ASSUME n # 0 PROVE G(n)[n - 1] = f[n - 1]
      <4>1. n - 1 \in Nat /\ n - 1 + 1 = n
        BY <3>2
      <4> HIDE DEF G
      <4> QED BY <1>4, <4>1
    <3> QED BY <3>1, <3>2
  <2>2. f = [n \in Nat |-> G(n)[n]]
    OBVIOUS
  <2> HIDE DEF f, G
  <2>3. [n \in Nat |-> G(n)[n]]
          = [n \in Nat |-> IF n = 0 THEN 1 ELSE 2 * f[n - 1]]
    BY <2>1
  <2> QED BY <2>2, <2>3
<1> HIDE DEF f
<1> QED BY <1>5 DEF Pow2

\* What one shift does; and 2^n is more than n.
LEMMA PowersAre ==
  /\ Pow2[0] = 1
  /\ \A n \in Nat : Pow2[n + 1] = 2 * Pow2[n] /\ Pow2[n] \in Nat /\ Pow2[n] > n
<1>1. Pow2[0] = 1
  BY PowersExist
<1>2. ASSUME NEW n \in Nat PROVE Pow2[n + 1] = 2 * Pow2[n]
  BY PowersExist
<1> DEFINE N == {n \in Nat : Pow2[n] \in Nat /\ Pow2[n] > n}
<1>3. 0 \in N
  BY <1>1
<1>4. ASSUME NEW n \in Nat, n \in N PROVE n + 1 \in N
  BY <1>2, <1>4
<1>5. Nat \subseteq N
  <2> HIDE DEF N
  <2> QED BY <1>3, <1>4, SetInduction
<1> QED BY <1>1, <1>2, <1>5

LEMMA PowersPositive == \A n \in Nat : Pow2[n] \in Nat \ {0}
<1>1. ASSUME NEW n \in Nat PROVE Pow2[n] \in Nat \ {0}
  <2>1. Pow2[n] \in Nat /\ Pow2[n] > n
    BY PowersAre
  <2> QED BY <2>1
<1> QED BY <1>1

LEMMA DoubleProduct ==
  ASSUME NEW a \in Nat, NEW b \in Nat PROVE 2 * (a * b) = a * (2 * b)
OBVIOUS

\* 1 << m + n is 1 << m, shifted by n.
LEMMA PowersAdd ==
  ASSUME NEW m \in Nat, NEW n \in Nat PROVE Pow2[m + n] = Pow2[m] * Pow2[n]
<1> DEFINE S == {k \in Nat : Pow2[m + k] = Pow2[m] * Pow2[k]}
<1>1. 0 \in S
  BY PowersAre
<1>2. ASSUME NEW k \in Nat, k \in S PROVE k + 1 \in S
  <2>1. Pow2[m + k] = Pow2[m] * Pow2[k] /\ m + k \in Nat
    BY <1>2
  <2>2. /\ Pow2[m + k + 1] = 2 * Pow2[m + k] /\ Pow2[k + 1] = 2 * Pow2[k]
        /\ Pow2[m] \in Nat /\ Pow2[k] \in Nat
    BY <2>1, PowersAre
  <2>3. Pow2[m + (k + 1)] = Pow2[m] * Pow2[k + 1]
    <3>1. 2 * (Pow2[m] * Pow2[k]) = Pow2[m] * (2 * Pow2[k])
      BY <2>2, DoubleProduct
    <3>2. m + (k + 1) = m + k + 1
      OBVIOUS
    <3> QED BY <2>1, <2>2, <3>1, <3>2
  <2> QED BY <2>3
<1>3. Nat \subseteq S
  <2> HIDE DEF S
  <2> QED BY <1>1, <1>2, SetInduction
<1> QED BY <1>3

\* Between two powers of two there is every number.
LEMMA LogExists ==
  ASSUME NEW n \in Nat \ {0}
  PROVE  \E s \in 0 .. n : Pow2[s] <= n /\ n < Pow2[s + 1]
<1> DEFINE S == {k \in Nat : \E s \in 0 .. k + 1 :
                               Pow2[s] <= k + 1 /\ k + 1 < Pow2[s + 1]}
<1>1. 0 \in S
  <2>1. Pow2[0] = 1 /\ Pow2[1] = 2
    <3>1. Pow2[0 + 1] = 2 * Pow2[0] /\ Pow2[0] = 1
      BY PowersAre
    <3> QED BY <3>1
  <2> QED BY <2>1
<1>2. ASSUME NEW k \in Nat, k \in S PROVE k + 1 \in S
  <2>1. PICK s \in 0 .. k + 1 : Pow2[s] <= k + 1 /\ k + 1 < Pow2[s + 1]
    BY <1>2
  <2>2. /\ Pow2[s + 1] \in Nat /\ Pow2[s] \in Nat /\ Pow2[s + 1 + 1] = 2 * Pow2[s + 1]
    BY PowersAre
  <2>3. CASE k + 2 < Pow2[s + 1]
    <3>1. s \in 0 .. k + 2 /\ Pow2[s] <= k + 2
      BY <2>1, <2>2
    <3>2. k + 1 + 1 = k + 2
      OBVIOUS
    <3> QED BY <2>3, <3>1, <3>2
  <2>4. CASE k + 2 >= Pow2[s + 1]
    <3>1. s + 1 \in 0 .. k + 2 /\ Pow2[s + 1] <= k + 2 /\ k + 2 < Pow2[s + 1 + 1]
      BY <2>1, <2>2, <2>4
    <3>2. k + 1 + 1 = k + 2
      OBVIOUS
    <3> QED BY <3>1, <3>2
  <2> QED BY <2>2, <2>3, <2>4
<1>3. Nat \subseteq S
  <2> HIDE DEF S
  <2> QED BY <1>1, <1>2, SetInduction
<1>4. n - 1 \in S /\ n - 1 + 1 = n
  BY <1>3
<1> QED BY <1>4
=============================================================================
