--------------------------- MODULE TopologyProofs ---------------------------
(***************************************************************************)
(* What the load generator's planning promises, for every configuration    *)
(* and every command line.                                                 *)
(***************************************************************************)
EXTENDS Topology, FiniteSetTheorems, FunctionTheorems, TLAPS

\* A leaf is Zenon's unless it names another prover.
USE Zenon

-----------------------------------------------------------------------------
(* Positions in a slice.                                                    *)

LEMMA SizeOf ==
  ASSUME NEW n \in Nat
  PROVE  IsFiniteSet(0..(n - 1)) /\ Cardinality(0..(n - 1)) = n
  <1>1. 0 \in Int /\ n - 1 \in Int
    BY SMT
  <1>2. /\ IsFiniteSet(0..(n - 1))
        /\ Cardinality(0..(n - 1)) = IF 0 > n - 1 THEN 0 ELSE (n - 1) - 0 + 1
    BY <1>1, FS_Interval
  <1> QED BY <1>2, SMT

\* A later element of the slice has more elements before it.
LEMMA PositionGrows ==
  ASSUME NEW S \in SUBSET Int, IsFiniteSet(S), NEW g \in S, NEW h \in S, g < h
  PROVE  Position(S, g) \in Nat /\ Position(S, h) \in Nat /\ Position(S, g) < Position(S, h)
  <1> DEFINE A == {x \in S : x < g}
             B == {x \in S : x < h}
  <1>1. IsFiniteSet(A) /\ IsFiniteSet(B) /\ Cardinality(A) \in Nat /\ Cardinality(B) \in Nat
    BY FS_Subset, FS_CardinalityType
  <1>2. g \notin A /\ A \union {g} \subseteq B
    <2>1. ASSUME NEW x \in S, x < g
          PROVE  x < h
      BY <2>1, SMT
    <2>2. ~(g < g)
      BY SMT
    <2> QED BY <2>1, <2>2
  <1>3. Cardinality(A \union {g}) = Cardinality(A) + 1
    BY <1>1, <1>2, FS_AddElement
  <1>4. Cardinality(A \union {g}) <= Cardinality(B)
    BY <1>1, <1>2, FS_Subset
  <1>5. Position(S, g) = Cardinality(A) /\ Position(S, h) = Cardinality(B)
    BY DEF Position
  <1> HIDE DEF A, B
  <1> QED BY <1>1, <1>3, <1>4, <1>5, SMT

\* The positions are 0 to len - 1, each taken once.
LEMMA PositionRange ==
  ASSUME NEW S \in SUBSET Int, IsFiniteSet(S), NEW g \in S
  PROVE  Position(S, g) \in 0..(Cardinality(S) - 1)
  <1> DEFINE A == {x \in S : x < g}
  <1>1. A \subseteq S \ {g}
    BY SMT
  <1>2. IsFiniteSet(S \ {g}) /\ Cardinality(S \ {g}) = Cardinality(S) - 1
    BY FS_RemoveElement
  <1>3. IsFiniteSet(A) /\ Cardinality(A) \in Nat /\ Cardinality(A) <= Cardinality(S \ {g})
    BY <1>1, <1>2, FS_Subset, FS_CardinalityType
  <1>4. Cardinality(S) \in Nat
    BY FS_CardinalityType
  <1>5. Position(S, g) = Cardinality(A)
    BY DEF Position
  <1> HIDE DEF A
  <1> QED BY <1>2, <1>3, <1>4, <1>5, SMT

LEMMA PositionOnce ==
  ASSUME NEW S \in SUBSET Int, IsFiniteSet(S), NEW g \in S, NEW h \in S,
         Position(S, g) = Position(S, h)
  PROVE  g = h
  <1>1. ~(g < h) /\ ~(h < g)
    <2>1. CASE g < h
      BY <2>1, PositionGrows, SMT
    <2>2. CASE h < g
      BY <2>2, PositionGrows, SMT
    <2> QED BY <2>1, <2>2
  <1> QED BY <1>1, SMT

LEMMA PositionTaken ==
  ASSUME NEW S \in SUBSET Int, IsFiniteSet(S), NEW p \in 0..(Cardinality(S) - 1)
  PROVE  \E g \in S : Position(S, g) = p
  <1> DEFINE T == 0..(Cardinality(S) - 1)
             f == [g \in S |-> Position(S, g)]
  <1>1. f \in [S -> T]
    BY PositionRange
  <1>2. f \in Injection(S, T)
    <2>1. \A g, h \in S : f[g] = f[h] => g = h
      BY PositionOnce
    <2> QED BY <1>1, <2>1, Fun_IsInj
  <1>3. IsFiniteSet(T) /\ Cardinality(T) = Cardinality(S)
    BY FS_CardinalityType, SizeOf
  <1>4. f \in Surjection(S, T)
    BY <1>2, <1>3, FS_Injection
  <1>5. \E g \in S : f[g] = p
    BY <1>4 DEF Surjection
  <1> QED BY <1>5

\* As many elements as positions.
LEMMA PositionCount ==
  ASSUME NEW S \in SUBSET Int, IsFiniteSet(S), NEW a \in Nat, NEW b \in Nat,
         a <= b, b <= Cardinality(S)
  PROVE  Cardinality({g \in S : a <= Position(S, g) /\ Position(S, g) < b}) = b - a
  <1> DEFINE A == {g \in S : a <= Position(S, g) /\ Position(S, g) < b}
             T == a..(b - 1)
             f == [g \in A |-> Position(S, g)]
  <1>1. \A g \in S : Position(S, g) \in Nat
    BY PositionRange, SMT
  <1>2. f \in [A -> T]
    <2>1. ASSUME NEW g \in A
          PROVE  Position(S, g) \in T
      BY <1>1, SMT
    <2> QED BY <2>1
  <1>3. \A g, h \in A : f[g] = f[h] => g = h
    BY PositionOnce
  <1>4. \A p \in T : \E g \in A : f[g] = p
    <2> SUFFICES ASSUME NEW p \in T PROVE \E g \in A : f[g] = p
      OBVIOUS
    <2>1. Cardinality(S) \in Nat
      BY FS_CardinalityType
    <2>2. p \in 0..(Cardinality(S) - 1) /\ a <= p /\ p < b
      BY <2>1, SMT
    <2>3. PICK g \in S : Position(S, g) = p
      BY <2>2, PositionTaken
    <2> QED BY <2>2, <2>3
  <1>5. f \in Bijection(A, T)
    BY <1>2, <1>3, <1>4, Fun_IsBij
  <1>6. IsFiniteSet(A)
    BY FS_Subset
  <1>7. Cardinality(T) = Cardinality(A)
    BY <1>5, <1>6, FS_Bijection, Fun_ExistsBij
  <1>8. Cardinality(T) = IF a > b - 1 THEN 0 ELSE (b - 1) - a + 1
    <2>1. a \in Int /\ b - 1 \in Int
      BY SMT
    <2> QED BY <2>1, FS_Interval
  <1> QED BY <1>7, <1>8, SMT

-----------------------------------------------------------------------------
(* Quotients and remainders.                                                *)

LEMMA Product ==
  ASSUME NEW a \in Int, NEW b \in Int, NEW k \in Nat, a <= b
  PROVE  k * a <= k * b /\ k * a \in Int /\ k * b \in Int
  BY SMT

LEMMA QuotientIs ==
  ASSUME NEW j \in Nat, NEW k \in Nat \ {0}, NEW a \in Nat
  PROVE  j \div k = a <=> k * a <= j /\ j < k * a + k
  BY SMT

LEMMA RemainderIs ==
  ASSUME NEW j \in Nat, NEW k \in Nat \ {0}, NEW a \in Nat, NEW r \in 0..(k - 1), j = k * a + r
  PROVE  j % k = r
  BY SMT

LEMMA RemainderOf ==
  ASSUME NEW k \in Nat \ {0}
  PROVE  \A j \in Nat, r \in 0..(k - 1) : j % k = r <=> \E a \in Nat : j = k * a + r
  <1> SUFFICES ASSUME NEW j \in Nat, NEW r \in 0..(k - 1)
               PROVE  j % k = r <=> \E a \in Nat : j = k * a + r
    OBVIOUS
  <1>1. PICK a \in Nat : a = j \div k
    BY SMT
  <1>2. k * a \in Int /\ k * a <= j /\ j < k * a + k
    BY <1>1, QuotientIs, SMT
  <1>3. j - k * a \in 0..(k - 1) /\ j = k * a + (j - k * a)
    BY <1>2, SMT
  <1>4. PICK x \in 0..(k - 1) : j = k * a + x
    BY <1>3
  <1>5. j % k = x
    BY <1>4, RemainderIs
  <1>6. ASSUME j % k = r
        PROVE  \E b \in Nat : j = k * b + r
    BY <1>4, <1>5, <1>6
  <1>7. ASSUME NEW b \in Nat, j = k * b + r
        PROVE  j % k = r
    BY <1>7, RemainderIs
  <1> QED BY <1>6, <1>7

-----------------------------------------------------------------------------
(* How many of n goroutines or channels land at a position.                 *)

\* The position that j is spread to.
Spread(j, k, mode, capN) ==
  CASE mode = "even" -> j % k
    [] mode = "uneven" /\ capN <= 0 -> 0
    [] OTHER -> j \div capN

Landing(p, n, k, mode, capN) == {j \in 0..(n - 1) : Spread(j, k, mode, capN) = p}

LEMMA LandingFinite ==
  ASSUME NEW n \in Nat, NEW p, NEW k, NEW mode, NEW capN
  PROVE  /\ IsFiniteSet(Landing(p, n, k, mode, capN))
         /\ Cardinality(Landing(p, n, k, mode, capN)) \in Nat
  BY SizeOf, FS_Subset, FS_CardinalityType DEF Landing

\* Round-robin: a later position has as many as an earlier one, or one less.
LEMMA EvenLoads ==
  ASSUME NEW n \in Nat, NEW k \in Nat \ {0}, NEW capN, NEW p \in 0..(k - 1), NEW q \in 0..(k - 1),
         p < q
  PROVE  LET at_(x) == Cardinality(Landing(x, n, k, "even", capN))
         IN  at_(q) <= at_(p) /\ at_(p) <= at_(q) + 1
  <1> DEFINE A == Landing(p, n, k, "even", capN)
             B == Landing(q, n, k, "even", capN)
             d == q - p
  <1>1. \A j \in 0..(n - 1) : /\ j \in A <=> \E a \in Nat : j = k * a + p
                              /\ j \in B <=> \E a \in Nat : j = k * a + q
    <2>1. /\ A = {j \in 0..(n - 1) : j % k = p} /\ B = {j \in 0..(n - 1) : j % k = q}
          /\ 0..(n - 1) \subseteq Nat
      BY SMT DEF Landing, Spread
    <2>2. \A j \in Nat, r \in 0..(k - 1) : j % k = r <=> \E a \in Nat : j = k * a + r
      BY RemainderOf
    <2>3. \A j \in Nat : /\ j % k = p <=> \E a \in Nat : j = k * a + p
                         /\ j % k = q <=> \E a \in Nat : j = k * a + q
      BY <2>2
    <2> HIDE DEF A, B
    <2>4. ASSUME NEW j \in 0..(n - 1)
          PROVE  (j \in A <=> j % k = p) /\ (j \in B <=> j % k = q) /\ j \in Nat
      BY <2>1
    <2> QED BY <2>3, <2>4
  <1>0. A \subseteq 0..(n - 1) /\ B \subseteq 0..(n - 1)
    BY DEF Landing
  <1>2. IsFiniteSet(A) /\ IsFiniteSet(B) /\ Cardinality(A) \in Nat /\ Cardinality(B) \in Nat
    BY LandingFinite
  <1> HIDE DEF A, B
  <1>3. d \in 1..(k - 1) /\ q = p + d /\ p \in Nat /\ q \in Nat /\ k \in Nat
    BY SMT
  <1> HIDE DEF d
  <1>4. Cardinality(B) <= Cardinality(A)
    <2> DEFINE f == [j \in B |-> j - d]
    <2>1. ASSUME NEW j \in B
          PROVE  j \in Int /\ j - d \in A
      <3>1. j \in Nat /\ j \in Int /\ j < n
        BY <1>0, SMT
      <3>2. PICK b \in Nat : j = k * b + q
        BY <1>0, <1>1
      <3>3. k * b \in Nat
        BY <3>2, <1>3, SMT
      <3>4. j - d \in Nat /\ j - d = k * b + p /\ j - d < n
        BY <3>1, <3>2, <3>3, <1>3, SMT
      <3>5. j - d \in 0..(n - 1)
        BY <3>4, SMT
      <3>6. \E a \in Nat : j - d = k * a + p
        BY <3>2, <3>4
      <3>7. j - d \in A <=> \E a \in Nat : j - d = k * a + p
        BY <3>5, <1>1
      <3> QED BY <3>1, <3>6, <3>7
    <2>2. f \in [B -> A]
      BY <2>1
    <2>3. \A i, j \in B : f[i] = f[j] => i = j
      <3> SUFFICES ASSUME NEW i \in B, NEW j \in B, i - d = j - d PROVE i = j
        OBVIOUS
      <3> QED BY <2>1, <1>3, SMT
    <2>4. f \in Injection(B, A)
      BY <2>2, <2>3, Fun_IsInj
    <2> QED BY <1>2, <2>4, FS_Injection
  <1>5. Cardinality(A) <= Cardinality(B) + 1
    <2> DEFINE C == A \ {p}
               f == [j \in C |-> j - (k - d)]
    <2>1. ASSUME NEW j \in C
          PROVE  j \in Int /\ j - (k - d) \in B
      <3>1. j \in Nat /\ j \in Int /\ j < n /\ j # p
        BY <1>0, SMT
      <3>2. PICK b \in Nat : j = k * b + p
        BY <1>0, <1>1
      <3>3. b # 0
        BY <3>1, <3>2, <1>3, SMT
      <3>4. b - 1 \in Nat /\ k * (b - 1) \in Nat /\ k * b = k * (b - 1) + k
        BY <3>2, <3>3, <1>3, SMT
      <3>5. j - (k - d) \in Nat /\ j - (k - d) = k * (b - 1) + q /\ j - (k - d) < n
        BY <3>1, <3>2, <3>4, <1>3, SMT
      <3>6. j - (k - d) \in 0..(n - 1)
        BY <3>5, SMT
      <3>7. \E a \in Nat : j - (k - d) = k * a + q
        BY <3>4, <3>5
      <3>8. j - (k - d) \in B <=> \E a \in Nat : j - (k - d) = k * a + q
        BY <3>6, <1>1
      <3> QED BY <3>1, <3>7, <3>8
    <2>2. f \in [C -> B]
      BY <2>1
    <2>3. \A i, j \in C : f[i] = f[j] => i = j
      <3> SUFFICES ASSUME NEW i \in C, NEW j \in C, i - (k - d) = j - (k - d) PROVE i = j
        OBVIOUS
      <3> QED BY <2>1, <1>3, SMT
    <2>4. f \in Injection(C, B)
      BY <2>2, <2>3, Fun_IsInj
    <2>5. Cardinality(C) <= Cardinality(B)
      BY <1>2, <2>4, FS_Injection
    <2>6. Cardinality(C) = IF p \in A THEN Cardinality(A) - 1 ELSE Cardinality(A)
      BY <1>2, FS_RemoveElement
    <2> HIDE DEF C
    <2> QED BY <1>2, <2>5, <2>6, SMT
  <1> QED BY <1>4, <1>5 DEF A, B

\* Packed up to a cap: no position has more, and one before another in use is
\* full.
LEMMA PackedLoads ==
  ASSUME NEW n \in Nat, NEW k, NEW capN \in Nat \ {0}, NEW p \in Nat
  PROVE  /\ Cardinality(Landing(p, n, k, "uneven", capN)) <= capN
         /\ \A q \in Nat : p < q /\ Landing(q, n, k, "uneven", capN) # {} =>
              Cardinality(Landing(p, n, k, "uneven", capN)) = capN
  <1> DEFINE A == Landing(p, n, k, "uneven", capN)
             low == capN * p
             I == low..(low + capN - 1)
  <1>1. ASSUME NEW x
        PROVE  Landing(x, n, k, "uneven", capN) = {j \in 0..(n - 1) : j \div capN = x}
    BY SMT DEF Landing, Spread
  <1>2. low \in Nat /\ low = capN * p
    BY SMT
  <1> HIDE DEF low
  <1>3. IsFiniteSet(I) /\ Cardinality(I) = capN
    <2>1. low \in Int /\ low + capN - 1 \in Int
      BY <1>2, SMT
    <2>2. /\ IsFiniteSet(I)
          /\ Cardinality(I) = IF low > low + capN - 1 THEN 0 ELSE (low + capN - 1) - low + 1
      BY <2>1, FS_Interval
    <2> QED BY <1>2, <2>2, SMT
  <1>4. ASSUME NEW j \in Nat
        PROVE  j \div capN = p <=> j \in I
    BY <1>2, QuotientIs, SMT
  <1>5. A \subseteq I
    <2> SUFFICES ASSUME NEW j \in A PROVE j \in I
      OBVIOUS
    <2>1. j \in Nat /\ j \div capN = p
      BY <1>1, SMT
    <2> QED BY <1>4, <2>1
  <1>6. Cardinality(A) <= capN
    BY <1>3, <1>5, FS_Subset
  <1>7. ASSUME NEW q \in Nat, p < q, Landing(q, n, k, "uneven", capN) # {}
        PROVE  Cardinality(A) = capN
    <2>1. PICK j \in 0..(n - 1) : j \div capN = q
      BY <1>1, <1>7
    <2>2. capN * q \in Int /\ capN * q <= j
      BY <2>1, QuotientIs, SMT
    <2>3. capN * (p + 1) <= capN * q /\ capN * (p + 1) = low + capN
      BY <1>2, <1>7, Product, SMT
    <2>4. low + capN <= j
      BY <1>2, <2>1, <2>2, <2>3, SMT
    <2>5. ASSUME NEW i \in I
          PROVE  i \in A
      <3>1. i \in Nat /\ i \in 0..(n - 1)
        BY <1>2, <2>1, <2>4, SMT
      <3> QED BY <1>1, <1>4, <3>1
    <2>6. A = I
      BY <1>5, <2>5
    <2> QED BY <1>3, <2>6
  <1> QED BY <1>6, <1>7

\* Packed without a cap: all at the first position.
LEMMA PiledLoads ==
  ASSUME NEW n \in Nat, NEW k, NEW capN \in Int, capN <= 0, NEW p \in Nat, p # 0
  PROVE  Cardinality(Landing(p, n, k, "uneven", capN)) = 0
  <1>1. Landing(p, n, k, "uneven", capN) = {}
    BY DEF Landing, Spread
  <1> QED BY <1>1, FS_EmptySet

\* The slots are in the order of their positions pos, of which there are k, and
\* each has the load of its position.
Carries(load, slots, pos, n, k, mode, capN) ==
  /\ pos \in [slots -> 0..(k - 1)]
  /\ \A g, h \in slots : g < h => pos[g] < pos[h]
  /\ \A g \in slots : load[g] = Cardinality(Landing(pos[g], n, k, mode, capN))

\* Whatever the distribution, the loads have the shape it promises.
LEMMA SpreadShaped ==
  ASSUME NEW n \in Nat, NEW k \in Nat \ {0}, NEW mode \in Dists, NEW capN \in Int,
         NEW slots \in SUBSET Int, NEW pos, NEW load,
         Carries(load, slots, pos, n, k, mode, capN)
  PROVE  Shaped(load, slots, mode, capN)
  <1> USE DEF Carries
  <1>0. \A g \in slots : pos[g] \in Nat /\ load[g] \in Nat
    BY LandingFinite, SMT
  <1>1. CASE mode = "even"
    <2>1. ASSUME NEW g \in slots, NEW h \in slots, g < h
          PROVE  load[h] <= load[g] /\ load[g] <= load[h] + 1
      BY <1>1, <2>1, EvenLoads
    <2> QED BY <1>1, <2>1 DEF Shaped
  <1>2. CASE mode = "uneven" /\ capN > 0
    <2>1. ASSUME NEW g \in slots, NEW h \in slots
          PROVE  load[g] <= capN /\ (g < h /\ load[h] > 0 => load[g] = capN)
      <3>1. capN \in Nat \ {0} /\ pos[g] \in Nat /\ pos[h] \in Nat
        BY <1>0, <1>2, SMT
      <3>0. load[g] = Cardinality(Landing(pos[g], n, k, "uneven", capN))
        BY <1>2
      <3>2. load[g] <= capN
        BY <3>0, <3>1, PackedLoads, SMT
      <3>3. ASSUME g < h, load[h] > 0
            PROVE  load[g] = capN
        <4>1. load[h] # 0
          BY <3>3, <1>0, SMT
        <4>2. Landing(pos[h], n, k, "uneven", capN) # {}
          BY <1>2, <4>1, FS_EmptySet
        <4>3. pos[g] < pos[h]
          BY <3>3
        <4> QED BY <3>0, <3>1, <4>2, <4>3, PackedLoads, SMT
      <3> QED BY <3>2, <3>3
    <2> QED BY <1>2, <2>1 DEF Shaped
  <1>3. CASE mode = "uneven" /\ capN <= 0
    <2>1. ASSUME NEW g \in slots, NEW h \in slots, g < h
          PROVE  load[h] = 0
      <3>1. pos[h] \in Nat /\ pos[h] # 0
        BY <1>0, <2>1, SMT
      <3> QED BY <1>3, <3>1, PiledLoads
    <2> QED BY <1>3, <2>1, SMT DEF Shaped
  <1>4. capN > 0 \/ capN <= 0
    BY SMT
  <1> QED BY <1>1, <1>2, <1>3, <1>4 DEF Dists

-----------------------------------------------------------------------------
(* Placing workers.                                                         *)

LEMMA QuotientBound ==
  ASSUME NEW j \in Nat, NEW k \in Nat, NEW d \in Nat \ {0}, j < k * d
  PROVE  j \div d \in 0..(k - 1)
  <1>1. PICK a \in Nat : a = j \div d
    BY SMT
  <1>2. d * a \in Int /\ d * a <= j
    BY <1>1, QuotientIs, SMT
  <1>3. a < k
    <2>1. CASE k <= a
      <3>1. d * k <= d * a /\ d * k = k * d /\ d * k \in Int
        BY <2>1, Product, SMT
      <3> QED BY <1>2, <3>1, SMT
    <2> QED BY <2>1, SMT
  <1>4. a \in 0..(k - 1)
    BY <1>3, SMT
  <1> QED BY <1>1, <1>4

LEMMA SpreadRange ==
  ASSUME NEW j \in Nat, NEW k \in Nat \ {0}, NEW mode \in Dists, NEW capN \in Int,
         mode = "uneven" /\ capN > 0 => j < k * capN
  PROVE  Spread(j, k, mode, capN) \in 0..(k - 1)
  <1>1. CASE mode = "even"
    <2>1. j % k \in 0..(k - 1)
      BY SMT
    <2> QED BY <1>1, <2>1 DEF Spread
  <1>2. CASE mode = "uneven" /\ capN <= 0
    BY <1>2, SMT DEF Spread
  <1>3. CASE mode = "uneven" /\ capN > 0
    <2>1. capN \in Nat \ {0} /\ ~(capN <= 0)
      BY <1>3, SMT
    <2>2. j \div capN \in 0..(k - 1)
      BY <1>3, <2>1, QuotientBound
    <2> QED BY <1>3, <2>1, <2>2 DEF Spread
  <1>4. capN > 0 \/ capN <= 0
    BY SMT
  <1> QED BY <1>1, <1>2, <1>3, <1>4 DEF Dists

\* placeWorkers wraps around for the packed workers too, but they never get
\* that far.
LEMMA SlotIs ==
  ASSUME NEW j \in Nat, NEW k \in Nat \ {0}, NEW mode \in Dists, NEW capN \in Int,
         mode = "uneven" /\ capN > 0 => j < k * capN
  PROVE  Slot(j, k, mode, capN) = Spread(j, k, mode, capN)
  <1>1. CASE mode = "even" \/ (mode = "uneven" /\ capN <= 0)
    BY <1>1 DEF Slot, Spread
  <1>2. CASE mode = "uneven" /\ capN > 0
    <2>1. capN \in Nat \ {0} /\ ~(capN <= 0)
      BY <1>2, SMT
    <2>2. PICK a \in 0..(k - 1) : a = j \div capN
      BY <1>2, <2>1, QuotientBound
    <2>3. a \in Nat /\ a = k * 0 + a /\ 0 \in Nat
      BY <2>2, SMT
    <2>4. a % k = a
      BY <2>2, <2>3, RemainderIs
    <2> QED BY <1>2, <2>1, <2>2, <2>4 DEF Slot, Spread
  <1>3. capN > 0 \/ capN <= 0
    BY SMT
  <1> QED BY <1>1, <1>2, <1>3 DEF Dists

\* The goroutines on a slot are those that land at its position.
LEMMA PlacedAre ==
  ASSUME NEW c, NEW count \in Nat, NEW slots \in SUBSET Channels(c), NEW mode \in Dists,
         NEW capN \in Int, Channels(c) \subseteq Int, IsFiniteSet(slots),
         WorkersFit(count, slots, mode, capN)
  PROVE  LET w == PlaceWorkers(c, count, slots, mode, capN)
             n == Cardinality(slots)
         IN  /\ n \in Nat
             /\ count # 0 => n # 0
             /\ \A j \in 0..(count - 1) : Spread(j, n, mode, capN) \in 0..(n - 1)
             /\ \A g \in slots : w[g] = Landing(Position(slots, g), count, n, mode, capN)
             /\ \A g \in Channels(c) \ slots : w[g] = {}
             /\ \A g \in Channels(c) : w[g] \subseteq 0..(count - 1)
             /\ DOMAIN w = Channels(c)
  <1> DEFINE w == PlaceWorkers(c, count, slots, mode, capN)
             n == Cardinality(slots)
  <1>1. n \in Nat /\ (n = 0 <=> slots = {})
    BY FS_CardinalityType, FS_EmptySet
  <1>2. count # 0 => n # 0
    BY <1>1 DEF WorkersFit
  <1>3. ASSUME NEW j \in 0..(count - 1)
        PROVE  /\ Spread(j, n, mode, capN) \in 0..(n - 1)
               /\ Slot(j, n, mode, capN) = Spread(j, n, mode, capN)
    <2>1. j \in Nat /\ j < count /\ count # 0
      BY SMT
    <2>2. n \in Nat \ {0}
      BY <1>1, <1>2, <2>1
    <2>3. mode = "uneven" /\ capN > 0 => count <= n * capN
      BY <2>1 DEF WorkersFit
    <2> HIDE DEF n
    <2>4. n * capN \in Int
      BY <1>1, SMT
    <2>5. mode = "uneven" /\ capN > 0 => j < n * capN
      BY <2>1, <2>3, <2>4, SMT
    <2> QED BY <2>1, <2>2, <2>5, SpreadRange, SlotIs
  <1>4. \A g \in Channels(c) :
          w[g] = {j \in 0..(count - 1) : g \in slots /\ Position(slots, g) = Slot(j, n, mode, capN)}
    BY DEF PlaceWorkers
  <1>5. DOMAIN w = Channels(c)
    BY DEF PlaceWorkers
  <1>6. \A g \in slots : w[g] = Landing(Position(slots, g), count, n, mode, capN)
    <2> HIDE DEF w, n
    <2>1. ASSUME NEW g \in slots
          PROVE  w[g] = {j \in 0..(count - 1) : Spread(j, n, mode, capN) = Position(slots, g)}
      BY <1>3, <1>4
    <2> QED BY <2>1 DEF Landing
  <1>7. /\ \A g \in Channels(c) \ slots : w[g] = {}
        /\ \A g \in Channels(c) : w[g] \subseteq 0..(count - 1)
    BY <1>4
  <1> QED BY <1>1, <1>2, <1>3, <1>5, <1>6, <1>7

\* Each goroutine is on one slot, and the slots carry the promised loads.
LEMMA WorkersPlaced ==
  ASSUME NEW c, NEW count \in Nat, NEW slots \in SUBSET Channels(c), NEW mode \in Dists,
         NEW capN \in Int, Channels(c) \subseteq Int, IsFiniteSet(slots),
         WorkersFit(count, slots, mode, capN)
  PROVE  LET w == PlaceWorkers(c, count, slots, mode, capN)
         IN  /\ \A j \in 0..(count - 1) : Cardinality({g \in DOMAIN w : j \in w[g]}) = 1
             /\ \A g \in DOMAIN w \ slots : w[g] = {}
             /\ \A g \in DOMAIN w : w[g] \subseteq 0..(count - 1)
             /\ Shaped([g \in DOMAIN w |-> Cardinality(w[g])], slots, mode, capN)
  <1> DEFINE w == PlaceWorkers(c, count, slots, mode, capN)
             n == Cardinality(slots)
  <1>1. /\ n \in Nat
        /\ count # 0 => n # 0
        /\ \A j \in 0..(count - 1) : Spread(j, n, mode, capN) \in 0..(n - 1)
        /\ \A g \in slots : w[g] = Landing(Position(slots, g), count, n, mode, capN)
        /\ \A g \in Channels(c) \ slots : w[g] = {}
        /\ \A g \in Channels(c) : w[g] \subseteq 0..(count - 1)
        /\ DOMAIN w = Channels(c)
    BY PlacedAre
  <1> HIDE DEF w
  <1>2. slots \in SUBSET Int
    OBVIOUS
  <1>3. ASSUME NEW j \in 0..(count - 1)
        PROVE  Cardinality({g \in DOMAIN w : j \in w[g]}) = 1
    <2>1. PICK x \in slots : Position(slots, x) = Spread(j, n, mode, capN)
      BY <1>1, <1>2, PositionTaken
    <2>2. \A g \in slots : j \in w[g] <=> Position(slots, g) = Spread(j, n, mode, capN)
      BY <1>1 DEF Landing
    <2>3. \A g \in slots : j \in w[g] <=> g = x
      <3>1. \A g \in slots : Position(slots, g) = Position(slots, x) => g = x
        BY <1>2, PositionOnce
      <3> QED BY <2>1, <2>2, <3>1
    <2>4. {g \in DOMAIN w : j \in w[g]} = {x}
      BY <1>1, <2>3
    <2> QED BY <2>4, FS_Singleton
  <1>4. Shaped([g \in DOMAIN w |-> Cardinality(w[g])], slots, mode, capN)
    <2> DEFINE load == [g \in DOMAIN w |-> Cardinality(w[g])]
               pos == [g \in slots |-> Position(slots, g)]
    <2>1. CASE slots = {}
      BY <2>1 DEF Shaped
    <2>2. CASE slots # {}
      <3>1. n \in Nat \ {0}
        BY <1>1, <2>2, FS_EmptySet
      <3>2. pos \in [slots -> 0..(n - 1)]
        BY <1>2, PositionRange
      <3>3. \A g, h \in slots : g < h => pos[g] < pos[h]
        BY <1>2, PositionGrows
      <3>4. \A g \in slots : load[g] = Cardinality(Landing(pos[g], count, n, mode, capN))
        BY <1>1
      <3> HIDE DEF load, pos, n
      <3>5. Carries(load, slots, pos, count, n, mode, capN)
        BY <3>2, <3>3, <3>4 DEF Carries
      <3>6. Shaped(load, slots, mode, capN)
        BY <1>2, <3>1, <3>5, SpreadShaped
      <3> QED BY <3>6 DEF load
    <2> QED BY <2>1, <2>2
  <1> QED BY <1>1, <1>3, <1>4 DEF w

\* More workers than the slots hold cannot be placed, however they are spread.
LEMMA NoRoom ==
  ASSUME NEW count \in Nat, NEW slots, IsFiniteSet(slots), NEW mode, NEW capN \in Int,
         ~WorkersFit(count, slots, mode, capN)
  PROVE  ~Placeable(count, slots, mode, capN)
  <1> SUFFICES ASSUME NEW f \in [0..(count - 1) -> slots],
                      mode = "uneven" /\ capN > 0 =>
                        \A g \in slots : Cardinality({j \in 0..(count - 1) : f[j] = g}) <= capN
               PROVE  FALSE
    BY DEF Placeable
  <1>1. count # 0 /\ 0 \in 0..(count - 1)
    BY SMT DEF WorkersFit
  <1>2. slots # {}
    BY <1>1
  <1>3. mode = "uneven" /\ capN > 0 /\ ~(count <= Cardinality(slots) * capN)
    BY <1>1, <1>2 DEF WorkersFit
  <1> DEFINE I == 0..(count - 1)
             On(g) == {j \in I : f[j] = g}
             T == slots \X (0..(capN - 1))
             e == [j \in I |-> <<f[j], Position(On(f[j]), j)>>]
  <1>4. IsFiniteSet(I) /\ Cardinality(I) = count
    BY SizeOf
  <1>5. \A g : On(g) \in SUBSET Int /\ IsFiniteSet(On(g)) /\ Cardinality(On(g)) \in Nat
    <2>1. I \in SUBSET Int
      BY SMT
    <2> QED BY <1>4, <2>1, FS_Subset, FS_CardinalityType
  <1>6. ASSUME NEW j \in I
        PROVE  f[j] \in slots /\ j \in On(f[j]) /\ Position(On(f[j]), j) \in 0..(capN - 1)
    <2>1. f[j] \in slots /\ j \in On(f[j])
      OBVIOUS
    <2>2. Position(On(f[j]), j) \in 0..(Cardinality(On(f[j])) - 1)
      BY <1>5, <2>1, PositionRange
    <2>3. Cardinality(On(f[j])) <= capN
      BY <1>3, <2>1
    <2>4. Cardinality(On(f[j])) \in Nat
      BY <1>5
    <2> HIDE DEF On
    <2> QED BY <2>1, <2>2, <2>3, <2>4, SMT
  <1> HIDE DEF On
  <1>7. e \in [I -> T]
    BY <1>6
  <1>8. \A i, j \in I : e[i] = e[j] => i = j
    <2> SUFFICES ASSUME NEW i \in I, NEW j \in I, f[i] = f[j],
                        Position(On(f[i]), i) = Position(On(f[j]), j)
                 PROVE  i = j
      OBVIOUS
    <2>1. i \in On(f[i]) /\ j \in On(f[i])
      BY <1>6
    <2>2. On(f[i]) \in SUBSET Int /\ IsFiniteSet(On(f[i]))
      BY <1>5
    <2>3. Position(On(f[i]), i) = Position(On(f[i]), j)
      OBVIOUS
    <2> QED BY <2>1, <2>2, <2>3, PositionOnce
  <1>9. e \in Injection(I, T)
    BY <1>7, <1>8, Fun_IsInj
  <1>10. IsFiniteSet(T) /\ Cardinality(T) = Cardinality(slots) * capN
    <2>1. capN \in Nat
      BY <1>3, SMT
    <2>2. IsFiniteSet(0..(capN - 1)) /\ Cardinality(0..(capN - 1)) = capN
      BY <2>1, SizeOf
    <2> QED BY <2>2, FS_Product
  <1> HIDE DEF e, T, I
  <1>11. Cardinality(I) <= Cardinality(T)
    BY <1>9, <1>10, FS_Injection
  <1> QED BY <1>3, <1>4, <1>10, <1>11

-----------------------------------------------------------------------------
(* A configuration that is accepted, and its plan.                          *)

Fits(c) ==
  /\ ValidScalars(c) /\ ChannelsFit(c) /\ CarvingFits(c)
  /\ WorkersFit(c.consumers, ConsumeCapable(c), c.channelsDist, c.maxConsumersPerChannel)
  /\ WorkersFit(c.publishers, PublishCapable(c), c.pubChannelsDist, c.maxPublishersPerChannel)

ConsumersOf(c) ==
  PlaceWorkers(c, c.consumers, ConsumeCapable(c), c.channelsDist, c.maxConsumersPerChannel)
PublishersOf(c) ==
  PlaceWorkers(c, c.publishers, PublishCapable(c), c.pubChannelsDist, c.maxPublishersPerChannel)

PlanOf(c) ==
  [conn |-> [g \in Channels(c) |-> ConnOf(c, g)],
   role |-> [g \in Channels(c) |-> Role(c, g)],
   cons |-> ConsumersOf(c), pubs |-> PublishersOf(c)]

LEMMA BuildIs ==
  ASSUME NEW c
  PROVE  /\ Build(c) = IF Fits(c) THEN PlanOf(c) ELSE Rejected
         /\ PlanOf(c) # Rejected
  <1>1. Build(c) = IF Fits(c) THEN PlanOf(c) ELSE Rejected
    BY DEF Build, Fits, PlanOf, ConsumersOf, PublishersOf
  <1>2. PlanOf(c) # Rejected
    <2>1. DOMAIN PlanOf(c) = {"conn", "role", "cons", "pubs"} /\ DOMAIN Rejected = {"error"}
      BY DEF PlanOf, Rejected
    <2>2. "conn" # "error"
      OBVIOUS
    <2> QED BY <2>1, <2>2
  <1> QED BY <1>1, <1>2

LEMMA Scalars ==
  ASSUME NEW c \in Config, ValidScalars(c)
  PROVE  /\ c.conns \in Nat \ {0} /\ c.channels \in Nat \ {0}
         /\ c.pubConns \in Nat /\ c.consConns \in Nat
         /\ c.pubChannels \in Nat /\ c.consChannels \in Nat
         /\ c.publishers \in Nat /\ c.consumers \in Nat
         /\ c.maxChannelsPerConn \in Int /\ c.maxConsumersPerChannel \in Int
         /\ c.maxPublishersPerChannel \in Int
         /\ c.connsDist \in Dists /\ c.channelsDist \in Dists /\ c.pubChannelsDist \in Dists
  <1>1. /\ c.conns \in Int /\ c.pubConns \in Int /\ c.consConns \in Int /\ c.channels \in Int
        /\ c.pubChannels \in Int /\ c.consChannels \in Int
        /\ c.publishers \in Int /\ c.consumers \in Int
        /\ c.maxChannelsPerConn \in Int /\ c.maxConsumersPerChannel \in Int
        /\ c.maxPublishersPerChannel \in Int
        /\ c.connsDist \in Dists /\ c.channelsDist \in Dists /\ c.pubChannelsDist \in Dists
    BY DEF Config
  <1>2. /\ c.conns >= 1 /\ c.channels >= 1 /\ c.pubConns >= 0 /\ c.consConns >= 0
        /\ c.pubChannels >= 0 /\ c.consChannels >= 0
        /\ c.publishers >= 0 /\ c.consumers >= 0
    BY DEF ValidScalars
  <1> QED BY <1>1, <1>2, SMT

LEMMA ChannelSets ==
  ASSUME NEW c \in Config, ValidScalars(c)
  PROVE  /\ Channels(c) \subseteq Nat /\ Channels(c) \subseteq Int
         /\ \A S \in SUBSET Channels(c) :
              S \in SUBSET Int /\ IsFiniteSet(S) /\ Cardinality(S) \in Nat
  <1>1. c.channels \in Nat
    BY Scalars
  <1>2. Channels(c) \subseteq Nat /\ Channels(c) \subseteq Int
    BY <1>1, SMT DEF Channels
  <1>3. IsFiniteSet(Channels(c))
    BY <1>1, SizeOf DEF Channels
  <1> QED BY <1>2, <1>3, FS_Subset, FS_CardinalityType

\* Channels are spread over the connections there are.
LEMMA ConnOfIs ==
  ASSUME NEW c \in Config, ValidScalars(c), ChannelsFit(c), NEW g \in Channels(c)
  PROVE  /\ ConnOf(c, g) = Spread(g, c.conns, c.connsDist, c.maxChannelsPerConn)
         /\ ConnOf(c, g) \in 0..(c.conns - 1) /\ ConnOf(c, g) \in Nat
  <1> DEFINE k == c.conns
             mode == c.connsDist
             capN == c.maxChannelsPerConn
             total == c.channels
  <1>1. k \in Nat \ {0} /\ mode \in Dists /\ capN \in Int /\ total \in Nat
    BY Scalars
  <1>2. ConnOf(c, g) = Spread(g, k, mode, capN)
    BY DEF ConnOf, Spread
  <1>3. mode = "uneven" /\ capN > 0 => total <= k * capN
    BY DEF ChannelsFit
  <1>4. g \in 0..(total - 1)
    BY DEF Channels
  <1> HIDE DEF k, mode, capN, total
  <1>5. g \in Nat /\ (mode = "uneven" /\ capN > 0 => g < k * capN)
    <2>1. k * capN \in Int
      BY <1>1, SMT
    <2> QED BY <1>1, <1>3, <1>4, <2>1, SMT
  <1>6. Spread(g, k, mode, capN) \in 0..(k - 1)
    BY <1>1, <1>5, SpreadRange
  <1>7. ConnOf(c, g) \in Nat
    BY <1>1, <1>2, <1>6, SMT
  <1> QED BY <1>2, <1>6, <1>7 DEF k, mode, capN

LEMMA ConnRoles ==
  ASSUME NEW c \in Config, ValidScalars(c), NEW n \in Nat
  PROVE  /\ ConnRole(c, n) = "pub" <=> n < c.pubConns
         /\ ConnRole(c, n) = "cons" <=> n \in c.pubConns..(c.pubConns + c.consConns - 1)
         /\ ConnRole(c, n) = "mixed" <=> n >= c.pubConns + c.consConns
  <1>1. c.pubConns \in Nat /\ c.consConns \in Nat
    BY Scalars
  <1> QED BY <1>1, SMT DEF ConnRole

\* A channel that can consume is on no publish-only connection, and the other
\* way round.
LEMMA CapableConns ==
  ASSUME NEW c \in Config, ValidScalars(c), ChannelsFit(c)
  PROVE  /\ \A g \in ConsumeCapable(c) : ConnOf(c, g) >= c.pubConns
         /\ \A g \in PublishCapable(c) :
              ConnOf(c, g) \notin c.pubConns..(c.pubConns + c.consConns - 1)
         /\ \A g \in Mixed(c) : ConnOf(c, g) >= c.pubConns + c.consConns
         /\ \A g \in Channels(c) : ConnOf(c, g) >= c.pubConns + c.consConns => g \in Mixed(c)
  <1>1. c.pubConns \in Nat /\ c.consConns \in Nat
    BY Scalars
  <1>2. \A g \in Channels(c) : ConnOf(c, g) \in Nat
    BY ConnOfIs
  <1>3. \A g \in Channels(c) :
          /\ ConnRole(c, ConnOf(c, g)) = "pub" => Role(c, g) = "publish"
          /\ ConnRole(c, ConnOf(c, g)) = "cons" => Role(c, g) = "consume"
    BY DEF Role
  <1>4. \A g \in ConsumeCapable(c) : ConnOf(c, g) >= c.pubConns
    <2> SUFFICES ASSUME NEW g \in ConsumeCapable(c) PROVE ConnOf(c, g) >= c.pubConns
      OBVIOUS
    <2>1. g \in Channels(c) /\ Role(c, g) # "publish"
      BY DEF ConsumeCapable
    <2>2. ~(ConnOf(c, g) < c.pubConns)
      BY <1>2, <1>3, <2>1, ConnRoles
    <2> QED BY <1>1, <1>2, <2>1, <2>2, SMT
  <1>5. \A g \in PublishCapable(c) :
          ConnOf(c, g) \notin c.pubConns..(c.pubConns + c.consConns - 1)
    <2> SUFFICES ASSUME NEW g \in PublishCapable(c)
                 PROVE  ConnOf(c, g) \notin c.pubConns..(c.pubConns + c.consConns - 1)
      OBVIOUS
    <2>1. g \in Channels(c) /\ Role(c, g) # "consume"
      BY DEF PublishCapable
    <2> QED BY <1>2, <1>3, <2>1, ConnRoles
  <1>6. \A g \in Channels(c) : g \in Mixed(c) <=> ConnOf(c, g) >= c.pubConns + c.consConns
    BY <1>2, ConnRoles DEF Mixed
  <1>7. Mixed(c) \subseteq Channels(c)
    BY DEF Mixed
  <1> QED BY <1>4, <1>5, <1>6, <1>7

\* What an accepted plan is made of.
LEMMA PlanParts ==
  ASSUME Fits(config), plan = PlanOf(config)
  PROVE  /\ DOMAIN plan.conn = Channels(config) /\ DOMAIN plan.role = Channels(config)
         /\ \A g \in Channels(config) :
              plan.conn[g] = ConnOf(config, g) /\ plan.role[g] = Role(config, g)
         /\ plan.cons = ConsumersOf(config) /\ plan.pubs = PublishersOf(config)
         /\ Capable({"consume", "both"}) = ConsumeCapable(config)
         /\ Capable({"publish", "both"}) = PublishCapable(config)
  <1>1. /\ plan.conn = [g \in Channels(config) |-> ConnOf(config, g)]
        /\ plan.role = [g \in Channels(config) |-> Role(config, g)]
        /\ plan.cons = ConsumersOf(config) /\ plan.pubs = PublishersOf(config)
    BY DEF PlanOf
  <1>2. /\ DOMAIN plan.conn = Channels(config) /\ DOMAIN plan.role = Channels(config)
        /\ \A g \in Channels(config) :
             plan.conn[g] = ConnOf(config, g) /\ plan.role[g] = Role(config, g)
    BY <1>1
  <1> QED BY <1>1, <1>2 DEF Capable, ConsumeCapable, PublishCapable

LEMMA PlanWorkers ==
  ASSUME config \in Config, Fits(config), plan = PlanOf(config)
  PROVE  LET load(workers) == [g \in DOMAIN workers |-> Cardinality(workers[g])]
         IN  /\ PlacedOnce(plan.cons, config.consumers, {"consume", "both"})
             /\ PlacedOnce(plan.pubs, config.publishers, {"publish", "both"})
             /\ Shaped(load(plan.cons), Capable({"consume", "both"}),
                       config.channelsDist, config.maxConsumersPerChannel)
             /\ Shaped(load(plan.pubs), Capable({"publish", "both"}),
                       config.pubChannelsDist, config.maxPublishersPerChannel)
  <1>1. ValidScalars(config)
    BY DEF Fits
  <1>2. /\ config.consumers \in Nat /\ config.publishers \in Nat
        /\ config.channelsDist \in Dists /\ config.pubChannelsDist \in Dists
        /\ config.maxConsumersPerChannel \in Int /\ config.maxPublishersPerChannel \in Int
    BY <1>1, Scalars
  <1>3. ConsumeCapable(config) \in SUBSET Channels(config)
        /\ PublishCapable(config) \in SUBSET Channels(config)
    BY DEF ConsumeCapable, PublishCapable
  <1>4. /\ Channels(config) \subseteq Int
        /\ IsFiniteSet(ConsumeCapable(config)) /\ IsFiniteSet(PublishCapable(config))
    BY <1>1, <1>3, ChannelSets
  <1>5. LET w == ConsumersOf(config)
        IN  /\ \A j \in 0..(config.consumers - 1) : Cardinality({g \in DOMAIN w : j \in w[g]}) = 1
            /\ \A g \in DOMAIN w \ ConsumeCapable(config) : w[g] = {}
            /\ \A g \in DOMAIN w : w[g] \subseteq 0..(config.consumers - 1)
            /\ Shaped([g \in DOMAIN w |-> Cardinality(w[g])], ConsumeCapable(config),
                      config.channelsDist, config.maxConsumersPerChannel)
    <2>1. WorkersFit(config.consumers, ConsumeCapable(config), config.channelsDist,
                     config.maxConsumersPerChannel)
      BY DEF Fits
    <2> DEFINE count == config.consumers
               slots == ConsumeCapable(config)
               mode == config.channelsDist
               capN == config.maxConsumersPerChannel
    <2>2. /\ count \in Nat /\ mode \in Dists /\ capN \in Int
          /\ slots \in SUBSET Channels(config) /\ IsFiniteSet(slots)
          /\ WorkersFit(count, slots, mode, capN)
      BY <1>2, <1>3, <1>4, <2>1
    <2>3. ConsumersOf(config) = PlaceWorkers(config, count, slots, mode, capN)
      BY DEF ConsumersOf
    <2> HIDE DEF count, slots, mode, capN
    <2>4. LET w == PlaceWorkers(config, count, slots, mode, capN)
          IN  /\ \A j \in 0..(count - 1) : Cardinality({g \in DOMAIN w : j \in w[g]}) = 1
              /\ \A g \in DOMAIN w \ slots : w[g] = {}
              /\ \A g \in DOMAIN w : w[g] \subseteq 0..(count - 1)
              /\ Shaped([g \in DOMAIN w |-> Cardinality(w[g])], slots, mode, capN)
      BY <1>4, <2>2, WorkersPlaced
    <2>5. LET w == ConsumersOf(config)
          IN  /\ \A j \in 0..(count - 1) : Cardinality({g \in DOMAIN w : j \in w[g]}) = 1
              /\ \A g \in DOMAIN w \ slots : w[g] = {}
              /\ \A g \in DOMAIN w : w[g] \subseteq 0..(count - 1)
              /\ Shaped([g \in DOMAIN w |-> Cardinality(w[g])], slots, mode, capN)
      BY <2>3, <2>4
    <2> QED BY <2>5 DEF count, slots, mode, capN
  <1>6. LET w == PublishersOf(config)
        IN  /\ \A j \in 0..(config.publishers - 1) : Cardinality({g \in DOMAIN w : j \in w[g]}) = 1
            /\ \A g \in DOMAIN w \ PublishCapable(config) : w[g] = {}
            /\ \A g \in DOMAIN w : w[g] \subseteq 0..(config.publishers - 1)
            /\ Shaped([g \in DOMAIN w |-> Cardinality(w[g])], PublishCapable(config),
                      config.pubChannelsDist, config.maxPublishersPerChannel)
    <2>1. WorkersFit(config.publishers, PublishCapable(config), config.pubChannelsDist,
                     config.maxPublishersPerChannel)
      BY DEF Fits
    <2> DEFINE count == config.publishers
               slots == PublishCapable(config)
               mode == config.pubChannelsDist
               capN == config.maxPublishersPerChannel
    <2>2. /\ count \in Nat /\ mode \in Dists /\ capN \in Int
          /\ slots \in SUBSET Channels(config) /\ IsFiniteSet(slots)
          /\ WorkersFit(count, slots, mode, capN)
      BY <1>2, <1>3, <1>4, <2>1
    <2>3. PublishersOf(config) = PlaceWorkers(config, count, slots, mode, capN)
      BY DEF PublishersOf
    <2> HIDE DEF count, slots, mode, capN
    <2>4. LET w == PlaceWorkers(config, count, slots, mode, capN)
          IN  /\ \A j \in 0..(count - 1) : Cardinality({g \in DOMAIN w : j \in w[g]}) = 1
              /\ \A g \in DOMAIN w \ slots : w[g] = {}
              /\ \A g \in DOMAIN w : w[g] \subseteq 0..(count - 1)
              /\ Shaped([g \in DOMAIN w |-> Cardinality(w[g])], slots, mode, capN)
      BY <1>4, <2>2, WorkersPlaced
    <2>5. LET w == PublishersOf(config)
          IN  /\ \A j \in 0..(count - 1) : Cardinality({g \in DOMAIN w : j \in w[g]}) = 1
              /\ \A g \in DOMAIN w \ slots : w[g] = {}
              /\ \A g \in DOMAIN w : w[g] \subseteq 0..(count - 1)
              /\ Shaped([g \in DOMAIN w |-> Cardinality(w[g])], slots, mode, capN)
      BY <2>3, <2>4
    <2> QED BY <2>5 DEF count, slots, mode, capN
  <1>7. /\ plan.cons = ConsumersOf(config) /\ plan.pubs = PublishersOf(config)
        /\ Capable({"consume", "both"}) = ConsumeCapable(config)
        /\ Capable({"publish", "both"}) = PublishCapable(config)
    BY PlanParts
  <1> QED BY <1>5, <1>6, <1>7 DEF PlacedOnce

LEMMA PlanPlaced ==
  ASSUME config \in Config, Fits(config), plan = PlanOf(config)
  PROVE  PlacementSound
  <1>1. /\ PlacedOnce(plan.cons, config.consumers, {"consume", "both"})
        /\ PlacedOnce(plan.pubs, config.publishers, {"publish", "both"})
    BY PlanWorkers
  <1>2. /\ \A g \in ConsumeCapable(config) : ConnOf(config, g) >= config.pubConns
        /\ \A g \in PublishCapable(config) : ConnOf(config, g) \notin
             config.pubConns..(config.pubConns + config.consConns - 1)
    BY CapableConns DEF Fits
  <1>3. /\ DOMAIN plan.conn = Channels(config)
        /\ \A g \in Channels(config) : plan.conn[g] = ConnOf(config, g)
        /\ plan.cons = ConsumersOf(config) /\ plan.pubs = PublishersOf(config)
        /\ Capable({"consume", "both"}) = ConsumeCapable(config)
        /\ Capable({"publish", "both"}) = PublishCapable(config)
    BY PlanParts
  <1>4. DOMAIN plan.cons = Channels(config) /\ DOMAIN plan.pubs = Channels(config)
    BY <1>3 DEF ConsumersOf, PublishersOf, PlaceWorkers
  <1>5. /\ \A g \in Channels(config) : plan.cons[g] # {} => g \in ConsumeCapable(config)
        /\ \A g \in Channels(config) : plan.pubs[g] # {} => g \in PublishCapable(config)
    BY <1>1, <1>3, <1>4 DEF PlacedOnce
  <1>6. \A g \in DOMAIN plan.conn :
          /\ plan.cons[g] # {} => plan.conn[g] >= config.pubConns
          /\ plan.pubs[g] # {} => plan.conn[g] \notin
               config.pubConns..(config.pubConns + config.consConns - 1)
    BY <1>2, <1>3, <1>5
  <1> QED BY <1>1, <1>6 DEF PlacementSound

LEMMA PlanShaped ==
  ASSUME config \in Config, Fits(config), plan = PlanOf(config)
  PROVE  LoadsShaped
  <1> DEFINE conns == 0..(config.conns - 1)
             k == config.conns
             mode == config.connsDist
             capN == config.maxChannelsPerConn
             onConn == [n \in conns |-> Cardinality({g \in DOMAIN plan.conn : plan.conn[g] = n})]
             pos == [n \in conns |-> n]
  <1>1. ValidScalars(config) /\ ChannelsFit(config)
    BY DEF Fits
  <1>2. k \in Nat \ {0} /\ mode \in Dists /\ capN \in Int /\ config.channels \in Nat
    BY <1>1, Scalars
  <1>3. /\ DOMAIN plan.conn = Channels(config)
        /\ \A g \in Channels(config) : plan.conn[g] = ConnOf(config, g)
    BY PlanParts
  <1>4. \A g \in Channels(config) :
          ConnOf(config, g) = Spread(g, k, mode, capN) /\ ConnOf(config, g) \in conns
    BY <1>1, ConnOfIs
  <1>5. \A n \in conns : onConn[n] = Cardinality(Landing(n, config.channels, k, mode, capN))
    <2>1. \A n \in conns : {g \in DOMAIN plan.conn : plan.conn[g] = n}
                             = Landing(n, config.channels, k, mode, capN)
      BY <1>3, <1>4 DEF Landing, Channels
    <2> QED BY <2>1
  <1>6. Carries(onConn, conns, pos, config.channels, k, mode, capN)
    BY <1>5 DEF Carries
  <1>7. conns \in SUBSET Int
    BY <1>2, SMT
  <1>8. Shaped(onConn, conns, mode, capN)
    <2> HIDE DEF onConn, conns, pos, k, mode, capN
    <2> QED BY <1>2, <1>6, <1>7, SpreadShaped
  <1>9. \A g \in DOMAIN plan.conn : plan.conn[g] \in conns
    BY <1>3, <1>4
  <1> QED BY <1>8, <1>9, PlanWorkers DEF LoadsShaped

\* The roles on the mixed connections go by position.
LEMMA MixedRoles ==
  ASSUME NEW c \in Config, ValidScalars(c), NEW g \in Mixed(c)
  PROVE  LET i == Position(Mixed(c), g)
         IN  /\ i \in 0..(Cardinality(Mixed(c)) - 1) /\ i \in Nat
             /\ Role(c, g) = "publish" <=> i < c.pubChannels
             /\ Role(c, g) = "consume" <=> c.pubChannels <= i /\ i < c.pubChannels + c.consChannels
             /\ Role(c, g) = "both" <=> c.pubChannels + c.consChannels <= i
  <1> DEFINE i == Position(Mixed(c), g)
  <1>1. c.pubChannels \in Nat /\ c.consChannels \in Nat
    BY Scalars
  <1>2. Mixed(c) \in SUBSET Channels(c)
    BY DEF Mixed
  <1>3. Mixed(c) \in SUBSET Int /\ IsFiniteSet(Mixed(c)) /\ Cardinality(Mixed(c)) \in Nat
    BY <1>2, ChannelSets
  <1>4. i \in 0..(Cardinality(Mixed(c)) - 1)
    BY <1>3, PositionRange
  <1>5. i \in Nat
    BY <1>3, <1>4, SMT
  <1>6. ConnRole(c, ConnOf(c, g)) = "mixed"
    BY DEF Mixed
  <1>7. Role(c, g) = CASE i < c.pubChannels -> "publish"
                       [] c.pubChannels <= i /\ i < c.pubChannels + c.consChannels -> "consume"
                       [] OTHER -> "both"
    BY <1>6, SMT DEF Role
  <1> HIDE DEF i
  <1>8. /\ Role(c, g) = "publish" <=> i < c.pubChannels
        /\ Role(c, g) = "consume" <=> c.pubChannels <= i /\ i < c.pubChannels + c.consChannels
        /\ Role(c, g) = "both" <=> c.pubChannels + c.consChannels <= i
    BY <1>1, <1>5, <1>7, SMT
  <1> QED BY <1>4, <1>5, <1>8 DEF i

LEMMA PlanCarved ==
  ASSUME config \in Config, Fits(config), plan = PlanOf(config)
  PROVE  CarvingExact
  <1> DEFINE M == Mixed(config)
             p == config.pubChannels
             s == config.consChannels
             pos(g) == Position(M, g)
  <1>1. ValidScalars(config) /\ ChannelsFit(config) /\ p + s <= Cardinality(M)
    BY DEF Fits, CarvingFits
  <1>2. p \in Nat /\ s \in Nat
    BY <1>1, Scalars
  <1>3. M \in SUBSET Channels(config)
    BY DEF Mixed
  <1>4. M \in SUBSET Int /\ IsFiniteSet(M) /\ Cardinality(M) \in Nat
    BY <1>1, <1>3, ChannelSets
  <1>5. /\ DOMAIN plan.conn = Channels(config)
        /\ \A g \in Channels(config) :
             plan.conn[g] = ConnOf(config, g) /\ plan.role[g] = Role(config, g)
    BY PlanParts
  <1>6. {g \in DOMAIN plan.conn : plan.conn[g] >= config.pubConns + config.consConns} = M
    BY <1>1, <1>3, <1>5, CapableConns
  <1>7. \A g \in M : /\ pos(g) \in Nat
                     /\ plan.role[g] = "publish" <=> pos(g) < p
                     /\ plan.role[g] = "consume" <=> p <= pos(g) /\ pos(g) < p + s
                     /\ plan.role[g] = "both" <=> p + s <= pos(g)
    BY <1>1, <1>3, <1>5, MixedRoles
  <1> HIDE DEF M, p, s
  <1>8. Cardinality({g \in M : plan.role[g] = "publish"}) = p
    <2>1. {g \in M : plan.role[g] = "publish"} = {g \in M : 0 <= pos(g) /\ pos(g) < p}
      BY <1>7, SMT
    <2>2. 0 \in Nat /\ 0 <= p /\ p <= Cardinality(M) /\ p - 0 = p
      BY <1>1, <1>2, <1>4, SMT
    <2>3. Cardinality({g \in M : 0 <= pos(g) /\ pos(g) < p}) = p - 0
      BY <1>2, <1>4, <2>2, PositionCount
    <2> QED BY <2>1, <2>2, <2>3
  <1>9. Cardinality({g \in M : plan.role[g] = "consume"}) = s
    <2>1. {g \in M : plan.role[g] = "consume"} = {g \in M : p <= pos(g) /\ pos(g) < p + s}
      BY <1>7
    <2>2. p + s \in Nat /\ p <= p + s /\ (p + s) - p = s
      BY <1>2, SMT
    <2>3. Cardinality({g \in M : p <= pos(g) /\ pos(g) < p + s}) = (p + s) - p
      BY <1>1, <1>2, <1>4, <2>2, PositionCount
    <2> QED BY <2>1, <2>2, <2>3
  <1>10. ASSUME NEW g \in M, NEW h \in M, g < h
         PROVE  \/ plan.role[g] = plan.role[h]
                \/ plan.role[g] = "publish"
                \/ plan.role[h] = "both"
    <2>1. pos(g) < pos(h)
      BY <1>4, <1>10, PositionGrows
    <2>2. pos(g) \in Nat /\ pos(h) \in Nat
      BY <1>7
    <2>3. pos(g) < p \/ p + s <= pos(h)
           \/ (p <= pos(g) /\ pos(g) < p + s /\ p <= pos(h) /\ pos(h) < p + s)
      BY <1>2, <2>1, <2>2, SMT
    <2> QED BY <1>7, <2>3
  <1> QED BY <1>6, <1>8, <1>9, <1>10 DEF CarvingExact, p, s

\* An error of Build on a configuration that passes the earlier checks.
LEMMA RefusedHasNoRoom ==
  ASSUME config \in Config, plan = Build(config)
  PROVE  RejectsOnlyInfeasible
  <1> SUFFICES ASSUME plan = Rejected, ValidScalars(config), ChannelsFit(config),
                      CarvingFits(config)
               PROVE  \/ ~Placeable(config.consumers, ConsumeCapable(config),
                                    config.channelsDist, config.maxConsumersPerChannel)
                      \/ ~Placeable(config.publishers, PublishCapable(config),
                                    config.pubChannelsDist, config.maxPublishersPerChannel)
    BY DEF RejectsOnlyInfeasible
  <1>1. ~Fits(config)
    BY BuildIs
  <1>2. /\ config.consumers \in Nat /\ config.publishers \in Nat
        /\ config.maxConsumersPerChannel \in Int /\ config.maxPublishersPerChannel \in Int
    BY Scalars
  <1>3. IsFiniteSet(ConsumeCapable(config)) /\ IsFiniteSet(PublishCapable(config))
    <2>1. ConsumeCapable(config) \in SUBSET Channels(config)
          /\ PublishCapable(config) \in SUBSET Channels(config)
      BY DEF ConsumeCapable, PublishCapable
    <2> QED BY <2>1, ChannelSets
  <1> QED BY <1>1, <1>2, <1>3, NoRoom DEF Fits

-----------------------------------------------------------------------------
(* Caps that do not matter.                                                *)

\* c and d differ at most in the caps of axes spread evenly.
Alike(c, d) ==
  /\ d.conns = c.conns /\ d.pubConns = c.pubConns /\ d.consConns = c.consConns
  /\ d.channels = c.channels /\ d.pubChannels = c.pubChannels
  /\ d.consChannels = c.consChannels
  /\ d.publishers = c.publishers /\ d.consumers = c.consumers
  /\ d.connsDist = c.connsDist /\ d.channelsDist = c.channelsDist
  /\ d.pubChannelsDist = c.pubChannelsDist
  /\ c.connsDist = "even" \/ d.maxChannelsPerConn = c.maxChannelsPerConn
  /\ c.channelsDist = "even" \/ d.maxConsumersPerChannel = c.maxConsumersPerChannel
  /\ c.pubChannelsDist = "even" \/ d.maxPublishersPerChannel = c.maxPublishersPerChannel

LEMMA EvenIgnoresCap ==
  ASSUME NEW c, NEW d, Channels(d) = Channels(c), NEW count, NEW slots, NEW mode,
         NEW x, NEW y, mode = "even" \/ x = y
  PROVE  /\ PlaceWorkers(d, count, slots, mode, x) = PlaceWorkers(c, count, slots, mode, y)
         /\ WorkersFit(count, slots, mode, x) <=> WorkersFit(count, slots, mode, y)
  <1>1. CASE x = y
    BY <1>1 DEF PlaceWorkers
  <1>2. CASE mode = "even"
    <2>1. \A j : Slot(j, Cardinality(slots), mode, x) = Slot(j, Cardinality(slots), mode, y)
      BY <1>2 DEF Slot
    <2>2. mode # "uneven"
      BY <1>2
    <2> QED BY <2>1, <2>2 DEF PlaceWorkers, WorkersFit
  <1> QED BY <1>1, <1>2

LEMMA AlikeConns ==
  ASSUME NEW c, NEW d, Alike(c, d)
  PROVE  /\ Channels(d) = Channels(c) /\ Mixed(d) = Mixed(c)
         /\ \A g : ConnOf(d, g) = ConnOf(c, g) /\ Role(d, g) = Role(c, g)
         /\ ConsumeCapable(d) = ConsumeCapable(c) /\ PublishCapable(d) = PublishCapable(c)
  <1>1. /\ d.conns = c.conns /\ d.pubConns = c.pubConns /\ d.consConns = c.consConns
        /\ d.channels = c.channels /\ d.pubChannels = c.pubChannels
        /\ d.consChannels = c.consChannels /\ d.connsDist = c.connsDist
        /\ c.connsDist = "even" \/ d.maxChannelsPerConn = c.maxChannelsPerConn
    BY DEF Alike
  <1>2. Channels(d) = Channels(c)
    BY <1>1 DEF Channels
  <1>3. ASSUME NEW g PROVE ConnOf(d, g) = ConnOf(c, g)
    <2>1. CASE c.connsDist = "even"
      BY <1>1, <2>1 DEF ConnOf
    <2>2. CASE d.maxChannelsPerConn = c.maxChannelsPerConn
      BY <1>1, <2>2 DEF ConnOf
    <2> QED BY <1>1, <2>1, <2>2
  <1>4. ASSUME NEW n PROVE ConnRole(d, n) = ConnRole(c, n)
    BY <1>1 DEF ConnRole
  <1>5. Mixed(d) = Mixed(c)
    BY <1>2, <1>3, <1>4, SMT DEF Mixed
  <1>6. ASSUME NEW g PROVE Role(d, g) = Role(c, g)
    <2>1. ConnRole(d, ConnOf(d, g)) = ConnRole(c, ConnOf(c, g))
          /\ Position(Mixed(d), g) = Position(Mixed(c), g)
      BY <1>3, <1>4, <1>5
    <2> QED BY <1>1, <2>1 DEF Role
  <1>7. ConsumeCapable(d) = ConsumeCapable(c) /\ PublishCapable(d) = PublishCapable(c)
    BY <1>2, <1>6 DEF ConsumeCapable, PublishCapable
  <1> QED BY <1>2, <1>3, <1>5, <1>6, <1>7

LEMMA AlikePlans ==
  ASSUME NEW c, NEW d, Alike(c, d)
  PROVE  Build(d) = Build(c)
  <1>1. /\ Channels(d) = Channels(c) /\ Mixed(d) = Mixed(c)
        /\ \A g : ConnOf(d, g) = ConnOf(c, g) /\ Role(d, g) = Role(c, g)
        /\ ConsumeCapable(d) = ConsumeCapable(c) /\ PublishCapable(d) = PublishCapable(c)
    BY AlikeConns
  <1>2. /\ d.conns = c.conns /\ d.pubConns = c.pubConns /\ d.consConns = c.consConns
        /\ d.channels = c.channels /\ d.pubChannels = c.pubChannels
        /\ d.consChannels = c.consChannels
        /\ d.publishers = c.publishers /\ d.consumers = c.consumers
        /\ d.connsDist = c.connsDist
    BY DEF Alike
  <1>3. ValidScalars(d) <=> ValidScalars(c)
    BY <1>2 DEF ValidScalars
  <1>4. ChannelsFit(d) <=> ChannelsFit(c)
    <2>1. CASE c.connsDist = "even"
      <3>1. c.connsDist # "uneven"
        BY <2>1
      <3> QED BY <1>2, <3>1 DEF ChannelsFit
    <2>2. CASE d.maxChannelsPerConn = c.maxChannelsPerConn
      BY <1>2, <2>2 DEF ChannelsFit
    <2> QED BY <2>1, <2>2 DEF Alike
  <1>5. CarvingFits(d) <=> CarvingFits(c)
    BY <1>1, <1>2 DEF CarvingFits
  <1>6. /\ ConsumersOf(d) = ConsumersOf(c)
        /\ WorkersFit(d.consumers, ConsumeCapable(d), d.channelsDist, d.maxConsumersPerChannel)
           <=> WorkersFit(c.consumers, ConsumeCapable(c), c.channelsDist, c.maxConsumersPerChannel)
    <2>1. /\ d.channelsDist = c.channelsDist
          /\ c.channelsDist = "even" \/ d.maxConsumersPerChannel = c.maxConsumersPerChannel
      BY DEF Alike
    <2> DEFINE count == c.consumers
               slots == ConsumeCapable(c)
               mode == c.channelsDist
               x == d.maxConsumersPerChannel
               y == c.maxConsumersPerChannel
    <2>2. /\ ConsumersOf(d) = PlaceWorkers(d, count, slots, mode, x)
          /\ ConsumersOf(c) = PlaceWorkers(c, count, slots, mode, y)
      BY <1>1, <1>2, <2>1 DEF ConsumersOf
    <2>3. mode = "even" \/ x = y
      BY <2>1
    <2> HIDE DEF count, slots, mode, x, y
    <2>4. /\ PlaceWorkers(d, count, slots, mode, x) = PlaceWorkers(c, count, slots, mode, y)
          /\ WorkersFit(count, slots, mode, x) <=> WorkersFit(count, slots, mode, y)
      BY <1>1, <2>3, EvenIgnoresCap, SMT
    <2>5. WorkersFit(d.consumers, ConsumeCapable(d), d.channelsDist, x)
           <=> WorkersFit(count, slots, mode, x)
      BY <1>1, <1>2, <2>1 DEF count, slots, mode
    <2> QED BY <2>2, <2>4, <2>5 DEF count, slots, mode, x, y
  <1>7. /\ PublishersOf(d) = PublishersOf(c)
        /\ WorkersFit(d.publishers, PublishCapable(d), d.pubChannelsDist, d.maxPublishersPerChannel)
           <=> WorkersFit(c.publishers, PublishCapable(c), c.pubChannelsDist, c.maxPublishersPerChannel)
    <2>1. /\ d.pubChannelsDist = c.pubChannelsDist
          /\ c.pubChannelsDist = "even" \/ d.maxPublishersPerChannel = c.maxPublishersPerChannel
      BY DEF Alike
    <2> DEFINE count == c.publishers
               slots == PublishCapable(c)
               mode == c.pubChannelsDist
               x == d.maxPublishersPerChannel
               y == c.maxPublishersPerChannel
    <2>2. /\ PublishersOf(d) = PlaceWorkers(d, count, slots, mode, x)
          /\ PublishersOf(c) = PlaceWorkers(c, count, slots, mode, y)
      BY <1>1, <1>2, <2>1 DEF PublishersOf
    <2>3. mode = "even" \/ x = y
      BY <2>1
    <2> HIDE DEF count, slots, mode, x, y
    <2>4. /\ PlaceWorkers(d, count, slots, mode, x) = PlaceWorkers(c, count, slots, mode, y)
          /\ WorkersFit(count, slots, mode, x) <=> WorkersFit(count, slots, mode, y)
      BY <1>1, <2>3, EvenIgnoresCap, SMT
    <2>5. WorkersFit(d.publishers, PublishCapable(d), d.pubChannelsDist, x)
           <=> WorkersFit(count, slots, mode, x)
      BY <1>1, <1>2, <2>1 DEF count, slots, mode
    <2> QED BY <2>2, <2>4, <2>5 DEF count, slots, mode, x, y
  <1>8. Fits(d) <=> Fits(c)
    BY <1>3, <1>4, <1>5, <1>6, <1>7 DEF Fits
  <1>9. PlanOf(d) = PlanOf(c)
    BY <1>1, <1>6, <1>7 DEF PlanOf
  <1> QED BY <1>8, <1>9, BuildIs

LEMMA IgnoredIsAlike ==
  ASSUME NEW c \in Config, NEW x \in IgnoredCaps(c)
  PROVE  Alike(c, [c EXCEPT ![x] = 0])
  <1>1. /\ x = "maxChannelsPerConn" => c.connsDist # "uneven"
        /\ x = "maxConsumersPerChannel" => c.channelsDist # "uneven"
        /\ x = "maxPublishersPerChannel" => c.pubChannelsDist # "uneven"
        /\ x \in {"maxChannelsPerConn", "maxConsumersPerChannel", "maxPublishersPerChannel"}
    BY DEF IgnoredCaps
  <1>2. c.connsDist \in Dists /\ c.channelsDist \in Dists /\ c.pubChannelsDist \in Dists
    BY DEF Config
  <1>3. /\ x = "maxChannelsPerConn" => c.connsDist = "even"
        /\ x = "maxConsumersPerChannel" => c.channelsDist = "even"
        /\ x = "maxPublishersPerChannel" => c.pubChannelsDist = "even"
    BY <1>1, <1>2 DEF Dists
  <1> QED BY <1>1, <1>3 DEF Alike, Config

-----------------------------------------------------------------------------
(* The command line, flag by flag.                                         *)

\* AxisBefore, Distributions and the sets of FlagsBind, for the first n flags
\* of a line l.
AxisIn(l, i) == Max({0} \union {j \in 1..(i - 1) : l[j].name \in Axes})
DistsIn(l) == {i \in DOMAIN l : l[i].name = "distribution"}
BoundTo(l, a, n) == {i \in DistsIn(l) : i <= n /\ AxisIn(l, i) # 0 /\ l[AxisIn(l, i)].name = a}
GivenTo(l, f, n) == {i \in DOMAIN l : i <= n /\ l[i].name = f}

\* The -distribution values read so far were good, the cursor is on the last
\* axis, ...
Followed(l, n, x) ==
  /\ \A i \in DistsIn(l) : i <= n => AxisIn(l, i) # 0 /\ l[i].value \in DOMAIN Spellings
  /\ \/ AxisIn(l, n + 1) = 0 /\ x = ""
     \/ AxisIn(l, n + 1) # 0 /\ x = l[AxisIn(l, n + 1)].name /\ x \in Axes

\* ... and the configuration says what they said.
Applied(l, n, c) ==
  /\ \A a \in Axes : c[DistOf[a]] =
       IF BoundTo(l, a, n) = {} THEN "even" ELSE Spellings[l[Max(BoundTo(l, a, n))].value]
  /\ \A f \in DOMAIN c : GivenTo(l, f, n) # {} => c[f] = l[Max(GivenTo(l, f, n))].value

Typed ==
  /\ config \in Config /\ line \in Seq(Flags) /\ at \in 0..Len(line)
  /\ last \in Axes \union {""}

\* A plan comes after the whole line, an error at the flag that caused it.
Halted ==
  plan # <<>> =>
    \/ at = Len(line) /\ plan = Build(config)
    \/ /\ at < Len(line) /\ Flag.name = "distribution"
       /\ Flag.value \notin DOMAIN Spellings \/ last \notin Axes
       /\ plan = Rejected

TopologyInv ==
  /\ Typed /\ Halted
  /\ line # <<>> => Followed(line, at, last) /\ Applied(line, at, config)

LEMMA MaxIs ==
  ASSUME NEW S \in SUBSET Int, NEW m \in S, \A y \in S : y <= m
  PROVE  Max(S) = m
  <1>1. \A y \in S : m >= y
    OBVIOUS
  <1>2. Max(S) \in S /\ \A y \in S : Max(S) >= y
    BY <1>1 DEF Max
  <1>3. Max(S) >= m /\ Max(S) <= m /\ Max(S) \in Int /\ m \in Int
    BY <1>2
  <1> QED BY <1>3, SMT

LEMMA AxisStep ==
  ASSUME NEW l, NEW i \in Nat \ {0}, NEW k \in Nat, k = i + 1
  PROVE  AxisIn(l, k) = IF l[i].name \in Axes THEN i ELSE AxisIn(l, i)
  <1> DEFINE A == {0} \union {j \in 1..(i - 1) : l[j].name \in Axes}
             B == {0} \union {j \in 1..(k - 1) : l[j].name \in Axes}
  <1>1. \A j : j \in 1..(k - 1) <=> j \in 1..(i - 1) \/ j = i
    BY SMT
  <1>2. AxisIn(l, i) = Max(A) /\ AxisIn(l, k) = Max(B)
    BY DEF AxisIn
  <1>3. B \in SUBSET Int /\ \A y \in B : y <= i
    BY SMT
  <1>4. CASE l[i].name \in Axes
    <2>1. i \in B
      BY <1>1, <1>4
    <2> HIDE DEF A, B
    <2>2. Max(B) = i
      BY <1>3, <2>1, MaxIs
    <2> QED BY <1>2, <1>4, <2>2
  <1>5. CASE l[i].name \notin Axes
    <2>1. B = A
      BY <1>1, <1>5
    <2> HIDE DEF A, B
    <2> QED BY <1>2, <1>5, <2>1
  <1> QED BY <1>4, <1>5

LEMMA NoAxisYet ==
  ASSUME NEW l
  PROVE  AxisIn(l, 1) = 0
  <1>1. {0} \union {j \in 1..(1 - 1) : l[j].name \in Axes} = {0}
    BY SMT
  <1>2. {0} \in SUBSET Int /\ 0 \in {0} /\ \A y \in {0} : y <= 0
    BY SMT
  <1>3. Max({0}) = 0
    BY <1>2, MaxIs
  <1>4. AxisIn(l, 1) = Max({0} \union {j \in 1..(1 - 1) : l[j].name \in Axes})
    BY DEF AxisIn
  <1> QED BY <1>1, <1>3, <1>4

\* A set of positions up to n + 1, from the one up to n.
LEMMA UpTo ==
  ASSUME NEW l \in Seq(Flags), NEW n \in Nat, n < Len(l), NEW S \in SUBSET DOMAIN l
  PROVE  LET T == {i \in S : i <= n}
             U == {i \in S : i <= n + 1}
         IN  IF n + 1 \in S THEN U # {} /\ Max(U) = n + 1 ELSE U = T
  <1> DEFINE T == {i \in S : i <= n}
             U == {i \in S : i <= n + 1}
  <1>1. DOMAIN l = 1..Len(l) /\ Len(l) \in Nat
    BY SMT
  <1>2. S \in SUBSET Int
    BY <1>1, SMT
  <1>3. \A i \in S : i <= n + 1 <=> i <= n \/ i = n + 1
    BY <1>2, SMT
  <1>4. CASE n + 1 \in S
    <2>1. n + 1 \in U /\ U \in SUBSET Int /\ \A y \in U : y <= n + 1
      BY <1>2, <1>4, SMT
    <2> HIDE DEF U
    <2>2. Max(U) = n + 1
      BY <2>1, MaxIs
    <2>3. n + 1 \in S /\ U # {} /\ Max(U) = n + 1
      BY <1>4, <2>1, <2>2
    <2> QED BY <2>3 DEF U
  <1>5. CASE n + 1 \notin S
    BY <1>3, <1>5
  <1> QED BY <1>4, <1>5

LEMMA GivenStep ==
  ASSUME NEW l \in Seq(Flags), NEW n \in Nat, n < Len(l), NEW f
  PROVE  IF l[n + 1].name = f
           THEN GivenTo(l, f, n + 1) # {} /\ Max(GivenTo(l, f, n + 1)) = n + 1
           ELSE GivenTo(l, f, n + 1) = GivenTo(l, f, n)
  <1> DEFINE S == {i \in DOMAIN l : l[i].name = f}
  <1>1. /\ GivenTo(l, f, n) = {i \in S : i <= n}
        /\ GivenTo(l, f, n + 1) = {i \in S : i <= n + 1}
    BY DEF GivenTo
  <1>2. n + 1 \in DOMAIN l
    BY SMT
  <1>3. n + 1 \in S <=> l[n + 1].name = f
    BY <1>2
  <1>4. S \in SUBSET DOMAIN l
    OBVIOUS
  <1> HIDE DEF S
  <1>5. LET T == {i \in S : i <= n}
            U == {i \in S : i <= n + 1}
        IN  IF n + 1 \in S THEN U # {} /\ Max(U) = n + 1 ELSE U = T
    BY <1>4, UpTo
  <1> QED BY <1>1, <1>3, <1>5

LEMMA BoundStep ==
  ASSUME NEW l \in Seq(Flags), NEW n \in Nat, n < Len(l), NEW a
  PROVE  IF /\ l[n + 1].name = "distribution" /\ AxisIn(l, n + 1) # 0
            /\ l[AxisIn(l, n + 1)].name = a
           THEN BoundTo(l, a, n + 1) # {} /\ Max(BoundTo(l, a, n + 1)) = n + 1
           ELSE BoundTo(l, a, n + 1) = BoundTo(l, a, n)
  <1> DEFINE S == {i \in DistsIn(l) : AxisIn(l, i) # 0 /\ l[AxisIn(l, i)].name = a}
  <1>1. /\ BoundTo(l, a, n) = {i \in S : i <= n}
        /\ BoundTo(l, a, n + 1) = {i \in S : i <= n + 1}
    BY DEF BoundTo
  <1>2. n + 1 \in DOMAIN l
    BY SMT
  <1>3. n + 1 \in S <=> /\ l[n + 1].name = "distribution" /\ AxisIn(l, n + 1) # 0
                        /\ l[AxisIn(l, n + 1)].name = a
    BY <1>2 DEF DistsIn
  <1>4. S \in SUBSET DOMAIN l
    BY DEF DistsIn
  <1> HIDE DEF S
  <1>5. LET T == {i \in S : i <= n}
            U == {i \in S : i <= n + 1}
        IN  IF n + 1 \in S THEN U # {} /\ Max(U) = n + 1 ELSE U = T
    BY <1>4, UpTo
  <1> QED BY <1>1, <1>3, <1>5

\* The fields of a configuration, and the ones each flag writes.
LEMMA AxisFields ==
  /\ Axes = {"conns", "channels", "pubChannels"} /\ "" \notin Axes
  /\ \A a \in Axes : DistOf[a] \in {"connsDist", "channelsDist", "pubChannelsDist"}
  /\ \A a, b \in Axes : DistOf[a] = DistOf[b] => a = b
  /\ \A a \in Axes : DistOf[a] \notin IntFlags
  /\ "distribution" \notin IntFlags /\ "distribution" \notin Axes
  BY SMT DEF Axes, DistOf, IntFlags

LEMMA ConfigDomain ==
  ASSUME NEW c \in Config
  PROVE  /\ IntFlags \subseteq DOMAIN c /\ "distribution" \notin DOMAIN c
         /\ \A a \in Axes : DistOf[a] \in DOMAIN c
         /\ \A f : f \in DOMAIN c <=>
              f \in IntFlags \/ f \in {"connsDist", "channelsDist", "pubChannelsDist"}
  <1>1. DOMAIN c = {"conns", "pubConns", "consConns", "channels", "pubChannels", "consChannels",
                    "publishers", "consumers", "connsDist", "channelsDist", "pubChannelsDist",
                    "maxChannelsPerConn", "maxConsumersPerChannel", "maxPublishersPerChannel"}
    BY DEF Config
  <1>2. \A f : f \in DOMAIN c <=>
              f \in IntFlags \/ f \in {"connsDist", "channelsDist", "pubChannelsDist"}
    BY <1>1 DEF IntFlags
  <1>3. "distribution" \notin DOMAIN c
    BY <1>1
  <1> QED BY <1>2, <1>3, AxisFields

LEMMA IntField ==
  ASSUME NEW c \in Config, NEW f \in IntFlags, NEW v \in Int
  PROVE  LET d == [c EXCEPT ![f] = v]
         IN  /\ d \in Config /\ DOMAIN d = DOMAIN c /\ d[f] = v
             /\ \A g \in DOMAIN c : g # f => d[g] = c[g]
  <1>1. f \in DOMAIN c
    BY ConfigDomain
  <1>2. [c EXCEPT ![f] = v] \in Config
    BY DEF Config, IntFlags
  <1> QED BY <1>1, <1>2

LEMMA DistField ==
  ASSUME NEW c \in Config, NEW a \in Axes, NEW v \in Dists
  PROVE  LET d == [c EXCEPT ![DistOf[a]] = v]
         IN  /\ d \in Config /\ DOMAIN d = DOMAIN c /\ d[DistOf[a]] = v
             /\ \A g \in DOMAIN c : g # DistOf[a] => d[g] = c[g]
  <1>1. DistOf[a] \in DOMAIN c
    BY ConfigDomain
  <1>2. DistOf[a] \in {"connsDist", "channelsDist", "pubChannelsDist"}
    BY AxisFields
  <1>3. [c EXCEPT ![DistOf[a]] = v] \in Config
    BY <1>2 DEF Config
  <1> QED BY <1>1, <1>3

LEMMA FlagKinds ==
  ASSUME NEW l \in Seq(Flags), NEW i \in DOMAIN l, l[i].name # "distribution"
  PROVE  l[i].name \in IntFlags /\ l[i].value \in Int
  <1>1. l[i] \in Flags
    BY SMT
  <1> QED BY <1>1 DEF Flags

LEMMA SpellingsAre ==
  \A v \in DOMAIN Spellings : Spellings[v] \in Dists
  BY SMT DEF Spellings, Dists

\* intAxisFlag.Set, and the plain integer flags.
LEMMA ReadInt ==
  ASSUME NEW l \in Seq(Flags), NEW n \in Nat, n < Len(l), NEW c \in Config, NEW x,
         l[n + 1].name # "distribution", Followed(l, n, x), Applied(l, n, c)
  PROVE  LET f == l[n + 1].name
         IN  /\ Followed(l, n + 1, IF f \in Axes THEN f ELSE x)
             /\ Applied(l, n + 1, [c EXCEPT ![f] = l[n + 1].value])
             /\ [c EXCEPT ![f] = l[n + 1].value] \in Config
  <1> DEFINE f == l[n + 1].name
             v == l[n + 1].value
             d == [c EXCEPT ![f] = v]
             k == (n + 1) + 1
             y == IF f \in Axes THEN f ELSE x
  <1>1. n + 1 \in DOMAIN l /\ n + 1 \in Nat \ {0} /\ k \in Nat
    BY SMT
  <1>2. f \in IntFlags /\ v \in Int
    BY <1>1, FlagKinds
  <1>3. /\ d \in Config /\ DOMAIN d = DOMAIN c /\ d[f] = v
        /\ \A g \in DOMAIN c : g # f => d[g] = c[g]
    BY <1>2, IntField
  <1>4. AxisIn(l, k) = IF f \in Axes THEN n + 1 ELSE AxisIn(l, n + 1)
    BY <1>1, AxisStep
  <1>5. Followed(l, n + 1, y)
    <2>1. \A i \in DistsIn(l) : i <= n + 1 => i <= n
      <3>1. \A i \in DistsIn(l) : i \in Nat /\ i # n + 1
        BY SMT DEF DistsIn
      <3> QED BY <3>1, SMT
    <2>2. \A i \in DistsIn(l) : i <= n + 1 => AxisIn(l, i) # 0 /\ l[i].value \in DOMAIN Spellings
      BY <2>1 DEF Followed
    <2>3. \/ AxisIn(l, k) = 0 /\ y = ""
          \/ AxisIn(l, k) # 0 /\ y = l[AxisIn(l, k)].name /\ y \in Axes
      <3>1. n + 1 # 0
        BY SMT
      <3>2. CASE f \in Axes
        BY <1>4, <3>1, <3>2
      <3>3. CASE f \notin Axes
        BY <1>4, <3>3 DEF Followed
      <3> QED BY <3>2, <3>3
    <2> QED BY <2>2, <2>3 DEF Followed
  <1>6. Applied(l, n + 1, d)
    <2>1. ASSUME NEW a \in Axes
          PROVE  d[DistOf[a]] = IF BoundTo(l, a, n + 1) = {} THEN "even"
                                ELSE Spellings[l[Max(BoundTo(l, a, n + 1))].value]
      <3>1. BoundTo(l, a, n + 1) = BoundTo(l, a, n)
        BY BoundStep
      <3>2. DistOf[a] \in DOMAIN c /\ DistOf[a] # f
        BY <1>2, AxisFields, ConfigDomain
      <3>3. d[DistOf[a]] = c[DistOf[a]]
        BY <1>3, <3>2
      <3> QED BY <3>1, <3>3 DEF Applied
    <2>2. ASSUME NEW g \in DOMAIN d, GivenTo(l, g, n + 1) # {}
          PROVE  d[g] = l[Max(GivenTo(l, g, n + 1))].value
      <3>1. CASE g = f
        <4>1. Max(GivenTo(l, g, n + 1)) = n + 1
          BY <3>1, GivenStep
        <4> QED BY <1>3, <3>1, <4>1
      <3>2. CASE g # f
        <4>1. GivenTo(l, g, n + 1) = GivenTo(l, g, n)
          BY <3>2, GivenStep
        <4> QED BY <1>3, <2>2, <3>2, <4>1 DEF Applied
      <3> QED BY <3>1, <3>2
    <2> HIDE DEF d
    <2> QED BY <2>1, <2>2 DEF Applied
  <1> QED BY <1>3, <1>5, <1>6

\* distributionFlag.Set with a value it knows and an axis before it.
LEMMA ReadDistribution ==
  ASSUME NEW l \in Seq(Flags), NEW n \in Nat, n < Len(l), NEW c \in Config, NEW x \in Axes,
         l[n + 1].name = "distribution", l[n + 1].value \in DOMAIN Spellings,
         Followed(l, n, x), Applied(l, n, c)
  PROVE  LET d == [c EXCEPT ![DistOf[x]] = Spellings[l[n + 1].value]]
         IN  Followed(l, n + 1, x) /\ Applied(l, n + 1, d) /\ d \in Config
  <1> DEFINE v == Spellings[l[n + 1].value]
             d == [c EXCEPT ![DistOf[x]] = v]
             k == (n + 1) + 1
  <1>1. n + 1 \in DOMAIN l /\ n + 1 \in Nat \ {0} /\ k \in Nat
    BY SMT
  <1>2. v \in Dists
    BY SpellingsAre
  <1> HIDE DEF v
  <1>3. /\ d \in Config /\ DOMAIN d = DOMAIN c /\ d[DistOf[x]] = v
        /\ \A g \in DOMAIN c : g # DistOf[x] => d[g] = c[g]
    BY <1>2, DistField
  <1>4. AxisIn(l, k) = AxisIn(l, n + 1)
    <2>1. l[n + 1].name \notin Axes
      BY AxisFields
    <2> QED BY <1>1, <2>1, AxisStep
  <1>5. AxisIn(l, n + 1) # 0 /\ l[AxisIn(l, n + 1)].name = x
    BY AxisFields DEF Followed
  <1>6. Followed(l, n + 1, x)
    <2>1. \A i \in DistsIn(l) : i <= n + 1 => i <= n \/ i = n + 1
      <3>1. \A i \in DistsIn(l) : i \in Nat
        BY SMT DEF DistsIn
      <3> QED BY <3>1, SMT
    <2>2. \A i \in DistsIn(l) : i <= n + 1 => AxisIn(l, i) # 0 /\ l[i].value \in DOMAIN Spellings
      BY <1>5, <2>1 DEF Followed
    <2> QED BY <1>4, <1>5, <2>2 DEF Followed
  <1>7. Applied(l, n + 1, d)
    <2> HIDE DEF d
    <2>1. ASSUME NEW a \in Axes
          PROVE  d[DistOf[a]] = IF BoundTo(l, a, n + 1) = {} THEN "even"
                                ELSE Spellings[l[Max(BoundTo(l, a, n + 1))].value]
      <3>1. CASE a = x
        <4>1. BoundTo(l, a, n + 1) # {} /\ Max(BoundTo(l, a, n + 1)) = n + 1
          BY <1>5, <3>1, BoundStep
        <4> QED BY <1>3, <3>1, <4>1 DEF v
      <3>2. CASE a # x
        <4>1. BoundTo(l, a, n + 1) = BoundTo(l, a, n)
          BY <1>5, <3>2, BoundStep
        <4>2. DistOf[a] \in DOMAIN c /\ DistOf[a] # DistOf[x]
          BY <3>2, AxisFields, ConfigDomain
        <4>3. d[DistOf[a]] = c[DistOf[a]]
          BY <1>3, <4>2
        <4> QED BY <4>1, <4>3 DEF Applied
      <3> QED BY <3>1, <3>2
    <2>2. ASSUME NEW g \in DOMAIN d, GivenTo(l, g, n + 1) # {}
          PROVE  d[g] = l[Max(GivenTo(l, g, n + 1))].value
      <3>1. g # "distribution"
        BY <1>3, <2>2, ConfigDomain
      <3>2. GivenTo(l, g, n + 1) = GivenTo(l, g, n)
        BY <3>1, GivenStep
      <3>3. g # DistOf[x]
        <4>1. GivenTo(l, DistOf[x], n) = {}
          <5>1. ASSUME NEW i \in DOMAIN l PROVE l[i].name # DistOf[x]
            <6>1. DistOf[x] # "distribution" /\ DistOf[x] \notin IntFlags
              BY AxisFields, ConfigDomain
            <6> QED BY <6>1, FlagKinds
          <5> QED BY <5>1 DEF GivenTo
        <4> QED BY <2>2, <3>2, <4>1
      <3> QED BY <1>3, <2>2, <3>2, <3>3 DEF Applied
    <2> QED BY <2>1, <2>2 DEF Applied
  <1> QED BY <1>3, <1>6, <1>7 DEF v

-----------------------------------------------------------------------------
(* The invariant.                                                          *)

LEMMA TopologyInit ==
  ASSUME Init
  PROVE  TopologyInv
  <1>1. at = 0 /\ last = "" /\ plan = <<>>
    BY DEF Init
  <1>2. CASE config \in Configs /\ line = <<>>
    <2>1. config \in Config /\ line \in Seq(Flags) /\ Len(line) = 0
      BY <1>2, ConfigsAssumption, SMT
    <2>2. 0 \in 0..0
      BY SMT
    <2> QED BY <1>1, <1>2, <2>1, <2>2 DEF TopologyInv, Typed, Halted
  <1>3. CASE config = DefaultConfig /\ line \in CommandLines
    <2>1. config \in Config
      BY <1>3, SMT DEF Config, DefaultConfig, Dists
    <2>2. line \in Seq(Flags) /\ Len(line) \in Nat
      BY <1>3, CommandLinesAssumption, SMT
    <2>3. \A i \in DOMAIN line : ~(i <= 0)
      BY <2>2, SMT
    <2>4. AxisIn(line, 0 + 1) = 0
      <3>1. 0 + 1 = 1
        BY SMT
      <3> QED BY <3>1, NoAxisYet
    <2>5. Followed(line, 0, "")
      BY <2>3, <2>4 DEF Followed, DistsIn
    <2>6. Applied(line, 0, config)
      <3>1. /\ \A a : BoundTo(line, a, 0) = {}
            /\ \A f : GivenTo(line, f, 0) = {}
        BY <2>3 DEF BoundTo, DistsIn, GivenTo
      <3>2. \A a \in Axes : config[DistOf[a]] = "even"
        BY <1>3, SMT DEF DefaultConfig, Axes, DistOf
      <3> QED BY <3>1, <3>2 DEF Applied
    <2>7. Typed
      <3>1. 0 \in 0..Len(line)
        BY <2>2, SMT
      <3> QED BY <1>1, <2>1, <2>2, <3>1 DEF Typed
    <2> QED BY <1>1, <2>5, <2>6, <2>7 DEF TopologyInv, Halted
  <1> QED BY <1>2, <1>3 DEF Init

LEMMA TopologyStep ==
  ASSUME TopologyInv, [Next]_vars
  PROVE  TopologyInv'
  <1>1. /\ config \in Config /\ line \in Seq(Flags) /\ at \in 0..Len(line)
        /\ last \in Axes \union {""}
    BY DEF TopologyInv, Typed
  <1>2. at < Len(line) => at \in Nat /\ at + 1 \in 0..Len(line) /\ line # <<>> /\ at # Len(line)
    <2>1. line \in Seq(Flags) /\ at \in 0..Len(line)
      BY <1>1
    <2> QED BY <2>1, SMT
  <1>3. Halted /\ (line # <<>> => Followed(line, at, last) /\ Applied(line, at, config))
    BY DEF TopologyInv
  <1>4. CASE SetInt
    <2>1. /\ at < Len(line) /\ Flag.name # "distribution" /\ Flag = line[at + 1]
          /\ config' = [config EXCEPT ![Flag.name] = Flag.value]
          /\ last' = IF Flag.name \in Axes THEN Flag.name ELSE last
          /\ at' = at + 1 /\ line' = line /\ plan' = plan
      BY <1>4 DEF SetInt, Flag
    <2>2. at \in Nat /\ at + 1 \in 0..Len(line) /\ line # <<>> /\ at # Len(line)
      BY <1>2, <2>1
    <2>3. plan = <<>>
      BY <1>3, <2>1, <2>2 DEF Halted
    <2>4. Followed(line, at + 1, last') /\ Applied(line, at + 1, config') /\ config' \in Config
      BY <1>1, <1>3, <2>1, <2>2, ReadInt
    <2>5. last' \in Axes \union {""}
      BY <1>1, <2>1
    <2> QED BY <1>1, <2>1, <2>2, <2>3, <2>4, <2>5 DEF TopologyInv, Typed, Halted
  <1>5. CASE SetDistribution
    <2>1. /\ at < Len(line) /\ Flag.name = "distribution" /\ Flag = line[at + 1]
          /\ Flag.value \in DOMAIN Spellings /\ last \in Axes
          /\ config' = [config EXCEPT ![DistOf[last]] = Spellings[Flag.value]]
          /\ at' = at + 1 /\ line' = line /\ last' = last /\ plan' = plan
      BY <1>5 DEF SetDistribution, Flag
    <2>2. at \in Nat /\ at + 1 \in 0..Len(line) /\ line # <<>> /\ at # Len(line)
      BY <1>2, <2>1
    <2>3. plan = <<>>
      BY <1>3, <2>1, <2>2 DEF Halted
    <2>4. Followed(line, at + 1, last) /\ Applied(line, at + 1, config') /\ config' \in Config
      BY <1>1, <1>3, <2>1, <2>2, ReadDistribution
    <2> QED BY <1>1, <2>1, <2>2, <2>3, <2>4 DEF TopologyInv, Typed, Halted
  <1>6. CASE UsageError
    <2>1. /\ at < Len(line) /\ Flag.name = "distribution"
          /\ Flag.value \notin DOMAIN Spellings \/ last \notin Axes
          /\ plan' = Rejected /\ config' = config /\ line' = line /\ at' = at /\ last' = last
          /\ Flag' = Flag
      BY <1>6 DEF UsageError, Flag
    <2> QED BY <1>1, <1>3, <2>1 DEF TopologyInv, Typed, Halted
  <1>7. CASE Resolve
    <2>1. /\ at = Len(line) /\ plan' = Build(config) /\ Build(config)' = Build(config')
          /\ config' = config /\ line' = line /\ at' = at /\ last' = last
      BY <1>7 DEF Resolve
    <2> QED BY <1>1, <1>3, <2>1 DEF TopologyInv, Typed, Halted
  <1>8. CASE UNCHANGED vars
    <2>1. /\ config' = config /\ line' = line /\ at' = at /\ last' = last /\ plan' = plan
          /\ Flag' = Flag
      BY <1>8 DEF vars, Flag
    <2> QED BY <1>1, <1>3, <2>1 DEF TopologyInv, Typed, Halted
  <1> QED BY <1>4, <1>5, <1>6, <1>7, <1>8 DEF Next

LEMMA TopologyInvariant == Spec => []TopologyInv
  <1>1. Init => TopologyInv
    BY TopologyInit
  <1>2. TopologyInv /\ [Next]_vars => TopologyInv'
    BY TopologyStep
  <1> QED BY <1>1, <1>2, PTL DEF Spec

-----------------------------------------------------------------------------
(* The theorems.                                                           *)

\* A plan in hand is Build's for the configuration in hand.
LEMMA PlannedIs ==
  ASSUME TopologyInv, Planned
  PROVE  config \in Config /\ Fits(config) /\ plan = PlanOf(config)
  <1>1. plan = Build(config)
    BY DEF TopologyInv, Halted, Planned
  <1> QED BY <1>1, BuildIs DEF TopologyInv, Typed, Planned

LEMMA LineRead ==
  ASSUME TopologyInv
  PROVE  FlagsBind
  <1> SUFFICES ASSUME plan # <<>>, line # <<>> PROVE FlagsBind
    BY DEF FlagsBind
  <1>1. /\ config \in Config /\ line \in Seq(Flags) /\ at \in 0..Len(line)
        /\ Followed(line, at, last) /\ Applied(line, at, config)
    BY DEF TopologyInv, Typed
  <1> DEFINE bad == \E i \in Distributions :
                      AxisBefore(i) = 0 \/ line[i].value \notin DOMAIN Spellings
             bound(a) == {i \in Distributions : AxisBefore(i) # 0 /\ line[AxisBefore(i)].name = a}
             given(f) == {i \in DOMAIN line : line[i].name = f}
  <1>2. Distributions = DistsIn(line) /\ \A i : AxisBefore(i) = AxisIn(line, i)
    BY DEF Distributions, DistsIn, AxisBefore, AxisIn
  <1>3. CASE at = Len(line)
    <2>1. \A i \in DOMAIN line : i <= at
      BY <1>1, <1>3, SMT
    <2>2. ~bad
      BY <1>1, <1>2, <2>1 DEF Followed, DistsIn
    <2>3. ~(at < Len(line))
      BY <1>1, <1>3, SMT
    <2>4. \A a : bound(a) = BoundTo(line, a, at)
      BY <1>2, <2>1 DEF BoundTo, DistsIn
    <2>5. \A f : given(f) = GivenTo(line, f, at)
      BY <2>1 DEF GivenTo
    <2>6. /\ \A a \in Axes : config[DistOf[a]] =
               IF bound(a) = {} THEN "even" ELSE Spellings[line[Max(bound(a))].value]
          /\ \A f \in DOMAIN config : given(f) # {} => config[f] = line[Max(given(f))].value
      <3> HIDE DEF bound, given
      <3> QED BY <1>1, <2>4, <2>5 DEF Applied
    <2> QED BY <2>2, <2>3, <2>6 DEF FlagsBind
  <1>4. CASE at # Len(line)
    <2>1. /\ at < Len(line) /\ line[at + 1].name = "distribution"
          /\ line[at + 1].value \notin DOMAIN Spellings \/ last \notin Axes
      BY <1>4 DEF TopologyInv, Halted, Flag
    <2>2. at + 1 \in DOMAIN line
      BY <1>1, <2>1, SMT
    <2>3. at + 1 \in Distributions
      BY <2>1, <2>2 DEF Distributions
    <2>4. last \notin Axes => AxisBefore(at + 1) = 0
      BY <1>1, <1>2 DEF Followed
    <2>5. bad
      BY <2>1, <2>3, <2>4
    <2> QED BY <2>1, <2>5 DEF FlagsBind
  <1> QED BY <1>3, <1>4

\* Every goroutine of an accepted plan is on exactly one channel, whose role
\* and whose connection let it run there (buildTopology, steps 3 and 4), for
\* any numbers of connections, channels and goroutines.
THEOREM PlacementSoundCorrect == Spec => []PlacementSound
  <1>1. TopologyInv => PlacementSound
    <2>1. ~Planned => PlacementSound
      BY DEF PlacementSound
    <2> QED BY <2>1, PlannedIs, PlanPlaced
  <1> QED BY <1>1, TopologyInvariant, PTL

\* Round-robin is balanced to within one and packing fills to the cap and no
\* further, on connections and on channels, whatever the numbers.
THEOREM LoadsShapedCorrect == Spec => []LoadsShaped
  <1>1. TopologyInv => LoadsShaped
    <2>1. ~Planned => LoadsShaped
      BY DEF LoadsShaped
    <2> QED BY <2>1, PlannedIs, PlanShaped
  <1> QED BY <1>1, TopologyInvariant, PTL

\* The mixed connections carry exactly the dedicated channels asked for, the
\* lowest global indices first (buildTopology, step 2).
THEOREM CarvingExactCorrect == Spec => []CarvingExact
  <1>1. TopologyInv => CarvingExact
    <2>1. ~Planned => CarvingExact
      BY DEF CarvingExact
    <2> QED BY <2>1, PlannedIs, PlanCarved
  <1> QED BY <1>1, TopologyInvariant, PTL

\* An error of placeWorkers means that no assignment of goroutines to capable
\* channels at all would respect the cap: by counting, more goroutines than
\* channels times cap fit in no way.
THEOREM RejectsOnlyInfeasibleCorrect == Spec => []RejectsOnlyInfeasible
  <1>1. TopologyInv => RejectsOnlyInfeasible
    <2>1. CASE plan = Rejected /\ at = Len(line)
      <3>1. plan # <<>>
        <4>1. DOMAIN Rejected = {"error"} /\ DOMAIN <<>> = {}
          BY SMT DEF Rejected
        <4> QED BY <2>1, <4>1
      <3>2. TopologyInv => config \in Config /\ plan = Build(config)
        <4>1. ~(Len(line) < Len(line)) \/ line \notin Seq(Flags)
          BY SMT
        <4> QED BY <2>1, <3>1, <4>1 DEF TopologyInv, Typed, Halted
      <3> QED BY <3>2, RefusedHasNoRoom
    <2>2. CASE ~(plan = Rejected /\ at = Len(line))
      BY <2>2 DEF RejectsOnlyInfeasible
    <2> QED BY <2>1, <2>2
  <1> QED BY <1>1, TopologyInvariant, PTL

\* A cap that Warnings calls ignored could as well not have been given: Build
\* returns the same plan, or the same refusal, without it.
THEOREM IgnoredCapsIgnoredCorrect == Spec => []IgnoredCapsIgnored
  <1>1. TopologyInv => IgnoredCapsIgnored
    <2> SUFFICES ASSUME TopologyInv, plan # <<>>, at = Len(line), NEW x \in IgnoredCaps(config)
                 PROVE  plan = Build([config EXCEPT ![x] = 0])
      BY DEF IgnoredCapsIgnored
    <2>1. line \in Seq(Flags) /\ config \in Config
      BY DEF TopologyInv, Typed
    <2>2. ~(at < Len(line))
      BY <2>1, SMT
    <2>3. plan = Build(config)
      BY <2>2 DEF TopologyInv, Halted
    <2>4. Alike(config, [config EXCEPT ![x] = 0])
      BY <2>1, IgnoredIsAlike
    <2> QED BY <2>3, <2>4, AlikePlans
  <1> QED BY <1>1, TopologyInvariant, PTL

\* Command lines of any length and order bind as documented: the last
\* -distribution after an axis flag with no other axis between wins, integer
\* flags have their last value, and a line is refused exactly for a bad or an
\* unattached -distribution (AxisCursor, distributionFlag.Set).
THEOREM FlagsBindCorrect == Spec => []FlagsBind
  <1>1. TopologyInv => FlagsBind
    BY LineRead
  <1> QED BY <1>1, TopologyInvariant, PTL
=============================================================================
