------------------------- MODULE LessonRules_proofs -------------------------
(***************************************************************************)
(* Sums over finite sets, as numbers of units. The rules between lessons   *)
(* are symmetric: the engines and the check of a move compare two actions  *)
(* in one order only. And the validator, which looks for the longest run   *)
(* of slots, finds a limit exceeded exactly when it is. The proofs about   *)
(* engines and candidates rest on all three.                               *)
(***************************************************************************)
EXTENDS LessonRules, FiniteSetTheorems, TLAPS

-----------------------------------------------------------------------------
(* Numbers and finite sets.                                                *)

LEMMA LeastNat ==
  ASSUME NEW T \in SUBSET Nat, T # {}
  PROVE  \E x \in T : \A y \in T : x <= y
<1> DEFINE R == {ss \in Nat \X Nat : ss[1] < ss[2]}
<1>1. \A x, y \in Nat : <<y, x>> \in R <=> y < x
  OBVIOUS
<1>2. IsWellFoundedOn(R, Nat)
  BY NatLessThanWellFounded DEF OpToRel
<1> HIDE DEF R
<1>3. PICK x \in T : \A y \in T : ~ (<<y, x>> \in R)
  BY <1>2, WFMin
<1>4. \A y \in T : ~ (y < x)
  BY <1>1, <1>3
<1>5. x \in Nat /\ \A y \in T : y \in Nat
  OBVIOUS
<1>6. \A y \in T : x <= y
  BY <1>4, <1>5
<1> QED BY <1>6

LEMMA MinOfNats ==
  ASSUME NEW T \in SUBSET Nat, T # {}
  PROVE  Min(T) \in T /\ \A y \in T : Min(T) <= y
BY LeastNat DEF Min

LEMMA MaxOfNats ==
  ASSUME NEW T \in SUBSET Nat, T # {}, NEW n \in Nat, \A x \in T : x <= n
  PROVE  Max(T) \in T /\ \A y \in T : y <= Max(T)
<1> DEFINE U == {k \in Nat : \A x \in T : x <= k}
<1>1. PICK k \in U : \A j \in U : k <= j
  <2>1. n \in U
    OBVIOUS
  <2>2. U \in SUBSET Nat
    OBVIOUS
  <2> HIDE DEF U
  <2> QED BY <2>1, <2>2, LeastNat
<1>2. ASSUME k \notin T
      PROVE  FALSE
  <2>1. \A x \in T : x <= k /\ x # k
    BY <1>2
  <2>2. PICK y \in T : TRUE
    OBVIOUS
  <2>3. k > 0 /\ k - 1 \in Nat
    BY <2>1, <2>2
  <2>4. k - 1 \in U
    BY <2>1, <2>3
  <2> QED BY <1>1, <2>3, <2>4
<1>3. \E x \in T : \A y \in T : x >= y
  BY <1>1, <1>2
<1>4. Max(T) \in T /\ \A y \in T : Max(T) >= y
  BY <1>3 DEF Max
<1> QED BY <1>4

\* By the least size of a set without a bound.
LEMMA FiniteIsBounded ==
  ASSUME NEW T \in SUBSET Nat, IsFiniteSet(T)
  PROVE  \E n \in Nat : \A x \in T : x <= n
<1> DEFINE Bounded(U) == \E n \in Nat : \A x \in U : x <= n
           sizes == {n \in Nat : \E U \in SUBSET T : Cardinality(U) = n /\ ~Bounded(U)}
<1> SUFFICES ASSUME ~Bounded(T) PROVE FALSE
  OBVIOUS
<1>1. Cardinality(T) \in sizes
  BY FS_CardinalityType
<1>2. PICK n \in sizes : \A m \in sizes : n <= m
  <2>1. sizes \in SUBSET Nat /\ sizes # {}
    BY <1>1
  <2> HIDE DEF sizes
  <2> QED BY <2>1, LeastNat
<1>3. PICK U \in SUBSET T : Cardinality(U) = n /\ ~Bounded(U)
  BY <1>2
<1>4. PICK x \in U : TRUE
  BY <1>3
<1>5. IsFiniteSet(U)
  BY FS_Subset
<1>6. Cardinality(U \ {x}) = n - 1 /\ Cardinality(U \ {x}) \in Nat
  BY <1>3, <1>4, <1>5, FS_RemoveElement, FS_CardinalityType
<1>7. Cardinality(U \ {x}) \notin sizes
  BY <1>2, <1>6
<1>8. Bounded(U \ {x})
  BY <1>6, <1>7
<1>9. PICK b \in Nat : \A y \in U \ {x} : y <= b
  BY <1>8
<1>10. \A y \in U : y <= (IF x <= b THEN b ELSE x)
  BY <1>4, <1>9
<1>11. (IF x <= b THEN b ELSE x) \in Nat
  BY <1>4, <1>9
<1> QED BY <1>3, <1>10, <1>11

LEMMA RangeIsFinite ==
  ASSUME NEW S, IsFiniteSet(S), NEW f
  PROVE  IsFiniteSet({f[x] : x \in S})
<1> DEFINE T == {f[x] : x \in S}
           g == [x \in S |-> f[x]]
<1>1. g \in Surjection(S, T)
  BY DEF Surjection
<1> HIDE DEF g, T
<1>2. IsFiniteSet(T)
  BY <1>1, FS_Surjection
<1> QED BY <1>2 DEF T

LEMMA UnionIsFinite ==
  ASSUME NEW S, IsFiniteSet(S), NEW f, \A x \in S : IsFiniteSet(f[x])
  PROVE  IsFiniteSet(UNION {f[x] : x \in S})
<1> DEFINE T == {f[x] : x \in S}
<1>1. IsFiniteSet(T)
  BY RangeIsFinite
<1>2. \A U \in T : IsFiniteSet(U)
  OBVIOUS
<1> HIDE DEF T
<1>3. IsFiniteSet(UNION T)
  BY <1>1, <1>2, FS_UNION
<1> QED BY <1>3 DEF T

\* What a sum counts: a number of units for each element of the domain.
Units(f) == UNION {{x} \X (1..f[x]) : x \in DOMAIN f}

\* A sum of naturals is a natural.
LEMMA TotalIsNat ==
  ASSUME NEW S, IsFiniteSet(S), NEW f \in [S -> Nat]
  PROVE  /\ IsFiniteSet(Units(f))
         /\ Total(f) = Cardinality(Units(f)) /\ Total(f) \in Nat
         /\ \A u : u \in Units(f) <=> \E x \in S : \E i \in 1..f[x] : u = <<x, i>>
<1> DEFINE g == [x \in S |-> {x} \X (1..f[x])]
<1>1. ASSUME NEW x \in S
      PROVE  IsFiniteSet(g[x])
  <2>1. IsFiniteSet({x})
    BY FS_Singleton
  <2>2. PICK n \in Int : n = f[x]
    OBVIOUS
  <2>3. IsFiniteSet(1..n)
    BY FS_Interval
  <2>4. IsFiniteSet({x} \X (1..f[x]))
    BY <2>1, <2>2, <2>3, FS_Product
  <2> QED BY <2>4
<1>2. UNION {g[x] : x \in S} = Units(f)
  BY DEF Units
<1>3. \A u : u \in Units(f) <=> \E x \in S : \E i \in 1..f[x] : u = <<x, i>>
  BY DEF Units
<1> HIDE DEF g
<1>4. IsFiniteSet(Units(f))
  BY <1>1, <1>2, UnionIsFinite
<1> QED BY <1>3, <1>4, FS_CardinalityType DEF Total, Units

\* The sizes of sets add up to at least the size of their union, and to no more if
\* they have nothing in common.
LEMMA TotalOfSizes ==
  ASSUME NEW S, IsFiniteSet(S), NEW F, DOMAIN F = S, \A x \in S : IsFiniteSet(F[x]),
         NEW sizes \in [S -> Nat], \A x \in S : sizes[x] = Cardinality(F[x]),
         NEW all, \A e : e \in all <=> \E x \in S : e \in F[x]
  PROVE  /\ Total(sizes) \in Nat /\ IsFiniteSet(all)
         /\ Cardinality(all) <= Total(sizes)
         /\ (\A x, y \in S : \A e : e \in F[x] /\ e \in F[y] => x = y) =>
              Cardinality(all) = Total(sizes)
<1> DEFINE h == [x \in S |-> CHOOSE b : b \in Bijection(1..Cardinality(F[x]), F[x])]
           U == Units(sizes)
           g == [u \in U |-> h[u[1]][u[2]]]
<1>2. /\ IsFiniteSet(U) /\ Total(sizes) = Cardinality(U) /\ Total(sizes) \in Nat
      /\ \A u : u \in U <=> \E x \in S : \E i \in 1..sizes[x] : u = <<x, i>>
  BY TotalIsNat
<1>3. \A x \in S : h[x] \in Bijection(1..sizes[x], F[x])
  BY FS_CardinalityType DEF ExistsBijection
<1> HIDE DEF h
<1>4. ASSUME NEW x \in S
      PROVE  /\ h[x] \in [1..sizes[x] -> F[x]]
             /\ \A i, j \in 1..sizes[x] : h[x][i] = h[x][j] => i = j
             /\ \A y \in F[x] : \E i \in 1..sizes[x] : h[x][i] = y
             /\ \A i \in 1..sizes[x] : h[x][i] \in F[x]
  <2>1. /\ h[x] \in [1..sizes[x] -> F[x]] /\ IsInjective(h[x])
        /\ \A y \in F[x] : \E i \in 1..sizes[x] : h[x][i] = y
    BY <1>3 DEF Bijection, Injection, Surjection
  <2> QED BY <2>1 DEF IsInjective
<1>5. \A x \in S : \A i \in 1..sizes[x] : <<x, i>> \in U /\ g[<<x, i>>] = h[x][i]
  BY <1>2
<1>6. g \in Surjection(U, all)
  <2>1. ASSUME NEW u \in U
        PROVE  g[u] \in all
    <3>1. PICK x \in S : \E i \in 1..sizes[x] : u = <<x, i>>
      BY <1>2
    <3>2. PICK i \in 1..sizes[x] : u = <<x, i>>
      BY <3>1
    <3>3. g[u] = h[x][i] /\ h[x][i] \in F[x]
      BY <1>4, <1>5, <3>2
    <3> QED BY <3>3
  <2>2. ASSUME NEW y \in all
        PROVE  \E u \in U : g[u] = y
    <3>1. PICK x \in S : y \in F[x]
      OBVIOUS
    <3>2. PICK i \in 1..sizes[x] : h[x][i] = y
      BY <1>4, <3>1
    <3> QED BY <1>5, <3>2
  <2>3. g \in [U -> all]
    BY <2>1
  <2> QED BY <2>2, <2>3 DEF Surjection
<1>7. ASSUME \A x, y \in S : \A e : e \in F[x] /\ e \in F[y] => x = y
      PROVE  g \in Injection(U, all)
  <2>1. ASSUME NEW u \in U, NEW v \in U, g[u] = g[v]
        PROVE  u = v
    <3>1. PICK x \in S : \E i \in 1..sizes[x] : u = <<x, i>>
      BY <1>2
    <3>2. PICK i \in 1..sizes[x] : u = <<x, i>>
      BY <3>1
    <3>3. PICK y \in S : \E j \in 1..sizes[y] : v = <<y, j>>
      BY <1>2
    <3>4. PICK j \in 1..sizes[y] : v = <<y, j>>
      BY <3>3
    <3>5. h[x][i] \in F[x] /\ h[y][j] \in F[y] /\ h[x][i] = h[y][j]
      <4>1. g[u] = h[x][i] /\ g[v] = h[y][j]
        BY <1>5, <3>2, <3>4
      <4>2. h[x][i] \in F[x]
        BY <1>4
      <4>3. h[y][j] \in F[y]
        BY <1>4
      <4> QED BY <2>1, <4>1, <4>2, <4>3
    <3>6. x = y
      BY <1>7, <3>5
    <3> QED BY <1>4, <3>2, <3>4, <3>5, <3>6
  <2>2. g \in [U -> all]
    BY <1>6 DEF Surjection
  <2> QED BY <2>1, <2>2 DEF Injection, IsInjective
<1> HIDE DEF U, g
<1>8. /\ IsFiniteSet(all) /\ Cardinality(all) <= Cardinality(U)
      /\ Cardinality(all) = Cardinality(U) <=> g \in Injection(U, all)
  BY <1>2, <1>6, FS_Surjection
<1>9. /\ Total(sizes) \in Nat /\ IsFiniteSet(all)
      /\ Cardinality(all) <= Total(sizes)
      /\ (\A x, y \in S : \A e : e \in F[x] /\ e \in F[y] => x = y) =>
           Cardinality(all) = Total(sizes)
  BY <1>2, <1>7, <1>8
<1> QED BY <1>9

\* Two sums are equal if the terms that count are the same, one by one.
LEMMA TotalsAgree ==
  ASSUME NEW S, IsFiniteSet(S), NEW f \in [S -> Nat],
         NEW T, IsFiniteSet(T), NEW g \in [T -> Nat], NEW h,
         \A x \in S : f[x] > 0 => h[x] \in T /\ g[h[x]] = f[x],
         \A x, y \in S : f[x] > 0 /\ f[y] > 0 /\ h[x] = h[y] => x = y,
         \A y \in T : g[y] > 0 => \E x \in S : f[x] > 0 /\ h[x] = y
  PROVE  Total(f) = Total(g)
<1> DEFINE U == Units(f)
           V == Units(g)
           k == [u \in U |-> <<h[u[1]], u[2]>>]
<1>1. /\ IsFiniteSet(U) /\ Total(f) = Cardinality(U)
      /\ \A u : u \in U <=> \E x \in S : \E i \in 1..f[x] : u = <<x, i>>
  BY TotalIsNat
<1>2. /\ Total(g) = Cardinality(V)
      /\ \A v : v \in V <=> \E y \in T : \E i \in 1..g[y] : v = <<y, i>>
  BY TotalIsNat
<1> HIDE DEF U, V
<1>3. ASSUME NEW u \in U
      PROVE  \E x \in S : \E i \in 1..f[x] :
               u = <<x, i>> /\ k[u] = <<h[x], i>> /\ f[x] > 0 /\ k[u] \in V
  <2>1. PICK x \in S : \E i \in 1..f[x] : u = <<x, i>>
    BY <1>1
  <2>2. PICK i \in 1..f[x] : u = <<x, i>>
    BY <2>1
  <2>3. f[x] \in Nat /\ f[x] > 0
    OBVIOUS
  <2>4. k[u] = <<h[x], i>> /\ h[x] \in T /\ i \in 1..g[h[x]]
    BY <2>2, <2>3
  <2>5. k[u] \in V
    BY <1>2, <2>4
  <2> QED BY <2>2, <2>3, <2>4, <2>5
<1>4. k \in Surjection(U, V)
  <2>1. k \in [U -> V]
    <3>1. \A u \in U : k[u] \in V
      BY <1>3
    <3> QED BY <3>1
  <2>2. ASSUME NEW v \in V
        PROVE  \E u \in U : k[u] = v
    <3>1. PICK y \in T : \E i \in 1..g[y] : v = <<y, i>>
      BY <1>2
    <3>2. PICK i \in 1..g[y] : v = <<y, i>>
      BY <3>1
    <3>3. PICK x \in S : f[x] > 0 /\ h[x] = y
      BY <3>2
    <3>4. <<x, i>> \in U
      BY <1>1, <3>2, <3>3
    <3>5. k[<<x, i>>] = v
      BY <3>2, <3>3, <3>4
    <3> QED BY <3>4, <3>5
  <2> QED BY <2>1, <2>2 DEF Surjection
<1>5. k \in Injection(U, V)
  <2>1. ASSUME NEW u \in U, NEW v \in U, k[u] = k[v]
        PROVE  u = v
    <3> HIDE DEF k
    <3>1. PICK x \in S, i \in Nat : u = <<x, i>> /\ k[u] = <<h[x], i>> /\ f[x] > 0
      BY <1>3
    <3>2. PICK y \in S, j \in Nat : v = <<y, j>> /\ k[v] = <<h[y], j>> /\ f[y] > 0
      BY <1>3
    <3> QED BY <2>1, <3>1, <3>2
  <2>2. k \in [U -> V]
    BY <1>4 DEF Surjection
  <2> QED BY <2>1, <2>2 DEF Injection, IsInjective
<1> HIDE DEF k
<1> QED BY <1>1, <1>2, <1>4, <1>5, FS_Surjection

LEMMA PairsAreFinite ==
  ASSUME NEW S, IsFiniteSet(S), NEW T, DOMAIN T = S, \A x \in S : IsFiniteSet(T[x]),
         NEW pairs,
         \A p : p \in pairs <=> \E x \in S : \E y \in T[x] : p = <<x, y>>
  PROVE  IsFiniteSet(pairs)
<1> DEFINE P == [x \in S |-> {x} \X T[x]]
<1>1. \A x \in S : IsFiniteSet(P[x])
  BY FS_Singleton, FS_Product
<1>2. pairs = UNION {P[x] : x \in S}
  <2>1. \A p : p \in UNION {P[x] : x \in S} <=> \E x \in S : \E y \in T[x] : p = <<x, y>>
    OBVIOUS
  <2> QED BY <2>1
<1> HIDE DEF P
<1> QED BY <1>1, <1>2, UnionIsFinite

\* The sums of the functions f[x], and one function on all pairs <<x, y>>.
Flattens(S, T, f, sums, pairs, flat) ==
  /\ IsFiniteSet(S) /\ DOMAIN T = S /\ \A x \in S : IsFiniteSet(T[x])
  /\ DOMAIN f = S /\ \A x \in S : f[x] \in [T[x] -> Nat]
  /\ sums \in [S -> Nat] /\ \A x \in S : sums[x] = Total(f[x])
  /\ \A p : p \in pairs <=> \E x \in S : \E y \in T[x] : p = <<x, y>>
  /\ flat \in [pairs -> Nat] /\ \A x \in S : \A y \in T[x] : flat[<<x, y>>] = f[x][y]

\* A sum of sums is the sum over all pairs.
LEMMA TotalOfTotals ==
  ASSUME NEW S, NEW T, NEW f, NEW sums, NEW pairs, NEW flat,
         Flattens(S, T, f, sums, pairs, flat)
  PROVE  Total(sums) = Total(flat)
<1> DEFINE F == [x \in S |-> {x} \X Units(f[x])]
           sizes == [x \in S |-> Cardinality(F[x])]
           all == UNION {F[x] : x \in S}
<1>0. /\ IsFiniteSet(S) /\ DOMAIN T = S /\ \A x \in S : IsFiniteSet(T[x])
      /\ DOMAIN f = S /\ \A x \in S : f[x] \in [T[x] -> Nat]
      /\ sums \in [S -> Nat] /\ \A x \in S : sums[x] = Total(f[x])
      /\ \A p : p \in pairs <=> \E x \in S : \E y \in T[x] : p = <<x, y>>
      /\ flat \in [pairs -> Nat] /\ \A x \in S : \A y \in T[x] : flat[<<x, y>>] = f[x][y]
  BY DEF Flattens
<1>1. IsFiniteSet(pairs)
  BY <1>0, PairsAreFinite
<1>3. ASSUME NEW x \in S
      PROVE  /\ IsFiniteSet(F[x]) /\ sizes[x] = sums[x]
             /\ \A u : u \in Units(f[x]) <=> \E y \in T[x] : \E i \in 1..f[x][y] : u = <<y, i>>
  <2>1. /\ IsFiniteSet(Units(f[x])) /\ Total(f[x]) = Cardinality(Units(f[x]))
        /\ Total(f[x]) \in Nat
        /\ \A u : u \in Units(f[x]) <=> \E y \in T[x] : \E i \in 1..f[x][y] : u = <<y, i>>
    BY <1>0, TotalIsNat
  <2>2. IsFiniteSet({x}) /\ Cardinality({x}) = 1
    BY <1>0, FS_Singleton
  <2>3. /\ IsFiniteSet({x} \X Units(f[x]))
        /\ Cardinality({x} \X Units(f[x])) = 1 * Cardinality(Units(f[x]))
    BY <2>1, <2>2, FS_Product
  <2> QED BY <1>0, <2>1, <2>3
<1>4. sizes = sums
  BY <1>0, <1>3
<1>5. \A x, y \in S : \A e : e \in F[x] /\ e \in F[y] => x = y
  BY <1>0
<1>6. IsFiniteSet(all) /\ Cardinality(all) = Total(sizes)
  <2>1. \A x \in S : IsFiniteSet(F[x]) /\ sizes[x] = Cardinality(F[x])
    BY <1>0, <1>3
  <2>2. sizes \in [S -> Nat] /\ DOMAIN F = S
    BY <1>0, <1>4
  <2>3. \A e : e \in all <=> \E x \in S : e \in F[x]
    <3> HIDE DEF F
    <3> QED BY <1>0
  <2> HIDE DEF F, sizes, all
  <2>0. IsFiniteSet(S)
    BY <1>0
  <2>4. IsFiniteSet(all)
    BY <2>0, <2>1, <2>2, <2>3, TotalOfSizes
  <2>5. (\A x, y \in S : \A e : e \in F[x] /\ e \in F[y] => x = y) =>
         Cardinality(all) = Total(sizes)
    BY <2>0, <2>1, <2>2, <2>3, TotalOfSizes
  <2> QED BY <1>0, <1>5, <2>4, <2>5
<1> DEFINE U == Units(flat)
           k == [q \in all |-> <<<<q[1], q[2][1]>>, q[2][2]>>]
<1>7. /\ Total(flat) = Cardinality(U)
      /\ \A u : u \in U <=> \E p \in pairs : \E i \in 1..flat[p] : u = <<p, i>>
  <2> QED BY <1>0, <1>1, TotalIsNat
<1>8. \A q : q \in all <=> \E x \in S : \E y \in T[x] : \E i \in 1..f[x][y] : q = <<x, <<y, i>>>>
  <2>1. \A q : q \in all <=> \E x \in S : \E u \in Units(f[x]) : q = <<x, u>>
    <3>1. \A q : q \in all <=> \E x \in S : q \in F[x]
      <4> HIDE DEF F
      <4> QED BY <1>0
    <3>2. \A x \in S : \A q : q \in F[x] <=> \E u \in Units(f[x]) : q = <<x, u>>
      BY <1>0
    <3> HIDE DEF all, F
    <3> QED BY <1>0, <3>1, <3>2
  <2> HIDE DEF all, F, sizes, k, U
  <2>2. ASSUME NEW q \in all
        PROVE  \E x \in S : \E y \in T[x] : \E i \in 1..f[x][y] : q = <<x, <<y, i>>>>
    <3>1. PICK x \in S : \E u \in Units(f[x]) : q = <<x, u>>
      BY <1>0, <2>1
    <3>2. PICK u \in Units(f[x]) : q = <<x, u>>
      BY <1>0, <3>1
    <3>3. \A v : v \in Units(f[x]) => \E y \in T[x] : \E i \in 1..f[x][y] : v = <<y, i>>
      BY <1>0, <1>3
    <3> QED BY <1>0, <3>2, <3>3
  <2>3. ASSUME NEW x \in S, NEW y \in T[x], NEW i \in 1..f[x][y]
        PROVE  <<x, <<y, i>>>> \in all
    <3>1. <<y, i>> \in Units(f[x])
      BY <1>0, <1>3
    <3> QED BY <1>0, <2>1, <3>1
  <2> QED BY <1>0, <2>2, <2>3
<1>9. \A u : u \in U <=> \E x \in S : \E y \in T[x] : \E i \in 1..f[x][y] : u = <<<<x, y>>, i>>
  <2> HIDE DEF U
  <2> QED BY <1>0, <1>7
<1> HIDE DEF all, U
<1>10. ASSUME NEW q \in all
       PROVE  \E x \in S : \E y \in T[x] : \E i \in 1..f[x][y] :
                q = <<x, <<y, i>>>> /\ k[q] = <<<<x, y>>, i>> /\ k[q] \in U
  <2>1. PICK x \in S : \E y \in T[x] : \E i \in 1..f[x][y] : q = <<x, <<y, i>>>>
    BY <1>0, <1>8
  <2>2. PICK y \in T[x] : \E i \in 1..f[x][y] : q = <<x, <<y, i>>>>
    BY <1>0, <2>1
  <2>3. PICK i \in 1..f[x][y] : q = <<x, <<y, i>>>>
    BY <1>0, <2>2
  <2>4. k[q] = <<<<x, y>>, i>>
    BY <1>0, <2>3
  <2> QED BY <1>0, <1>9, <2>3, <2>4
<1>11. k \in Surjection(all, U)
  <2>1. k \in [all -> U]
    <3>1. \A q \in all : k[q] \in U
      BY <1>0, <1>10
    <3> QED BY <1>0, <3>1
  <2>2. ASSUME NEW u \in U
        PROVE  \E q \in all : k[q] = u
    <3>1. PICK x \in S : \E y \in T[x] : \E i \in 1..f[x][y] : u = <<<<x, y>>, i>>
      BY <1>0, <1>9
    <3>2. PICK y \in T[x] : \E i \in 1..f[x][y] : u = <<<<x, y>>, i>>
      BY <1>0, <3>1
    <3>3. PICK i \in 1..f[x][y] : u = <<<<x, y>>, i>>
      BY <1>0, <3>2
    <3>4. <<x, <<y, i>>>> \in all
      BY <1>0, <1>8
    <3>5. k[<<x, <<y, i>>>>] = u
      BY <1>0, <3>3, <3>4
    <3> QED BY <1>0, <3>4, <3>5
  <2> QED BY <1>0, <2>1, <2>2 DEF Surjection
<1>12. k \in Injection(all, U)
  <2>1. ASSUME NEW q \in all, NEW r \in all, k[q] = k[r]
        PROVE  q = r
    <3> HIDE DEF k
    <3>1. PICK x, y, i : q = <<x, <<y, i>>>> /\ k[q] = <<<<x, y>>, i>>
      BY <1>0, <1>10
    <3>2. PICK z, w, j : r = <<z, <<w, j>>>> /\ k[r] = <<<<z, w>>, j>>
      BY <1>0, <1>10
    <3> QED BY <1>0, <2>1, <3>1, <3>2
  <2>2. k \in [all -> U]
    BY <1>0, <1>11 DEF Surjection
  <2> QED BY <1>0, <2>1, <2>2 DEF Injection, IsInjective
<1> HIDE DEF k
<1>13. Total(sums) = Total(flat)
  BY <1>0, <1>4, <1>6, <1>7, <1>11, <1>12, FS_Surjection
<1> QED BY <1>0, <1>13

LEMMA BrokenCostIsNat ==
  ASSUME NEW p, ProblemOK(p), NEW l, NEW r
  PROVE  BrokenCost(p, l, r) \in Nat
<1> DEFINE broken == Broken(p, l, r, FALSE)
           f == [rule \in broken |-> rule.penalty]
<1>1. broken \subseteq p.rules
  BY DEF Broken
<1>2. IsFiniteSet(broken) /\ \A rule \in broken : rule.penalty \in Nat
  BY <1>1, FS_Subset DEF ProblemOK
<1> HIDE DEF broken
<1>3. Total(f) \in Nat
  BY <1>2, TotalIsNat
<1> QED BY <1>3 DEF BrokenCost, broken

-----------------------------------------------------------------------------
(* The rules are symmetric.                                                *)

\* The lesson of an action has a position in a rule about it (cgcs.py:547).
LEMMA PositionIsNat ==
  ASSUME NEW S, NEW rule, rule.lessons \in Seq(S), NEW a,
         a.lesson \in LessonsOf(rule)
  PROVE  Position(rule, a) \in Nat
<1>1. PICK i \in DOMAIN rule.lessons : rule.lessons[i] = a.lesson
  BY DEF LessonsOf
<1>2. Position(rule, a) \in DOMAIN rule.lessons
  BY <1>1 DEF Position
<1>3. DOMAIN rule.lessons = 1..Len(rule.lessons) /\ Len(rule.lessons) \in Nat
  OBVIOUS
<1> QED BY <1>2, <1>3

\* No kind of rule depends on the order of the two actions (cgcs.py:510-573).
LEMMA ViolatesIsSymmetric ==
  ASSUME NEW p, ProblemOK(p), NEW rule \in p.rules,
         NEW l \in p.options, NEW r \in p.options,
         l.lesson \in LessonsOf(rule), r.lesson \in LessonsOf(rule),
         Violates(rule, l, r)
  PROVE  Violates(rule, r, l)
<1>1. Position(rule, l) \in Nat /\ Position(rule, r) \in Nat
  BY PositionIsNat DEF ProblemOK
<1>2. SharesWeek(l, r) <=> SharesWeek(r, l)
  BY DEF SharesWeek
<1>3. SharesDay(l, r) <=> SharesDay(r, l)
  BY DEF SharesDay
<1>4. Overlaps(l, r) <=> Overlaps(r, l)
  BY <1>2, <1>3 DEF Overlaps
<1>5. ViolatesPrecedence(rule, l, r) => ViolatesPrecedence(rule, r, l)
  BY <1>1, <1>2, <1>3 DEF ViolatesPrecedence
<1>6. ViolatesConsecutive(rule, l, r) => ViolatesConsecutive(rule, r, l)
  BY DEF ViolatesConsecutive
<1> QED BY <1>2, <1>3, <1>4, <1>5, <1>6 DEF Violates

LEMMA ConflictIsSymmetric ==
  ASSUME NEW p, ProblemOK(p), NEW l \in p.options, NEW r \in p.options,
         Conflict(p, l, r)
  PROVE  Conflict(p, r, l)
<1>1. CASE RoomClash(l, r)
  <2>1. Overlaps(r, l)
    BY <1>1 DEF RoomClash, Overlaps, SharesWeek, SharesDay
  <2> QED BY <1>1, <2>1 DEF Conflict, RoomClash
<1>2. CASE Broken(p, l, r, TRUE) # {}
  <2>1. PICK rule \in Broken(p, l, r, TRUE) : TRUE
    BY <1>2
  <2>2. /\ rule \in p.rules /\ rule.required = TRUE
        /\ l.lesson \in LessonsOf(rule) /\ r.lesson \in LessonsOf(rule)
        /\ Violates(rule, l, r)
    BY <2>1 DEF Broken
  <2>3. Violates(rule, r, l)
    BY <2>2, ViolatesIsSymmetric
  <2> QED BY <2>2, <2>3 DEF Broken, Conflict
<1> QED BY <1>1, <1>2 DEF Conflict

\* An action that is compared with each of a schedule, in one order, can join it.
LEMMA JoinIsCompatible ==
  ASSUME NEW p, ProblemOK(p), NEW plan \in SUBSET p.options, Compatible(p, plan),
         NEW a \in p.options,
         \A b \in plan : b.lesson # a.lesson /\ ~Conflict(p, a, b)
  PROVE  Compatible(p, plan \cup {a})
<1>1. \A b \in plan : ~Conflict(p, b, a)
  BY ConflictIsSymmetric
<1> SUFFICES ASSUME NEW l \in plan \cup {a}, NEW r \in plan \cup {a}, l # r
             PROVE  l.lesson # r.lesson /\ ~Conflict(p, l, r)
  BY DEF Compatible
<1>2. CASE l \in plan /\ r \in plan
  BY <1>2 DEF Compatible
<1>3. CASE l = a
  BY <1>3
<1>4. CASE r = a
  BY <1>1, <1>4
<1> QED BY <1>2, <1>3, <1>4

LEMMA SmallerIsCompatible ==
  ASSUME NEW p, NEW plan, NEW less \in SUBSET plan, Compatible(p, plan)
  PROVE  Compatible(p, less)
BY DEF Compatible
-----------------------------------------------------------------------------
(* The limits.                                                             *)

\* The longest run of slots is beyond the maximum exactly if a window of one slot
\* more is full.
LEMMA LongestRunIsExact ==
  ASSUME NEW taken \in SUBSET Nat, IsFiniteSet(taken), NEW max \in Nat
  PROVE  /\ LongestRun(taken) \in Nat
         /\ LongestRun(taken) <= max <=> \A w \in taken : ~ w .. (w + max) \subseteq taken
<1> DEFINE size == Cardinality(taken)
           runs == {n \in 0..size :
                      n = 0 \/ \E x \in taken : x .. (x + n - 1) \subseteq taken}
<1>1. size \in Nat
  BY FS_CardinalityType
<1>2. runs \in SUBSET Nat /\ 0 \in runs /\ \A n \in runs : n <= size
  BY <1>1
<1>3. LongestRun(taken) = Max(runs)
  BY DEF LongestRun
<1>4. LongestRun(taken) \in runs /\ \A n \in runs : n <= LongestRun(taken)
  <2> HIDE DEF runs, size
  <2> QED BY <1>1, <1>2, <1>3, MaxOfNats
<1>5. ASSUME NEW w \in taken, w .. (w + max) \subseteq taken
      PROVE  LongestRun(taken) > max
  <2>1. IsFiniteSet(w .. (w + max)) /\ Cardinality(w .. (w + max)) = max + 1
    BY FS_Interval
  <2>2. max + 1 <= size
    BY <1>5, <2>1, FS_Subset
  <2>3. w + (max + 1) - 1 = w + max
    OBVIOUS
  <2>4. max + 1 \in runs
    BY <1>1, <1>5, <2>2, <2>3
  <2> QED BY <1>2, <1>4, <2>4
<1>6. ASSUME LongestRun(taken) > max
      PROVE  \E w \in taken : w .. (w + max) \subseteq taken
  <2>1. PICK x \in taken : x .. (x + LongestRun(taken) - 1) \subseteq taken
    BY <1>2, <1>4, <1>6
  <2>2. x .. (x + max) \subseteq x .. (x + LongestRun(taken) - 1)
    BY <1>2, <1>4, <1>6
  <2> QED BY <2>1, <2>2
<1> QED BY <1>2, <1>4, <1>5, <1>6

LEMMA OnDayFacts ==
  ASSUME NEW p, ProblemOK(p), NEW limit, NEW s \in SUBSET p.options, NEW day
  PROVE  /\ IsFiniteSet(s) /\ IsFiniteSet(OnDay(limit, s, day))
         /\ \A a \in OnDay(limit, s, day) :
              /\ a \in s /\ a \in p.options /\ a.lesson \in limit.lessons /\ day \in a.days
              /\ a.start \in Nat /\ a.period \in Nat /\ a.length \in Nat \ {0}
<1>1. IsFiniteSet(s)
  BY FS_Subset DEF ProblemOK
<1>2. OnDay(limit, s, day) \in SUBSET s
  BY DEF OnDay
<1>3. IsFiniteSet(OnDay(limit, s, day))
  BY <1>1, <1>2, FS_Subset
<1> QED BY <1>1, <1>3 DEF OnDay, ProblemOK

LEMMA DayLoadIsNat ==
  ASSUME NEW p, ProblemOK(p), NEW limit, NEW s \in SUBSET p.options, NEW day
  PROVE  DayLoad(limit, s, day) \in Nat
<1> DEFINE D == OnDay(limit, s, day)
           f == [a \in D |-> a.length]
<1>1. IsFiniteSet(D) /\ f \in [D -> Nat]
  BY OnDayFacts
<1>2. DayLoad(limit, s, day) = Total(f)
  BY DEF DayLoad
<1> HIDE DEF f, D
<1> QED BY <1>1, <1>2, TotalIsNat

LEMMA SlotsTakenIsFinite ==
  ASSUME NEW p, ProblemOK(p), NEW limit, NEW s \in SUBSET p.options, NEW day
  PROVE  /\ SlotsTaken(limit, s, day) \in SUBSET Nat
         /\ IsFiniteSet(SlotsTaken(limit, s, day))
<1> DEFINE D == OnDay(limit, s, day)
           f == [a \in D |-> Slots(a)]
<1>1. ASSUME NEW a \in D
      PROVE  f[a] \in SUBSET Nat /\ IsFiniteSet(f[a])
  <2>0. a.start \in Nat /\ a.length \in Nat \ {0}
    BY OnDayFacts
  <2>1. End(a) - 1 \in Nat
    BY <2>0 DEF End
  <2>2. PICK m \in Int, n \in Int : m = a.start /\ n = End(a) - 1
    BY <2>0, <2>1
  <2>3. IsFiniteSet(m .. n)
    BY FS_Interval
  <2>4. Slots(a) = m .. n
    BY <2>2 DEF Slots
  <2>5. m .. n \subseteq Nat
    BY <2>0, <2>2
  <2> QED BY <2>3, <2>4, <2>5
<1>2. SlotsTaken(limit, s, day) = UNION {f[a] : a \in D}
  BY DEF SlotsTaken
<1>3. IsFiniteSet(D)
  BY OnDayFacts
<1> HIDE DEF f, D
<1> QED BY <1>1, <1>2, <1>3, UnionIsFinite

\* On a day, slots are periods up to a shift.
LEMMA SlotsAreShiftedPeriods ==
  ASSUME NEW p, ProblemOK(p), NEW limit, OneNumbering(p, limit),
         limit.kind = "consecutive_limit", NEW s \in SUBSET p.options, NEW day
  PROVE  /\ Occupied(limit, s, day) \subseteq Nat
         /\ \E k \in Int : \A x \in Int :
              x \in Occupied(limit, s, day) <=> x + k \in SlotsTaken(limit, s, day)
<1> DEFINE D == OnDay(limit, s, day)
<1>0. \A a \in D : a.start \in Nat /\ a.period \in Nat /\ a.length \in Nat \ {0}
  BY OnDayFacts
<1>1. \A a \in D : /\ a.start \in Nat /\ a.period \in Nat /\ a.length \in Nat \ {0}
                   /\ Periods(a) = a.period .. (a.period + a.length - 1)
                   /\ Slots(a) = a.start .. (a.start + a.length - 1)
  BY <1>0 DEF Periods, Slots, End
<1>2. \A a, b \in D : a.start - a.period = b.start - b.period
  <2> TAKE a, b \in D
  <2>1. {a.lesson, b.lesson} \subseteq limit.lessons /\ SharesDay(a, b)
    BY OnDayFacts DEF SharesDay
  <2>2. a \in p.options /\ b \in p.options
    BY OnDayFacts
  <2> QED BY <2>1, <2>2 DEF OneNumbering
<1>3. Occupied(limit, s, day) \subseteq Nat
  <2>1. \A a \in D : Periods(a) \subseteq Nat
    BY <1>1
  <2> QED BY <2>1 DEF Occupied
<1>4. CASE D = {}
  BY <1>3, <1>4 DEF Occupied, SlotsTaken
<1>5. CASE D # {}
  <2>1. PICK b \in D : TRUE
    BY <1>5
  <2> DEFINE k == b.start - b.period
  <2>2. k \in Int
    BY <1>1
  <2>3. ASSUME NEW a \in D, NEW x \in Int
        PROVE  x \in Periods(a) <=> x + k \in Slots(a)
    <3>1. a.start = a.period + k
      BY <1>1, <1>2
    <3> HIDE DEF k
    <3>2. x \in Periods(a) <=> a.period <= x /\ x <= a.period + a.length - 1
      BY <1>1
    <3>3. x + k \in Slots(a) <=> a.start <= x + k /\ x + k <= a.start + a.length - 1
      BY <1>1, <2>2
    <3> QED BY <1>0, <2>2, <3>1, <3>2, <3>3
  <2> HIDE DEF k
  <2>4. \A x \in Int :
          x \in Occupied(limit, s, day) <=> x + k \in SlotsTaken(limit, s, day)
    BY <2>3 DEF Occupied, SlotsTaken
  <2> QED BY <1>3, <2>2, <2>4
<1> QED BY <1>4, <1>5

\* The validator finds a limit exceeded on a day exactly if it is.
LEMMA ExcessIsExact ==
  ASSUME NEW p, ProblemOK(p), NEW limit \in p.limits, OneNumbering(p, limit),
         NEW s \in SUBSET p.options, NEW day
  PROVE  Excess(limit, s, day) > 0 <=>
           ~ IF limit.kind = "max_daily_lessons"
             THEN DayLoad(limit, s, day) <= limit.max
             ELSE \A w \in Occupied(limit, s, day) :
                    ~ w .. (w + limit.max) \subseteq Occupied(limit, s, day)
<1>1. limit.max \in Nat /\ limit.kind \in {"max_daily_lessons", "consecutive_limit"}
  BY DEF ProblemOK
<1>2. CASE limit.kind = "max_daily_lessons"
  BY <1>1, <1>2, DayLoadIsNat DEF Excess
<1>3. CASE limit.kind = "consecutive_limit"
  <2> DEFINE taken == SlotsTaken(limit, s, day)
             occupied == Occupied(limit, s, day)
             max == limit.max
  <2>1. /\ LongestRun(taken) \in Nat
        /\ LongestRun(taken) <= max <=> \A w \in taken : ~ w .. (w + max) \subseteq taken
    BY <1>1, SlotsTakenIsFinite, LongestRunIsExact
  <2>2. Excess(limit, s, day) = LongestRun(taken) - max
    BY <1>3 DEF Excess
  <2>3. /\ occupied \subseteq Nat /\ taken \subseteq Nat
        /\ \E k \in Int : \A x \in Int : x \in occupied <=> x + k \in taken
    BY <1>3, SlotsAreShiftedPeriods, SlotsTakenIsFinite
  <2> HIDE DEF taken, occupied
  <2>4. PICK k \in Int : \A x \in Int : x \in occupied <=> x + k \in taken
    BY <2>3
  <2>5. ASSUME NEW w \in occupied, w .. (w + max) \subseteq occupied
        PROVE  w + k \in taken /\ (w + k) .. (w + k + max) \subseteq taken
    <3>1. w + k \in taken
      BY <2>3, <2>4
    <3>2. ASSUME NEW y \in (w + k) .. (w + k + max)
          PROVE  y \in taken
      <4>1. y - k \in w .. (w + max) /\ (y - k) + k = y /\ y - k \in Int
        BY <1>1, <2>3
      <4> QED BY <2>4, <2>5, <4>1
    <3> QED BY <3>1, <3>2
  <2>6. ASSUME NEW w \in taken, w .. (w + max) \subseteq taken
        PROVE  w - k \in occupied /\ (w - k) .. (w - k + max) \subseteq occupied
    <3>1. w - k \in occupied
      BY <2>3, <2>4
    <3>2. ASSUME NEW y \in (w - k) .. (w - k + max)
          PROVE  y \in occupied
      <4>1. y + k \in w .. (w + max) /\ y \in Int
        BY <1>1, <2>3
      <4> QED BY <2>4, <2>6, <4>1
    <3> QED BY <3>1, <3>2
  <2>7. (\A w \in taken : ~ w .. (w + max) \subseteq taken) <=>
        (\A w \in occupied : ~ w .. (w + max) \subseteq occupied)
    BY <2>5, <2>6
  <2> QED BY <1>1, <1>3, <2>1, <2>2, <2>7 DEF occupied
<1> QED BY <1>1, <1>2, <1>3

\* If the slots of the lessons are numbered as their periods, the validator refuses
\* exactly the schedules that break a required limit (service.py:1045-1092).
LEMMA ExceededIsExact ==
  ASSUME NEW p, ProblemOK(p), NumberedAlike(p), NEW s \in SUBSET p.options
  PROVE  Exceeded(p, s) = {} <=>
           \A limit \in p.limits : limit.required => KeepsLimit(limit, s)
<1>1. ASSUME NEW limit \in p.limits
      PROVE  KeepsLimit(limit, s) <=> ~ \E day \in DaysOf(s) : Excess(limit, s, day) > 0
  <2>1. OneNumbering(p, limit)
    BY DEF NumberedAlike
  <2> QED BY <2>1, ExcessIsExact DEF KeepsLimit
<1> QED BY <1>1 DEF Exceeded

LEMMA ValidatedIsTimetable ==
  ASSUME NEW p, ProblemOK(p), NumberedAlike(p), NEW s
  PROVE  Validated(p, s) <=> IsTimetable(p, s)
BY ExceededIsExact DEF Validated, IsTimetable
=============================================================================
