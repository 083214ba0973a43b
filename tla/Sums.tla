-------------------------------- MODULE Sums --------------------------------
(***************************************************************************)
(* Facts about sums and folds over finite sets, by induction on the set,    *)
(* and about recursive functions.  An induction is stated with the set of   *)
(* the sets for which the claim holds, in place of a predicate.             *)
(***************************************************************************)
EXTENDS Integers, FiniteSets, Functions, FiniteSetTheorems, WellFoundedInduction, TLAPS

Sum(f, S) == SumFunctionOnSet(f, S)

\* A set of subsets that has T when it has T without any one of its elements
\* has them all.
LEMMA SubsetInduction ==
    ASSUME NEW S, IsFiniteSet(S), NEW G,
           \A T \in SUBSET S : (\A x \in T : T \ {x} \in G) => T \in G
    PROVE  SUBSET S \subseteq G
  <1> DEFINE Bad == {T \in SUBSET S : T \notin G}
  <1>1. IsWellFoundedOn(StrictSubsetOrdering(S), SUBSET S)
    BY FS_StrictSubsetOrderingWellFounded, FS_FiniteSubsetsOfFinite
  <1>2. CASE Bad # {}
    <2>1. Bad \subseteq SUBSET S
      OBVIOUS
    <2> HIDE DEF Bad
    <2>2. PICK T \in Bad : \A U \in Bad : ~(<<U, T>> \in StrictSubsetOrdering(S))
      BY <1>1, <1>2, <2>1, WFMin, Zenon
    <2>3. ASSUME NEW x \in T PROVE T \ {x} \in G
      <3> DEFINE U == T \ {x}
      <3>1. U \in SUBSET S /\ T \in SUBSET S /\ U \subseteq T /\ U # T
        BY DEF Bad
      <3> HIDE DEF U
      <3>2. <<U, T>> \in StrictSubsetOrdering(S)
        BY <3>1 DEF StrictSubsetOrdering
      <3>3. U \notin Bad
        BY <2>2, <3>2
      <3> QED
        BY <3>1, <3>3 DEF Bad, U
    <2> QED
      BY <2>2, <2>3 DEF Bad
  <1> QED
    BY <1>2

-----------------------------------------------------------------------------
(* The recursive function behind a sum exists *)

Pick(s) == CHOOSE x \in s : TRUE

\* g is the sums of f over the subsets of S.
IsSums(g, f, S) ==
    g = [s \in SUBSET S |-> IF s = {} THEN 0 ELSE f[Pick(s)] + g[s \ {Pick(s)}]]

Sums(f, S) == CHOOSE g : IsSums(g, f, S)

LEMMA SumIs == ASSUME NEW f, NEW S PROVE Sum(f, S) = Sums(f, S)[S]
  BY DEF Sum, SumFunctionOnSet, FoldFunctionOnSet, MapThenFoldSet, Sums, IsSums, Pick

LEMMA PickIn == ASSUME NEW s, s # {} PROVE Pick(s) \in s
  BY DEF Pick

LEMMA SumsUnique ==
    ASSUME NEW S, IsFiniteSet(S), NEW f, NEW g, NEW h, IsSums(g, f, S), IsSums(h, f, S)
    PROVE  g = h
  <1> DEFINE G == {T \in SUBSET S : g[T] = h[T]}
  <1>1. ASSUME NEW T \in SUBSET S, \A x \in T : T \ {x} \in G PROVE T \in G
    <2>1. CASE T = {}
      BY <2>1 DEF IsSums
    <2>2. CASE T # {}
      <3> DEFINE x == Pick(T)
      <3>1. x \in T
        BY <2>2, PickIn
      <3> HIDE DEF x
      <3>2. T \ {x} \in G
        BY <1>1, <3>1
      <3>3. g[T] = f[x] + g[T \ {x}] /\ h[T] = f[x] + h[T \ {x}]
        BY <2>2 DEF IsSums, x
      <3> QED
        BY <3>2, <3>3
    <2> QED
      BY <2>1, <2>2
  <1> HIDE DEF G
  <1>2. SUBSET S \subseteq G
    BY <1>1, SubsetInduction
  <1>3. \A T \in SUBSET S : g[T] = h[T]
    BY <1>2 DEF G
  <1>4. DOMAIN g = SUBSET S /\ DOMAIN h = SUBSET S /\ g = [s \in DOMAIN g |-> g[s]] /\ h = [s \in DOMAIN h |-> h[s]]
    BY DEF IsSums
  <1> QED
    BY <1>3, <1>4

LEMMA SumsRestrict ==
    ASSUME NEW S, NEW f, NEW g, IsSums(g, f, S), NEW T \in SUBSET S
    PROVE  IsSums([s \in SUBSET T |-> g[s]], f, T)
  <1> DEFINE h == [s \in SUBSET T |-> g[s]]
  <1>1. ASSUME NEW s \in SUBSET T
        PROVE  h[s] = IF s = {} THEN 0 ELSE f[Pick(s)] + h[s \ {Pick(s)}]
    <2>1. s \in SUBSET S /\ s \ {Pick(s)} \in SUBSET T
      OBVIOUS
    <2>2. g[s] = IF s = {} THEN 0 ELSE f[Pick(s)] + g[s \ {Pick(s)}]
      BY <2>1 DEF IsSums
    <2> QED
      BY <2>1, <2>2
  <1>2. h = [s \in SUBSET T |-> h[s]]
    OBVIOUS
  <1> HIDE DEF h
  <1>3. h = [s \in SUBSET T |-> IF s = {} THEN 0 ELSE f[Pick(s)] + h[s \ {Pick(s)}]]
    BY <1>1, <1>2, Zenon
  <1>4. IsSums(h, f, T)
    BY <1>3 DEF IsSums
  <1> QED
    BY <1>4 DEF h

LEMMA SumsExist ==
    ASSUME NEW S, IsFiniteSet(S), NEW f
    PROVE  IsSums(Sums(f, S), f, S)
  <1> DEFINE G == {T \in SUBSET S : \E g : IsSums(g, f, T)}
  <1>1. ASSUME NEW T \in SUBSET S, \A x \in T : T \ {x} \in G PROVE T \in G
    <2> DEFINE v(s) == IF s = {} THEN 0 ELSE f[Pick(s)] + Sums(f, s \ {Pick(s)})[s \ {Pick(s)}]
               h == [s \in SUBSET T |-> v(s)]
    <2>1. ASSUME NEW s \in SUBSET T, s # T PROVE IsSums(Sums(f, s), f, s)
      <3>1. PICK x \in T : x \notin s
        BY <2>1
      <3>2. PICK g : IsSums(g, f, T \ {x})
        BY <1>1, <3>1
      <3>3. s \in SUBSET (T \ {x})
        BY <3>1
      <3>4. IsSums([u \in SUBSET s |-> g[u]], f, s)
        BY <3>2, <3>3, SumsRestrict
      <3> QED
        BY <3>4 DEF Sums
    <2>2. ASSUME NEW s \in SUBSET T, s # T PROVE v(s) = Sums(f, s)[s]
      <3>1. CASE s = {}
        BY <2>1, <2>2, <3>1 DEF IsSums
      <3>2. CASE s # {}
        <4> DEFINE x == Pick(s)
                   u == s \ {x}
        <4>1. x \in s
          BY <3>2, PickIn
        <4>2. u \in SUBSET s /\ u \in SUBSET T /\ u # T
          BY <4>1
        <4>3. IsSums(Sums(f, s), f, s) /\ IsSums(Sums(f, u), f, u)
          BY <2>1, <2>2, <4>2
        <4>4. IsFiniteSet(u)
          BY <4>2, FS_Subset
        <4> HIDE DEF u
        <4>5. [t \in SUBSET u |-> Sums(f, s)[t]] = Sums(f, u)
          <5>1. IsSums([t \in SUBSET u |-> Sums(f, s)[t]], f, u)
            BY <4>2, <4>3, SumsRestrict
          <5> QED
            BY <4>3, <4>4, <5>1, SumsUnique, Zenon
        <4>6. Sums(f, s)[u] = Sums(f, u)[u]
          BY <4>5
        <4>7. Sums(f, s)[s] = f[x] + Sums(f, s)[u]
          BY <3>2, <4>3 DEF IsSums, u
        <4> QED
          BY <3>2, <4>6, <4>7 DEF u
      <3> QED
        BY <3>1, <3>2
    <2>3. ASSUME NEW s \in SUBSET T
          PROVE  h[s] = IF s = {} THEN 0 ELSE f[Pick(s)] + h[s \ {Pick(s)}]
      <3>1. CASE s = {}
        BY <3>1
      <3>2. CASE s # {}
        <4> DEFINE x == Pick(s)
                   u == s \ {x}
        <4>1. x \in s
          BY <3>2, PickIn
        <4>2. u \in SUBSET T /\ u # T
          BY <4>1
        <4>3. v(u) = Sums(f, u)[u]
          BY <2>2, <4>2
        <4>4. v(s) = f[x] + Sums(f, u)[u]
          BY <3>2
        <4>5. h[s] = v(s) /\ h[u] = v(u)
          BY <4>2
        <4> HIDE DEF v, h
        <4> QED
          BY <3>2, <4>3, <4>4, <4>5
      <3> QED
        BY <3>1, <3>2
    <2>4. h = [s \in SUBSET T |-> h[s]]
      OBVIOUS
    <2> HIDE DEF h, v
    <2>5. h = [s \in SUBSET T |-> IF s = {} THEN 0 ELSE f[Pick(s)] + h[s \ {Pick(s)}]]
      BY <2>3, <2>4, Zenon
    <2> QED
      BY <2>5 DEF IsSums
  <1> HIDE DEF G
  <1>2. SUBSET S \subseteq G
    BY <1>1, SubsetInduction
  <1>3. \E g : IsSums(g, f, S)
    BY <1>2 DEF G
  <1> QED
    BY <1>3 DEF Sums

-----------------------------------------------------------------------------
(* What a sum is *)

LEMMA SumEmpty == ASSUME NEW f PROVE Sum(f, {}) = 0
  <1>1. IsSums(Sums(f, {}), f, {})
    BY FS_EmptySet, SumsExist
  <1> QED
    BY <1>1, SumIs DEF IsSums

LEMMA SumPick ==
    ASSUME NEW S, IsFiniteSet(S), S # {}, NEW f
    PROVE  Pick(S) \in S /\ Sum(f, S) = f[Pick(S)] + Sum(f, S \ {Pick(S)})
  <1> DEFINE x == Pick(S)
             u == S \ {x}
  <1>1. x \in S
    BY PickIn
  <1>2. u \in SUBSET S /\ IsFiniteSet(u)
    BY FS_Subset
  <1>3. IsSums(Sums(f, S), f, S) /\ IsSums(Sums(f, u), f, u)
    BY <1>2, SumsExist
  <1> HIDE DEF u
  <1>4. IsSums([t \in SUBSET u |-> Sums(f, S)[t]], f, u)
    BY <1>2, <1>3, SumsRestrict
  <1>5. [t \in SUBSET u |-> Sums(f, S)[t]] = Sums(f, u)
    BY <1>2, <1>3, <1>4, SumsUnique, Zenon
  <1>6. Sums(f, S)[u] = Sums(f, u)[u]
    BY <1>5
  <1>7. Sums(f, S)[S] = f[x] + Sums(f, S)[u]
    BY <1>3 DEF IsSums, u
  <1> QED
    BY <1>1, <1>6, <1>7, SumIs DEF u

LEMMA SumInt ==
    ASSUME NEW S, IsFiniteSet(S), NEW f, \A x \in S : f[x] \in Int
    PROVE  Sum(f, S) \in Int
  <1> DEFINE G == {T \in SUBSET S : Sum(f, T) \in Int}
  <1>1. ASSUME NEW T \in SUBSET S, \A x \in T : T \ {x} \in G PROVE T \in G
    <2>1. CASE T = {}
      BY <2>1, SumEmpty
    <2>2. CASE T # {}
      <3>1. IsFiniteSet(T)
        BY FS_Subset
      <3>2. Pick(T) \in T /\ Sum(f, T) = f[Pick(T)] + Sum(f, T \ {Pick(T)})
        BY <2>2, <3>1, SumPick
      <3> QED
        BY <1>1, <3>2
    <2> QED
      BY <2>1, <2>2
  <1> HIDE DEF G
  <1>2. SUBSET S \subseteq G
    BY <1>1, SubsetInduction
  <1> QED
    BY <1>2 DEF G

\* Any element may be taken out.
LEMMA SumTake ==
    ASSUME NEW S, IsFiniteSet(S), NEW f, \A x \in S : f[x] \in Int, NEW x \in S
    PROVE  Sum(f, S) = f[x] + Sum(f, S \ {x})
  <1> DEFINE G == {T \in SUBSET S : \A y \in T : Sum(f, T) = f[y] + Sum(f, T \ {y})}
  <1>1. ASSUME NEW T \in SUBSET S, \A y \in T : T \ {y} \in G PROVE T \in G
    <2> SUFFICES ASSUME NEW y \in T PROVE Sum(f, T) = f[y] + Sum(f, T \ {y})
      OBVIOUS
    <2> DEFINE p == Pick(T)
    <2>1. IsFiniteSet(T) /\ T # {}
      BY FS_Subset
    <2>2. p \in T /\ Sum(f, T) = f[p] + Sum(f, T \ {p})
      BY <2>1, SumPick
    <2> HIDE DEF p
    <2>3. CASE y = p
      BY <2>2, <2>3
    <2>4. CASE y # p
      <3>1. Sum(f, T \ {p}) = f[y] + Sum(f, (T \ {p}) \ {y})
        BY <1>1, <2>2, <2>4
      <3>2. Sum(f, T \ {y}) = f[p] + Sum(f, (T \ {y}) \ {p})
        BY <1>1, <2>2, <2>4
      <3>3. (T \ {p}) \ {y} = (T \ {y}) \ {p}
        OBVIOUS
      <3> DEFINE U == (T \ {y}) \ {p}
      <3>4. Sum(f, U) \in Int
        <4>1. U \in SUBSET S
          OBVIOUS
        <4> HIDE DEF U
        <4>2. IsFiniteSet(U)
          BY <4>1, FS_Subset
        <4> QED
          BY <4>1, <4>2, SumInt
      <3>5. f[p] \in Int /\ f[y] \in Int
        BY <2>2
      <3> HIDE DEF U
      <3>6. Sum(f, T \ {p}) = f[y] + Sum(f, U) /\ Sum(f, T \ {y}) = f[p] + Sum(f, U)
        BY <3>1, <3>2, <3>3 DEF U
      <3> QED
        BY <2>2, <3>4, <3>5, <3>6
    <2> QED
      BY <2>3, <2>4
  <1> HIDE DEF G
  <1>2. SUBSET S \subseteq G
    BY <1>1, SubsetInduction
  <1> QED
    BY <1>2 DEF G

LEMMA SumAdd ==
    ASSUME NEW S, IsFiniteSet(S), NEW f, NEW x, x \notin S, \A y \in S \cup {x} : f[y] \in Int
    PROVE  Sum(f, S \cup {x}) = f[x] + Sum(f, S)
  <1> DEFINE T == S \cup {x}
  <1>1. IsFiniteSet(T) /\ x \in T /\ T \ {x} = S
    BY FS_AddElement
  <1> HIDE DEF T
  <1>2. \A y \in T : f[y] \in Int
    BY DEF T
  <1>3. Sum(f, T) = f[x] + Sum(f, T \ {x})
    BY <1>1, <1>2, SumTake
  <1> QED
    BY <1>1, <1>3 DEF T

\* Only the values on the set count.
LEMMA SumEqual ==
    ASSUME NEW S, IsFiniteSet(S), NEW f, NEW g, \A x \in S : f[x] = g[x]
    PROVE  Sum(f, S) = Sum(g, S)
  <1> DEFINE G == {T \in SUBSET S : Sum(f, T) = Sum(g, T)}
  <1>1. ASSUME NEW T \in SUBSET S, \A x \in T : T \ {x} \in G PROVE T \in G
    <2>1. CASE T = {}
      BY <2>1, SumEmpty
    <2>2. CASE T # {}
      <3>1. IsFiniteSet(T)
        BY FS_Subset
      <3>2. Pick(T) \in T /\ Sum(f, T) = f[Pick(T)] + Sum(f, T \ {Pick(T)})
            /\ Sum(g, T) = g[Pick(T)] + Sum(g, T \ {Pick(T)})
        BY <2>2, <3>1, SumPick
      <3> QED
        BY <1>1, <3>2
    <2> QED
      BY <2>1, <2>2
  <1> HIDE DEF G
  <1>2. SUBSET S \subseteq G
    BY <1>1, SubsetInduction
  <1> QED
    BY <1>2 DEF G

LEMMA SumNat ==
    ASSUME NEW S, IsFiniteSet(S), NEW f, \A x \in S : f[x] \in Nat
    PROVE  Sum(f, S) \in Nat
  <1> DEFINE G == {T \in SUBSET S : Sum(f, T) \in Nat}
  <1>1. ASSUME NEW T \in SUBSET S, \A x \in T : T \ {x} \in G PROVE T \in G
    <2>1. CASE T = {}
      BY <2>1, SumEmpty
    <2>2. CASE T # {}
      <3>1. IsFiniteSet(T)
        BY FS_Subset
      <3>2. Pick(T) \in T /\ Sum(f, T) = f[Pick(T)] + Sum(f, T \ {Pick(T)})
        BY <2>2, <3>1, SumPick
      <3> QED
        BY <1>1, <3>2
    <2> QED
      BY <2>1, <2>2
  <1> HIDE DEF G
  <1>2. SUBSET S \subseteq G
    BY <1>1, SubsetInduction
  <1> QED
    BY <1>2 DEF G

LEMMA SumZero ==
    ASSUME NEW S, IsFiniteSet(S), NEW f, \A x \in S : f[x] = 0
    PROVE  Sum(f, S) = 0
  <1> DEFINE G == {T \in SUBSET S : Sum(f, T) = 0}
  <1>1. ASSUME NEW T \in SUBSET S, \A x \in T : T \ {x} \in G PROVE T \in G
    <2>1. CASE T = {}
      BY <2>1, SumEmpty
    <2>2. CASE T # {}
      <3>1. IsFiniteSet(T)
        BY FS_Subset
      <3>2. Pick(T) \in T /\ Sum(f, T) = f[Pick(T)] + Sum(f, T \ {Pick(T)})
        BY <2>2, <3>1, SumPick
      <3> QED
        BY <1>1, <3>2
    <2> QED
      BY <2>1, <2>2
  <1> HIDE DEF G
  <1>2. SUBSET S \subseteq G
    BY <1>1, SubsetInduction
  <1> QED
    BY <1>2 DEF G

LEMMA SumMonotone ==
    ASSUME NEW S, IsFiniteSet(S), NEW f, NEW g, \A x \in S : f[x] \in Int /\ g[x] \in Int /\ f[x] <= g[x]
    PROVE  Sum(f, S) <= Sum(g, S)
  <1> DEFINE G == {T \in SUBSET S : Sum(f, T) <= Sum(g, T) /\ Sum(f, T) \in Int /\ Sum(g, T) \in Int}
  <1>1. ASSUME NEW T \in SUBSET S, \A x \in T : T \ {x} \in G PROVE T \in G
    <2>1. CASE T = {}
      BY <2>1, SumEmpty
    <2>2. CASE T # {}
      <3>1. IsFiniteSet(T)
        BY FS_Subset
      <3>2. Pick(T) \in T /\ Sum(f, T) = f[Pick(T)] + Sum(f, T \ {Pick(T)})
            /\ Sum(g, T) = g[Pick(T)] + Sum(g, T \ {Pick(T)})
        BY <2>2, <3>1, SumPick
      <3> QED
        BY <1>1, <3>2
    <2> QED
      BY <2>1, <2>2
  <1> HIDE DEF G
  <1>2. SUBSET S \subseteq G
    BY <1>1, SubsetInduction
  <1> QED
    BY <1>2 DEF G

\* A multiple, element by element.
LEMMA SumProportional ==
    ASSUME NEW S, IsFiniteSet(S), NEW f, NEW g, NEW m \in Int, NEW n \in Int,
           \A x \in S : f[x] \in Int /\ g[x] \in Int /\ m * f[x] = n * g[x]
    PROVE  m * Sum(f, S) = n * Sum(g, S)
  <1> DEFINE G == {T \in SUBSET S : m * Sum(f, T) = n * Sum(g, T)}
  <1>1. ASSUME NEW T \in SUBSET S, \A x \in T : T \ {x} \in G PROVE T \in G
    <2>1. CASE T = {}
      BY <2>1, SumEmpty
    <2>2. CASE T # {}
      <3> DEFINE p == Pick(T)
                 a == Sum(f, T \ {p})
                 b == Sum(g, T \ {p})
      <3>1. IsFiniteSet(T)
        BY FS_Subset
      <3>2. p \in T /\ Sum(f, T) = f[p] + a /\ Sum(g, T) = g[p] + b
        BY <2>2, <3>1, SumPick
      <3>3. IsFiniteSet(T \ {p}) /\ T \ {p} \in SUBSET S
        BY <3>1, FS_Subset
      <3>4. a \in Int /\ b \in Int
        BY <3>3, SumInt
      <3>5. m * a = n * b
        BY <1>1, <3>2
      <3>6. f[p] \in Int /\ g[p] \in Int /\ m * f[p] = n * g[p]
        BY <3>2
      <3> HIDE DEF p, a, b
      <3>7. m * (f[p] + a) = m * f[p] + m * a /\ n * (g[p] + b) = n * g[p] + n * b
        BY <3>4, <3>6
      <3> QED
        BY <3>2, <3>5, <3>6, <3>7
    <2> QED
      BY <2>1, <2>2
  <1> HIDE DEF G
  <1>2. SUBSET S \subseteq G
    BY <1>1, SubsetInduction
  <1> QED
    BY <1>2 DEF G

\* A bound, element by element, that may be missed by c at each.
LEMMA SumBound ==
    ASSUME NEW S, IsFiniteSet(S), NEW f, NEW g, NEW m \in Int, NEW n \in Int, NEW c \in Int,
           \A x \in S : f[x] \in Int /\ g[x] \in Int /\ m * f[x] <= n * g[x] + c
    PROVE  m * Sum(f, S) <= n * Sum(g, S) + c * Cardinality(S)
  <1> DEFINE G == {T \in SUBSET S : m * Sum(f, T) <= n * Sum(g, T) + c * Cardinality(T)}
  <1>1. ASSUME NEW T \in SUBSET S, \A x \in T : T \ {x} \in G PROVE T \in G
    <2>1. CASE T = {}
      BY <2>1, SumEmpty, FS_EmptySet
    <2>2. CASE T # {}
      <3> DEFINE p == Pick(T)
                 a == Sum(f, T \ {p})
                 b == Sum(g, T \ {p})
                 k == Cardinality(T \ {p})
      <3>1. IsFiniteSet(T)
        BY FS_Subset
      <3>2. p \in T /\ Sum(f, T) = f[p] + a /\ Sum(g, T) = g[p] + b
        BY <2>2, <3>1, SumPick
      <3>3. IsFiniteSet(T \ {p}) /\ T \ {p} \in SUBSET S /\ k \in Nat /\ Cardinality(T) = k + 1
        <4>1. IsFiniteSet(T \ {p}) /\ T \ {p} \in SUBSET S
          BY <3>1, FS_Subset
        <4>2. k = Cardinality(T) - 1
          BY <3>1, <3>2, FS_RemoveElement
        <4>3. k \in Nat /\ Cardinality(T) \in Nat
          BY <3>1, <4>1, FS_CardinalityType
        <4> HIDE DEF k
        <4> QED
          BY <4>1, <4>2, <4>3
      <3>4. a \in Int /\ b \in Int
        BY <3>3, SumInt
      <3>5. m * a <= n * b + c * k
        BY <1>1, <3>2
      <3>6. f[p] \in Int /\ g[p] \in Int /\ m * f[p] <= n * g[p] + c
        BY <3>2
      <3> HIDE DEF p, a, b, k
      <3>7. /\ m * (f[p] + a) = m * f[p] + m * a /\ n * (g[p] + b) = n * g[p] + n * b
            /\ c * (k + 1) = c * k + c
            /\ m * f[p] \in Int /\ m * a \in Int /\ n * g[p] \in Int /\ n * b \in Int /\ c * k \in Int
        BY <3>3, <3>4, <3>6
      <3>8. m * f[p] + m * a <= n * g[p] + n * b + (c * k + c)
        BY <3>5, <3>6, <3>7
      <3> QED
        BY <3>2, <3>3, <3>7, <3>8
    <2> QED
      BY <2>1, <2>2
  <1> HIDE DEF G
  <1>2. SUBSET S \subseteq G
    BY <1>1, SubsetInduction
  <1> QED
    BY <1>2 DEF G

LEMMA SumUnion ==
    ASSUME NEW S, IsFiniteSet(S), NEW U, IsFiniteSet(U), S \cap U = {}, NEW f, \A x \in S \cup U : f[x] \in Int
    PROVE  Sum(f, S \cup U) = Sum(f, S) + Sum(f, U)
  <1> DEFINE G == {T \in SUBSET S : Sum(f, T \cup U) = Sum(f, T) + Sum(f, U)}
  <1>1. ASSUME NEW T \in SUBSET S, \A x \in T : T \ {x} \in G PROVE T \in G
    <2>0. Sum(f, U) \in Int
      BY SumInt
    <2>1. CASE T = {}
      <3>1. T \cup U = U
        BY <2>1
      <3> QED
        BY <2>0, <2>1, <3>1, SumEmpty
    <2>2. CASE T # {}
      <3> DEFINE p == Pick(T)
                 V == T \ {p}
      <3>1. IsFiniteSet(T)
        BY FS_Subset
      <3>2. p \in T /\ Sum(f, T) = f[p] + Sum(f, V)
        BY <2>2, <3>1, SumPick
      <3>3. IsFiniteSet(V) /\ V \in SUBSET S /\ V \in G
        BY <1>1, <3>1, <3>2, FS_Subset
      <3>4. IsFiniteSet(V \cup U)
        BY <3>3, FS_Union
      <3>5. p \notin V \cup U /\ T \cup U = (V \cup U) \cup {p} /\ (V \cup U) \cup {p} \subseteq S \cup U
        BY <3>2
      <3> HIDE DEF p, V
      <3>6. Sum(f, T \cup U) = f[p] + Sum(f, V \cup U)
        BY <3>4, <3>5, SumAdd
      <3>7. Sum(f, V) \in Int /\ f[p] \in Int
        BY <3>2, <3>3, SumInt
      <3> QED
        BY <2>0, <3>2, <3>3, <3>6, <3>7
    <2> QED
      BY <2>1, <2>2
  <1> HIDE DEF G
  <1>2. SUBSET S \subseteq G
    BY <1>1, SubsetInduction
  <1> QED
    BY <1>2 DEF G

LEMMA SumSubset ==
    ASSUME NEW S, IsFiniteSet(S), NEW U \in SUBSET S, NEW f, \A x \in S : f[x] \in Nat
    PROVE  Sum(f, U) <= Sum(f, S) /\ ((\A x \in S \ U : f[x] = 0) => Sum(f, U) = Sum(f, S))
  <1> DEFINE V == S \ U
  <1>1. IsFiniteSet(U) /\ IsFiniteSet(V) /\ U \cap V = {} /\ U \cup V = S
    BY FS_Subset
  <1> HIDE DEF V
  <1>2. Sum(f, S) = Sum(f, U) + Sum(f, V)
    BY <1>1, SumUnion
  <1>3. Sum(f, U) \in Nat /\ Sum(f, V) \in Nat
    BY <1>1, SumNat
  <1>4. (\A x \in V : f[x] = 0) => Sum(f, V) = 0
    BY <1>1, SumZero
  <1> QED
    BY <1>2, <1>3, <1>4 DEF V

\* One value changes.
LEMMA SumChange ==
    ASSUME NEW S, IsFiniteSet(S), NEW f, NEW g, NEW x \in S,
           \A y \in S : f[y] \in Int /\ g[y] \in Int, \A y \in S \ {x} : f[y] = g[y]
    PROVE  Sum(g, S) = Sum(f, S) - f[x] + g[x]
  <1> DEFINE T == S \ {x}
  <1>1. IsFiniteSet(T) /\ T \in SUBSET S
    BY FS_Subset
  <1>2. Sum(f, S) = f[x] + Sum(f, T) /\ Sum(g, S) = g[x] + Sum(g, T)
    BY SumTake
  <1>3. Sum(f, T) = Sum(g, T) /\ Sum(f, T) \in Int
    BY <1>1, SumEqual, SumInt
  <1> QED
    BY <1>2, <1>3
-----------------------------------------------------------------------------
(* And the greatest value *)

LEMMA Greatest ==
    ASSUME NEW S, IsFiniteSet(S), S # {}, NEW f, \A x \in S : f[x] \in Int
    PROVE  \E m \in S : \A x \in S : f[x] <= f[m]
  <1> DEFINE G == {T \in SUBSET S : T # {} => \E m \in T : \A x \in T : f[x] <= f[m]}
  <1>1. ASSUME NEW T \in SUBSET S, \A x \in T : T \ {x} \in G PROVE T \in G
    <2> SUFFICES ASSUME T # {} PROVE \E m \in T : \A x \in T : f[x] <= f[m]
      OBVIOUS
    <2>1. PICK y \in T : TRUE
      OBVIOUS
    <2>2. CASE T \ {y} = {}
      BY <2>1, <2>2
    <2>3. CASE T \ {y} # {}
      <3>1. PICK m \in T \ {y} : \A x \in T \ {y} : f[x] <= f[m]
        BY <1>1, <2>1, <2>3
      <3>2. f[y] \in Int /\ f[m] \in Int /\ \A x \in T : f[x] \in Int
        OBVIOUS
      <3>3. CASE f[y] <= f[m]
        BY <3>1, <3>3
      <3>4. CASE f[m] <= f[y]
        BY <3>1, <3>2, <3>4
      <3> QED
        BY <3>2, <3>3, <3>4
    <2> QED
      BY <2>2, <2>3
  <1> HIDE DEF G
  <1>2. SUBSET S \subseteq G
    BY <1>1, SubsetInduction
  <1> QED
    BY <1>2 DEF G

-----------------------------------------------------------------------------
(* Recursive functions exist *)

LEMMA CountingUp ==
    ASSUME NEW G, 0 \in G, \A n \in Nat : n \in G => n + 1 \in G
    PROVE  Nat \subseteq G
  <1> DEFINE Bad == {n \in Nat : n \notin G}
  <1>1. CASE Bad # {}
    <2>1. Bad \subseteq Nat
      OBVIOUS
    <2> HIDE DEF Bad
    <2>2. PICK n \in Bad : \A k \in Bad : ~(<<k, n>> \in OpToRel(<, Nat))
      BY <1>1, <2>1, NatLessThanWellFounded, WFMin
    <2>3. n \in Nat /\ n \notin G /\ n # 0
      BY <2>2 DEF Bad
    <2>4. n - 1 \in Nat /\ n - 1 \notin G
      BY <2>3
    <2>5. <<n - 1, n>> \in OpToRel(<, Nat)
      BY <2>3, <2>4 DEF OpToRel
    <2> QED
      BY <2>2, <2>4, <2>5 DEF Bad
  <1> QED
    BY <1>1

\* A function on 0..m, each value a step from the one before.
Steppable(V, b, G) == b \in V /\ G \in [V -> V]

Stepped(f, m, V, b, G) ==
    f \in [0..m -> V] /\ \A n \in 0..m : f[n] = IF n = 0 THEN b ELSE G[f[n - 1]]

LEMMA StepsExist ==
    ASSUME NEW V, NEW b, NEW G, Steppable(V, b, G), NEW m \in Nat
    PROVE  \E f : Stepped(f, m, V, b, G)
  <1> DEFINE Is(f, n) == Stepped(f, n, V, b, G)
             H == {n \in Nat : \E f : Is(f, n)}
  <1>0. b \in V /\ G \in [V -> V]
    BY DEF Steppable
  <1>1. 0 \in H
    <2> DEFINE f == [k \in 0..0 |-> b]
    <2>1. f \in [0..0 -> V] /\ \A k \in 0..0 : k = 0 /\ f[k] = b
      BY <1>0
    <2> HIDE DEF f
    <2>2. Is(f, 0)
      BY <2>1 DEF Stepped
    <2> QED
      BY <2>2
  <1>2. ASSUME NEW n \in Nat, n \in H PROVE n + 1 \in H
    <2>0. PICK f : Is(f, n)
      BY <1>2
    <2>1. f \in [0..n -> V] /\ \A k \in 0..n : f[k] = IF k = 0 THEN b ELSE G[f[k - 1]]
      BY <2>0 DEF Stepped
    <2> DEFINE g == [k \in 0..(n + 1) |-> IF k = n + 1 THEN G[f[n]] ELSE f[k]]
    <2>2. ASSUME NEW k \in 0..(n + 1) PROVE g[k] \in V /\ g[k] = IF k = 0 THEN b ELSE G[g[k - 1]]
      <3>1. f[n] \in V
        BY <1>2, <2>1
      <3>2. CASE k = n + 1
        <4>1. k # 0 /\ k - 1 = n /\ k - 1 \in 0..(n + 1) /\ n # n + 1
          BY <3>2
        <4>2. g[k] = G[f[n]] /\ g[k - 1] = f[n]
          BY <3>2, <4>1
        <4> HIDE DEF g
        <4> QED
          BY <1>0, <3>1, <4>1, <4>2
      <3>3. CASE k # n + 1
        <4>1. k \in 0..n
          BY <3>3
        <4>2. g[k] = f[k] /\ f[k] \in V /\ f[k] = IF k = 0 THEN b ELSE G[f[k - 1]]
          BY <2>1, <3>3, <4>1
        <4>3. k # 0 => g[k - 1] = f[k - 1]
          BY <4>1
        <4> HIDE DEF g
        <4> QED
          BY <4>2, <4>3
      <3> QED
        BY <3>2, <3>3
    <2>3. g \in [0..(n + 1) -> V]
      BY <2>2
    <2> HIDE DEF g
    <2>4. Is(g, n + 1)
      BY <2>2, <2>3 DEF Stepped
    <2>5. n + 1 \in Nat
      OBVIOUS
    <2> HIDE DEF Is
    <2> QED
      BY <2>4, <2>5
  <1>3. m \in H
    <2> HIDE DEF H
    <2> QED
      BY <1>1, <1>2, CountingUp
  <1> QED
    BY <1>3

\* What every step keeps, the last value has.
LEMMA StepsStay ==
    ASSUME NEW V, NEW m \in Nat, NEW f, f[0] \in V,
           \A n \in Nat : n < m /\ f[n] \in V => f[n + 1] \in V
    PROVE  f[m] \in V
  <1> DEFINE G == {n \in Nat : n <= m => f[n] \in V}
  <1>1. 0 \in G
    OBVIOUS
  <1>2. ASSUME NEW n \in Nat, n \in G PROVE n + 1 \in G
    <2>1. CASE n < m
      BY <1>2, <2>1
    <2>2. CASE ~(n < m)
      BY <2>2
    <2> QED BY <2>1, <2>2
  <1> HIDE DEF G
  <1>3. Nat \subseteq G
    BY <1>1, <1>2, CountingUp
  <1> QED BY <1>3 DEF G

\* A function on the subsets of S, each value a step of G in V from the subset
\* without the element that c names.
Foldable(S, V, b, c, G) ==
    /\ IsFiniteSet(S) /\ b \in V
    /\ \A s \in SUBSET S : s # {} => c[s] \in s
    /\ \A x \in S : \A v \in V : G[x][v] \in V

Folded(f, S, V, b, c, G) ==
    /\ f \in [SUBSET S -> V]
    /\ \A s \in SUBSET S : f[s] = IF s = {} THEN b ELSE G[c[s]][f[s \ {c[s]}]]

LEMMA FoldsExist ==
    ASSUME NEW S, NEW V, NEW b, NEW c, NEW G, Foldable(S, V, b, c, G)
    PROVE  \E f : Folded(f, S, V, b, c, G)
  <1>f. /\ IsFiniteSet(S) /\ b \in V
        /\ \A s \in SUBSET S : s # {} => c[s] \in s
        /\ \A x \in S : \A v \in V : G[x][v] \in V
    BY DEF Foldable
  <1> DEFINE D(n) == {s \in SUBSET S : Cardinality(s) <= n}
             Is(f, n) == /\ f \in [D(n) -> V]
                         /\ \A s \in D(n) : f[s] = IF s = {} THEN b ELSE G[c[s]][f[s \ {c[s]}]]
             H == {n \in Nat : \E f : Is(f, n)}
  <1>0. ASSUME NEW s \in SUBSET S
        PROVE  /\ IsFiniteSet(s) /\ Cardinality(s) \in Nat
               /\ s = {} <=> Cardinality(s) = 0
               /\ s # {} => /\ s \ {c[s]} \in SUBSET S
                            /\ Cardinality(s \ {c[s]}) = Cardinality(s) - 1
    <2>1. IsFiniteSet(s) /\ Cardinality(s) \in Nat
      BY <1>f, FS_Subset, FS_CardinalityType
    <2>2. s = {} <=> Cardinality(s) = 0
      BY <2>1, FS_EmptySet
    <2>3. s # {} => Cardinality(s \ {c[s]}) = Cardinality(s) - 1
      BY <1>f, <2>1, FS_RemoveElement
    <2> QED
      BY <2>1, <2>2, <2>3
  <1>1. 0 \in H
    <2> DEFINE f == [s \in D(0) |-> b]
    <2>1. \A s \in D(0) : s = {}
      <3> SUFFICES ASSUME NEW s \in D(0) PROVE s = {}
        OBVIOUS
      <3>1. s \in SUBSET S /\ Cardinality(s) <= 0
        OBVIOUS
      <3>2. Cardinality(s) \in Nat /\ (s = {} <=> Cardinality(s) = 0)
        BY <1>0, <3>1
      <3> QED
        BY <3>1, <3>2
    <2>2. f \in [D(0) -> V] /\ \A s \in D(0) : s = {} /\ f[s] = b
      BY <1>f, <2>1
    <2> HIDE DEF f, D
    <2>3. Is(f, 0)
      BY <2>2
    <2> QED
      BY <2>3
  <1>2. ASSUME NEW n \in Nat, n \in H PROVE n + 1 \in H
    <2>1. PICK f : Is(f, n)
      BY <1>2
    <2> DEFINE g == [s \in D(n + 1) |-> IF s = {} THEN b ELSE G[c[s]][f[s \ {c[s]}]]]
    <2>2. ASSUME NEW s \in D(n) PROVE s \in D(n + 1) /\ g[s] = f[s]
      <3>1. s \in SUBSET S /\ s \in D(n + 1)
        <4>1. s \in SUBSET S /\ Cardinality(s) <= n
          OBVIOUS
        <4>2. Cardinality(s) \in Nat
          BY <1>0, <4>1
        <4>3. Cardinality(s) <= n + 1
          BY <4>1, <4>2
        <4> QED
          BY <4>1, <4>3
      <3>2. g[s] = IF s = {} THEN b ELSE G[c[s]][f[s \ {c[s]}]]
        BY <3>1
      <3> HIDE DEF g, D
      <3> QED
        BY <2>1, <3>1, <3>2
    <2>3. ASSUME NEW s \in D(n + 1), s # {} PROVE s \ {c[s]} \in D(n) /\ c[s] \in S
      <3>1. s \in SUBSET S /\ Cardinality(s) <= n + 1
        OBVIOUS
      <3>2. /\ Cardinality(s) \in Nat /\ s \ {c[s]} \in SUBSET S
            /\ Cardinality(s \ {c[s]}) = Cardinality(s) - 1
        BY <1>0, <2>3, <3>1
      <3>3. Cardinality(s \ {c[s]}) <= n
        BY <3>1, <3>2
      <3>4. c[s] \in S
        BY <1>f, <2>3, <3>1
      <3> QED
        BY <3>2, <3>3, <3>4
    <2>4. ASSUME NEW s \in D(n + 1)
          PROVE  g[s] \in V /\ g[s] = IF s = {} THEN b ELSE G[c[s]][g[s \ {c[s]}]]
      <3>1. CASE s = {}
        BY <1>f, <3>1
      <3>2. CASE s # {}
        <4>1. g[s] = G[c[s]][f[s \ {c[s]}]]
          BY <3>2
        <4>2. s \ {c[s]} \in D(n) /\ c[s] \in S
          BY <2>3, <3>2
        <4> HIDE DEF g, D
        <4>3. f[s \ {c[s]}] \in V /\ g[s \ {c[s]}] = f[s \ {c[s]}]
          BY <2>1, <2>2, <4>2
        <4> QED
          BY <1>f, <3>2, <4>1, <4>2, <4>3
      <3> QED
        BY <3>1, <3>2
    <2>5. g \in [D(n + 1) -> V]
      <3>1. g = [s \in D(n + 1) |-> g[s]]
        OBVIOUS
      <3> HIDE DEF g, D
      <3> QED
        BY <2>4, <3>1
    <2> HIDE DEF g, D
    <2>6. Is(g, n + 1)
      BY <2>4, <2>5, Zenon
    <2>7. n + 1 \in Nat
      OBVIOUS
    <2> HIDE DEF Is
    <2> QED
      BY <2>6, <2>7
  <1>3. Cardinality(S) \in H
    <2> HIDE DEF H
    <2> QED
      BY <1>f, <1>1, <1>2, FS_CardinalityType, CountingUp
  <1>4. PICK f : Is(f, Cardinality(S))
    BY <1>3
  <1>5. D(Cardinality(S)) = SUBSET S
    <2>1. \A s \in SUBSET S : Cardinality(s) <= Cardinality(S)
      BY <1>f, FS_Subset
    <2> QED BY <2>1
  <1> HIDE DEF D
  <1> QED
    BY <1>4, <1>5 DEF Folded

\* Such a function has all its values in V.
LEMMA FoldsStay ==
    ASSUME NEW S, IsFiniteSet(S), NEW V, NEW f,
           \A s \in SUBSET S : (\A x \in s : f[s \ {x}] \in V) => f[s] \in V
    PROVE  f[S] \in V
  <1> DEFINE H == {T \in SUBSET S : f[T] \in V}
  <1>1. ASSUME NEW T \in SUBSET S, \A x \in T : T \ {x} \in H PROVE T \in H
    <2>1. \A x \in T : f[T \ {x}] \in V
      BY <1>1
    <2> QED BY <2>1
  <1> HIDE DEF H
  <1>2. SUBSET S \subseteq H
    BY <1>1, SubsetInduction
  <1> QED BY <1>2 DEF H

-----------------------------------------------------------------------------
(* The sum of one, and the greatest number *)

LEMMA SumSingle ==
    ASSUME NEW f, NEW x, f[x] \in Int
    PROVE  Sum(f, {x}) = f[x]
  <1>1. IsFiniteSet({x}) /\ {x} \ {x} = {}
    BY FS_Singleton
  <1>2. Sum(f, {x}) = f[x] + Sum(f, {x} \ {x})
    BY <1>1, SumTake
  <1> QED
    BY <1>1, <1>2, SumEmpty

LEMMA GreatestNumber ==
    ASSUME NEW S, IsFiniteSet(S), S # {}, S \subseteq Int
    PROVE  \E m \in S : \A x \in S : x <= m
  <1> DEFINE f == [x \in S |-> x]
  <1>1. \A x \in S : f[x] \in Int /\ f[x] = x
    OBVIOUS
  <1> HIDE DEF f
  <1>2. PICK m \in S : \A x \in S : f[x] <= f[m]
    BY <1>1, Greatest
  <1> QED
    BY <1>1, <1>2

=============================================================================
