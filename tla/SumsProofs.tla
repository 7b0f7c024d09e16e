----------------------------- MODULE SumsProofs -----------------------------
(***************************************************************************)
(* Facts about the sums that the modules take over finite sets of indices: *)
(* the sum is well defined, it does not depend on the order in which it is *)
(* taken, and what follows; and about remainders.  Induction is over sets  *)
(* of naturals and sets of sets, so that no lemma has an operator for a    *)
(* parameter.                                                              *)
(***************************************************************************)
EXTENDS Integers, FiniteSets, Functions, FiniteSetTheorems, WellFoundedInduction, TLAPS

\* A non-empty set of naturals has a least element.
LEMMA LeastNatural ==
  ASSUME NEW T \in SUBSET Nat, T # {}
  PROVE  \E m \in T : \A k \in T : m <= k
<1>1. PICK m \in T : \A k \in T : ~(<<k, m>> \in OpToRel(<, Nat))
  BY WFMin, NatLessThanWellFounded
<1>2. \A k \in T : ~(k < m)
  BY <1>1 DEF OpToRel
<1> QED BY <1>2

\* A set that holds 0 and with every natural the next one holds them all.
LEMMA AllNaturals ==
  ASSUME NEW P, 0 \in P, \A n \in Nat : n \in P => n + 1 \in P
  PROVE  \A n \in Nat : n \in P
<1> SUFFICES ASSUME Nat \ P # {} PROVE FALSE
  OBVIOUS
<1>1. PICK m \in Nat \ P : \A k \in Nat \ P : m <= k
  BY LeastNatural
<1>2. m # 0 /\ m - 1 \in Nat /\ m - 1 \in P
  BY <1>1
<1> QED BY <1>1, <1>2

\* A set of sets that holds {} and with every subset of S one that has one
\* element more holds S.
LEMMA AllSubsets ==
  ASSUME NEW S, IsFiniteSet(S), NEW Good, {} \in Good,
         \A T \in SUBSET S : \A x \in S \ T : T \in Good => T \cup {x} \in Good
  PROVE  S \in Good
<1> DEFINE P == {n \in Nat : \A T \in SUBSET S : Cardinality(T) = n => T \in Good}
<1>1. \A T \in SUBSET S : IsFiniteSet(T) /\ Cardinality(T) \in Nat
  BY FS_Subset, FS_CardinalityType
<1>2. 0 \in P
  BY <1>1, FS_EmptySet
<1>3. ASSUME NEW n \in Nat, n \in P
      PROVE  n + 1 \in P
  <2> SUFFICES ASSUME NEW T \in SUBSET S, Cardinality(T) = n + 1
               PROVE  T \in Good
    OBVIOUS
  <2>1. PICK x \in T : TRUE
    BY FS_EmptySet
  <2>2. Cardinality(T \ {x}) = n
    <3>1. IsFiniteSet(T)
      BY FS_Subset
    <3>2. Cardinality(T \ {x}) = Cardinality(T) - 1
      BY <3>1, FS_RemoveElement
    <3> QED BY <3>2
  <2>3. T \ {x} \in Good
    BY <1>3, <2>2
  <2>4. (T \ {x}) \cup {x} \in Good
    BY <2>3
  <2> QED BY <2>4
<1>4. \A n \in Nat : n \in P
  <2> HIDE DEF P
  <2> QED BY <1>2, <1>3, AllNaturals
<1> QED BY <1>1, <1>4

-----------------------------------------------------------------------------
(* The sum is well defined *)

Pick(s) == CHOOSE x \in s : TRUE

\* Function g adds up the values of f, set by set.
AddsUp(f, S, g) ==
  g = [s \in SUBSET S |-> IF s = {} THEN 0 ELSE f[Pick(s)] + g[s \ {Pick(s)}]]

LEMMA SumIsChosen ==
  ASSUME NEW f, NEW S
  PROVE  SumFunctionOnSet(f, S) = (CHOOSE g : AddsUp(f, S, g))[S]
BY DEF SumFunctionOnSet, FoldFunctionOnSet, MapThenFoldSet, AddsUp, Pick

LEMMA PickRemoved ==
  ASSUME NEW s, IsFiniteSet(s), s # {}
  PROVE  /\ Pick(s) \in s
         /\ Cardinality(s) \in Nat /\ Cardinality(s) > 0
         /\ IsFiniteSet(s \ {Pick(s)})
         /\ Cardinality(s \ {Pick(s)}) = Cardinality(s) - 1
<1>1. Pick(s) \in s
  BY DEF Pick
<1>2. Cardinality(s) \in Nat /\ Cardinality(s) # 0
  BY FS_CardinalityType, FS_EmptySet
<1> QED BY <1>1, <1>2, FS_RemoveElement

LEMMA SumExists ==
  ASSUME NEW S, IsFiniteSet(S), NEW f, \A x \in S : f[x] \in Int
  PROVE  \E g \in [SUBSET S -> Int] : AddsUp(f, S, g)
<1> DEFINE Small(n) == {s \in SUBSET S : Cardinality(s) <= n}
           Value(g, s) == IF s = {} THEN 0 ELSE f[Pick(s)] + g[s \ {Pick(s)}]
           P == {n \in Nat : \E g \in [Small(n) -> Int] :
                               \A s \in Small(n) : g[s] = Value(g, s)}
<1>1. \A s \in SUBSET S : IsFiniteSet(s) /\ Cardinality(s) \in Nat
  BY FS_Subset, FS_CardinalityType
<1>2. \A s \in SUBSET S : s # {} =>
         /\ Pick(s) \in S /\ s \ {Pick(s)} \in SUBSET S
         /\ Cardinality(s) > 0
         /\ Cardinality(s \ {Pick(s)}) = Cardinality(s) - 1
  BY <1>1, PickRemoved
<1>3. 0 \in P
  <2>1. ASSUME NEW s \in SUBSET S, Cardinality(s) <= 0 PROVE s = {}
    <3>1. Cardinality(s) \in Nat
      BY <1>1
    <3>2. Cardinality(s) = 0
      BY <2>1, <3>1
    <3> QED BY <1>1, <3>2, FS_EmptySet
  <2>2. [s \in Small(0) |-> 0] \in [Small(0) -> Int]
    OBVIOUS
  <2> QED BY <2>1, <2>2
<1>4. ASSUME NEW n \in Nat, n \in P
      PROVE  n + 1 \in P
  <2>1. PICK g \in [Small(n) -> Int] : \A s \in Small(n) : g[s] = Value(g, s)
    BY <1>4
  <2> DEFINE h == [s \in Small(n + 1) |-> Value(g, s)]
  <2>2. \A s \in Small(n + 1) : s # {} => s \ {Pick(s)} \in Small(n)
    BY <1>1, <1>2
  <2>3. h \in [Small(n + 1) -> Int]
    <3>1. ASSUME NEW s \in Small(n + 1) PROVE Value(g, s) \in Int
      BY <1>2, <2>1, <2>2
    <3> QED BY <3>1
  <2>4. \A s \in Small(n) : s \in Small(n + 1) /\ h[s] = g[s]
    BY <1>1, <2>1
  <2>5. ASSUME NEW s \in Small(n + 1) PROVE h[s] = Value(h, s)
    BY <2>2, <2>4
  <2>6. \E k \in [Small(n + 1) -> Int] : \A s \in Small(n + 1) : k[s] = Value(k, s)
    <3> HIDE DEF h, Value, Small
    <3> QED BY <2>3, <2>5
  <2> HIDE DEF h, Value, Small
  <2> QED BY <2>6
<1>5. Cardinality(S) \in Nat
  BY FS_CardinalityType
<1>6. Cardinality(S) \in P
  <2>1. \A n \in Nat : n \in P
    <3> HIDE DEF P
    <3> QED BY <1>3, <1>4, AllNaturals
  <2> QED BY <1>5, <2>1
<1>7. Small(Cardinality(S)) = SUBSET S
  BY FS_Subset
<1>8. PICK g \in [SUBSET S -> Int] : \A s \in SUBSET S : g[s] = Value(g, s)
  BY <1>6, <1>7
<1> QED BY <1>8 DEF AddsUp

\* Whatever adds up the values of f on the subsets of S is the sum.
LEMMA SumUnique ==
  ASSUME NEW S, IsFiniteSet(S), NEW f, NEW g, AddsUp(f, S, g)
  PROVE  SumFunctionOnSet(f, S) = g[S]
<1> DEFINE c == CHOOSE h : AddsUp(f, S, h)
           P == {n \in Nat : \A s \in SUBSET S : Cardinality(s) = n => c[s] = g[s]}
<1>1. AddsUp(f, S, c)
  OBVIOUS
<1>2. \A s \in SUBSET S : IsFiniteSet(s) /\ Cardinality(s) \in Nat
  BY FS_Subset, FS_CardinalityType
<1> HIDE DEF c
<1>3. 0 \in P
  <2>1. \A s \in SUBSET S : Cardinality(s) = 0 => s = {}
    BY <1>2, FS_EmptySet
  <2> QED BY <1>1, <2>1 DEF AddsUp
<1>4. ASSUME NEW n \in Nat, n \in P
      PROVE  n + 1 \in P
  <2> SUFFICES ASSUME NEW s \in SUBSET S, Cardinality(s) = n + 1
               PROVE  c[s] = g[s]
    OBVIOUS
  <2>1. s # {}
    BY FS_EmptySet
  <2>2. s \ {Pick(s)} \in SUBSET S /\ Cardinality(s \ {Pick(s)}) = n
    BY <1>2, <2>1, PickRemoved
  <2>3. c[s \ {Pick(s)}] = g[s \ {Pick(s)}]
    BY <1>4, <2>2
  <2>4. c[s] = f[Pick(s)] + c[s \ {Pick(s)}]
    BY <1>1, <2>1 DEF AddsUp
  <2>5. g[s] = f[Pick(s)] + g[s \ {Pick(s)}]
    BY <2>1 DEF AddsUp
  <2> QED BY <2>3, <2>4, <2>5
<1>5. \A n \in Nat : n \in P
  <2> HIDE DEF P
  <2> QED BY <1>3, <1>4, AllNaturals
<1>6. c[S] = g[S]
  BY <1>2, <1>5
<1> QED BY <1>6, SumIsChosen DEF c

\* What the definition says of a set: the value of the element it picks, and the
\* sum over the others.
LEMMA SumPicks ==
  ASSUME NEW S, IsFiniteSet(S), NEW f, \A x \in S : f[x] \in Int
  PROVE  /\ SumFunctionOnSet(f, S) \in Int
         /\ SumFunctionOnSet(f, {}) = 0
         /\ S # {} => SumFunctionOnSet(f, S)
                        = f[Pick(S)] + SumFunctionOnSet(f, S \ {Pick(S)})
<1>1. PICK g \in [SUBSET S -> Int] : AddsUp(f, S, g)
  BY SumExists
<1>2. ASSUME NEW T \in SUBSET S
      PROVE  SumFunctionOnSet(f, T) = g[T]
  <2> DEFINE h == [s \in SUBSET T |-> g[s]]
  <2>1. IsFiniteSet(T)
    BY FS_Subset
  <2>2. \A s \in SUBSET T : s # {} => s \ {Pick(s)} \in SUBSET T
    OBVIOUS
  <2>3. \A s \in SUBSET T :
          g[s] = IF s = {} THEN 0 ELSE f[Pick(s)] + g[s \ {Pick(s)}]
    BY <1>1 DEF AddsUp
  <2>4. h = [s \in SUBSET T |-> IF s = {} THEN 0 ELSE f[Pick(s)] + h[s \ {Pick(s)}]]
    BY <2>2, <2>3
  <2>5. AddsUp(f, T, h)
    BY <2>4 DEF AddsUp
  <2> HIDE DEF h
  <2>6. SumFunctionOnSet(f, T) = h[T]
    BY <2>1, <2>5, SumUnique
  <2> QED BY <2>6 DEF h
<1>3. S # {} => g[S] = f[Pick(S)] + g[S \ {Pick(S)}]
  BY <1>1 DEF AddsUp
<1>4. g[{}] = 0
  BY <1>1 DEF AddsUp
<1> QED BY <1>1, <1>2, <1>3, <1>4

-----------------------------------------------------------------------------
(* The sum does not depend on the order *)

LEMMA SumEmpty == \A f : SumFunctionOnSet(f, {}) = 0
<1> TAKE f
<1>1. IsFiniteSet({}) /\ \A x \in {} : f[x] \in Int
  BY FS_EmptySet
<1> QED BY <1>1, SumPicks

LEMMA SumType ==
  ASSUME NEW S, IsFiniteSet(S), NEW f, \A x \in S : f[x] \in Int
  PROVE  SumFunctionOnSet(f, S) \in Int
BY SumPicks

\* Any element can be taken out of a sum.
LEMMA SumRemove ==
  ASSUME NEW S, IsFiniteSet(S), NEW f, \A x \in S : f[x] \in Int, NEW x \in S
  PROVE  SumFunctionOnSet(f, S) = f[x] + SumFunctionOnSet(f, S \ {x})
<1> DEFINE Sum(T) == SumFunctionOnSet(f, T)
           P == {n \in Nat : \A T \in SUBSET S : Cardinality(T) = n =>
                               \A y \in T : Sum(T) = f[y] + Sum(T \ {y})}
<1>1. \A T \in SUBSET S : IsFiniteSet(T) /\ Cardinality(T) \in Nat
  BY FS_Subset, FS_CardinalityType
<1>2. \A T \in SUBSET S : Sum(T) \in Int
  BY <1>1, SumPicks
<1>3. 0 \in P
  <2>1. \A T \in SUBSET S : Cardinality(T) = 0 => T = {}
    BY <1>1, FS_EmptySet
  <2> QED BY <2>1
<1>4. ASSUME NEW n \in Nat, n \in P
      PROVE  n + 1 \in P
  <2> SUFFICES ASSUME NEW T \in SUBSET S, Cardinality(T) = n + 1, NEW y \in T
               PROVE  Sum(T) = f[y] + Sum(T \ {y})
    OBVIOUS
  <2> DEFINE z == Pick(T)
             U == T \ {z}
             V == T \ {y}
             W == (T \ {y}) \ {z}
  <2>1. z \in T /\ Cardinality(U) = n
    BY <1>1, PickRemoved
  <2>2. Sum(T) = f[z] + Sum(U)
    BY <1>1, SumPicks
  <2>3. CASE y = z
    BY <2>2, <2>3
  <2>4. CASE y # z
    <3>1. y \in U /\ z \in V /\ U \ {y} = W /\ V \ {z} = W
      BY <2>1, <2>4
    <3>2. Cardinality(V) = n
      <4>1. IsFiniteSet(T)
        BY <1>1
      <4>2. Cardinality(V) = Cardinality(T) - 1
        BY <4>1, FS_RemoveElement
      <4> QED BY <4>2
    <3>3. U \in SUBSET S /\ V \in SUBSET S /\ W \in SUBSET S
      OBVIOUS
    <3> HIDE DEF U, V, W, Sum, z
    <3>4. Sum(U) = f[y] + Sum(W)
      BY <1>4, <2>1, <3>1, <3>3
    <3>5. Sum(V) = f[z] + Sum(W)
      BY <1>4, <3>2, <3>1, <3>3
    <3>6. f[y] \in Int /\ f[z] \in Int /\ Sum(W) \in Int
      BY <1>2, <2>1, <3>3
    <3>7. f[z] + (f[y] + Sum(W)) = f[y] + (f[z] + Sum(W))
      BY <3>6
    <3>8. Sum(T) = f[y] + Sum(V)
      BY <2>2, <3>4, <3>5, <3>7
    <3> QED BY <3>8 DEF V
  <2> QED BY <2>3, <2>4
<1>5. \A n \in Nat : n \in P
  <2> HIDE DEF P
  <2> QED BY <1>3, <1>4, AllNaturals
<1> QED BY <1>1, <1>5

LEMMA SumAdd ==
  ASSUME NEW S, IsFiniteSet(S), NEW f, NEW x, x \notin S,
         \A y \in S \cup {x} : f[y] \in Int
  PROVE  SumFunctionOnSet(f, S \cup {x}) = f[x] + SumFunctionOnSet(f, S)
<1>1. IsFiniteSet(S \cup {x}) /\ (S \cup {x}) \ {x} = S
  BY FS_AddElement
<1> QED BY <1>1, SumRemove

\* The sum depends on the values at the indices only.
LEMMA SumAgrees ==
  ASSUME NEW S, IsFiniteSet(S), NEW f, NEW g,
         \A x \in S : f[x] \in Int /\ f[x] = g[x]
  PROVE  SumFunctionOnSet(f, S) = SumFunctionOnSet(g, S)
<1> DEFINE Good == {T \in SUBSET S : SumFunctionOnSet(f, T) = SumFunctionOnSet(g, T)}
<1>1. {} \in Good
  BY SumEmpty
<1>2. ASSUME NEW T \in SUBSET S, NEW x \in S \ T, T \in Good
      PROVE  T \cup {x} \in Good
  <2>1. IsFiniteSet(T)
    BY FS_Subset
  <2>2. \A y \in T \cup {x} : f[y] \in Int /\ g[y] \in Int
    OBVIOUS
  <2>3. /\ SumFunctionOnSet(f, T \cup {x}) = f[x] + SumFunctionOnSet(f, T)
        /\ SumFunctionOnSet(g, T \cup {x}) = g[x] + SumFunctionOnSet(g, T)
    BY <2>1, <2>2, SumAdd
  <2> QED BY <1>2, <2>3
<1>3. S \in Good
  <2> HIDE DEF Good
  <2> QED BY <1>1, <1>2, AllSubsets
<1> QED BY <1>3

\* A sum of values between lo and hi lies between as many times lo and hi.
LEMMA SumBounds ==
  ASSUME NEW S, IsFiniteSet(S), NEW f, NEW lo \in Int, NEW hi \in Int,
         \A x \in S : f[x] \in lo .. hi
  PROVE  /\ Cardinality(S) * lo <= SumFunctionOnSet(f, S)
         /\ SumFunctionOnSet(f, S) <= Cardinality(S) * hi
<1> DEFINE Good == {T \in SUBSET S : /\ Cardinality(T) * lo <= SumFunctionOnSet(f, T)
                                     /\ SumFunctionOnSet(f, T) <= Cardinality(T) * hi}
<1>1. {} \in Good
  <2>1. Cardinality({}) = 0
    BY FS_EmptySet
  <2> QED BY <2>1, SumEmpty
<1>2. ASSUME NEW T \in SUBSET S, NEW x \in S \ T, T \in Good
      PROVE  T \cup {x} \in Good
  <2>1. IsFiniteSet(T)
    BY FS_Subset
  <2>2. Cardinality(T \cup {x}) = Cardinality(T) + 1 /\ Cardinality(T) \in Nat
    BY <2>1, FS_AddElement, FS_CardinalityType
  <2>3. \A y \in T \cup {x} : f[y] \in Int
    OBVIOUS
  <2>4. SumFunctionOnSet(f, T \cup {x}) = f[x] + SumFunctionOnSet(f, T)
    BY <2>1, <2>3, SumAdd
  <2>5. SumFunctionOnSet(f, T) \in Int
    BY <2>1, SumType
  <2>6. ASSUME NEW n \in Nat, NEW a \in Int, NEW v \in lo .. hi,
               n * lo <= a, a <= n * hi
        PROVE  (n + 1) * lo <= v + a /\ v + a <= (n + 1) * hi
    <3>1. (n + 1) * lo = n * lo + lo /\ (n + 1) * hi = n * hi + hi
      OBVIOUS
    <3>2. n * lo \in Int /\ n * hi \in Int
      OBVIOUS
    <3> QED BY <2>6, <3>1, <3>2
  <2>7. /\ (Cardinality(T) + 1) * lo <= f[x] + SumFunctionOnSet(f, T)
        /\ f[x] + SumFunctionOnSet(f, T) <= (Cardinality(T) + 1) * hi
    BY <1>2, <2>2, <2>5, <2>6
  <2> QED BY <2>2, <2>4, <2>7
<1>3. S \in Good
  <2> HIDE DEF Good
  <2> QED BY <1>1, <1>2, AllSubsets
<1> QED BY <1>3

\* Sums of values that are not negative are not negative.
LEMMA SumNat ==
  ASSUME NEW S, IsFiniteSet(S), NEW f, \A x \in S : f[x] \in Nat
  PROVE  SumFunctionOnSet(f, S) \in Nat
<1> DEFINE Good == {T \in SUBSET S : SumFunctionOnSet(f, T) \in Nat}
<1>1. {} \in Good
  BY SumEmpty
<1>2. ASSUME NEW T \in SUBSET S, NEW x \in S \ T, T \in Good
      PROVE  T \cup {x} \in Good
  <2>1. IsFiniteSet(T)
    BY FS_Subset
  <2>2. \A y \in T \cup {x} : f[y] \in Int
    OBVIOUS
  <2>3. SumFunctionOnSet(f, T \cup {x}) = f[x] + SumFunctionOnSet(f, T)
    BY <2>1, <2>2, SumAdd
  <2> QED BY <1>2, <2>3
<1>3. S \in Good
  <2> HIDE DEF Good
  <2> QED BY <1>1, <1>2, AllSubsets
<1> QED BY <1>3

\* A sum over two sets apart is the sum of their sums.
LEMMA SumDisjoint ==
  ASSUME NEW S, IsFiniteSet(S), NEW R, IsFiniteSet(R), R \cap S = {},
         NEW f, \A x \in R \cup S : f[x] \in Int
  PROVE  SumFunctionOnSet(f, R \cup S)
           = SumFunctionOnSet(f, R) + SumFunctionOnSet(f, S)
<1> DEFINE Good == {T \in SUBSET S :
                      SumFunctionOnSet(f, R \cup T)
                        = SumFunctionOnSet(f, R) + SumFunctionOnSet(f, T)}
<1>1. {} \in Good
  <2>1. SumFunctionOnSet(f, R) \in Int /\ R \cup {} = R
    BY SumType
  <2> QED BY <2>1, SumEmpty
<1>2. ASSUME NEW T \in SUBSET S, NEW x \in S \ T, T \in Good
      PROVE  T \cup {x} \in Good
  <2>1. IsFiniteSet(T) /\ IsFiniteSet(R \cup T)
    BY FS_Subset, FS_Union
  <2>2. x \notin R \cup T /\ (R \cup T) \cup {x} = R \cup (T \cup {x})
    OBVIOUS
  <2>3. \A y \in (R \cup T) \cup {x} : f[y] \in Int
    OBVIOUS
  <2>4. SumFunctionOnSet(f, T \cup {x}) = f[x] + SumFunctionOnSet(f, T)
    BY <2>1, <2>3, SumAdd
  <2>5. SumFunctionOnSet(f, R \cup (T \cup {x})) = f[x] + SumFunctionOnSet(f, R \cup T)
    BY <2>1, <2>2, <2>3, SumAdd
  <2>6. /\ SumFunctionOnSet(f, R) \in Int /\ SumFunctionOnSet(f, T) \in Int
        /\ f[x] \in Int
    BY <2>1, SumType
  <2> QED BY <1>2, <2>4, <2>5, <2>6
<1>3. S \in Good
  <2> HIDE DEF Good
  <2> QED BY <1>1, <1>2, AllSubsets
<1> QED BY <1>3

\* The sum of the sums is the sum of the two functions' sums.
LEMMA SumOfSums ==
  ASSUME NEW S, IsFiniteSet(S), NEW f, NEW g, NEW h,
         \A x \in S : f[x] \in Int /\ g[x] \in Int /\ h[x] = f[x] + g[x]
  PROVE  SumFunctionOnSet(h, S) = SumFunctionOnSet(f, S) + SumFunctionOnSet(g, S)
<1> DEFINE Good == {T \in SUBSET S :
                      SumFunctionOnSet(h, T)
                        = SumFunctionOnSet(f, T) + SumFunctionOnSet(g, T)}
<1>1. {} \in Good
  BY SumEmpty
<1>2. ASSUME NEW T \in SUBSET S, NEW x \in S \ T, T \in Good
      PROVE  T \cup {x} \in Good
  <2>1. IsFiniteSet(T)
    BY FS_Subset
  <2>2. \A y \in T \cup {x} : f[y] \in Int /\ g[y] \in Int /\ h[y] \in Int
    OBVIOUS
  <2>3. /\ SumFunctionOnSet(f, T \cup {x}) = f[x] + SumFunctionOnSet(f, T)
        /\ SumFunctionOnSet(g, T \cup {x}) = g[x] + SumFunctionOnSet(g, T)
        /\ SumFunctionOnSet(h, T \cup {x}) = h[x] + SumFunctionOnSet(h, T)
    BY <2>1, <2>2, SumAdd
  <2>4. SumFunctionOnSet(f, T) \in Int /\ SumFunctionOnSet(g, T) \in Int
    BY <2>1, <2>2, SumType
  <2>5. ASSUME NEW a \in Int, NEW b \in Int, NEW c \in Int, NEW d \in Int
        PROVE  (a + b) + (c + d) = (a + c) + (b + d)
    OBVIOUS
  <2> QED BY <1>2, <2>2, <2>3, <2>4, <2>5
<1>3. S \in Good
  <2> HIDE DEF Good
  <2> QED BY <1>1, <1>2, AllSubsets
<1> QED BY <1>3

\* The terms of a sum may be counted by other indices.
LEMMA SumReindexed ==
  ASSUME NEW S, IsFiniteSet(S), NEW R, NEW place \in [S -> R],
         \A x, y \in S : place[x] = place[y] => x = y,
         \A r \in R : \E x \in S : place[x] = r,
         NEW f, NEW g, \A x \in S : f[x] \in Int /\ g[place[x]] = f[x]
  PROVE  SumFunctionOnSet(g, R) = SumFunctionOnSet(f, S)
<1> DEFINE Im(T) == {place[x] : x \in T}
           Good == {T \in SUBSET S : /\ IsFiniteSet(Im(T))
                                     /\ SumFunctionOnSet(g, Im(T)) = SumFunctionOnSet(f, T)}
<1>1. {} \in Good
  <2>1. Im({}) = {} /\ IsFiniteSet({})
    BY FS_EmptySet
  <2> QED BY <2>1, SumEmpty
<1>2. ASSUME NEW T \in SUBSET S, NEW x \in S \ T, T \in Good
      PROVE  T \cup {x} \in Good
  <2>1. IsFiniteSet(T)
    BY FS_Subset
  <2>2. Im(T \cup {x}) = Im(T) \cup {place[x]} /\ place[x] \notin Im(T)
    OBVIOUS
  <2>3. \A r \in Im(T) \cup {place[x]} : g[r] \in Int
    OBVIOUS
  <2>4. IsFiniteSet(Im(T \cup {x}))
    <3>1. IsFiniteSet(Im(T))
      BY <1>2
    <3> HIDE DEF Im
    <3>2. IsFiniteSet(Im(T) \cup {place[x]})
      BY <3>1, FS_AddElement
    <3> QED BY <2>2, <3>2
  <2>5. SumFunctionOnSet(f, T \cup {x}) = f[x] + SumFunctionOnSet(f, T)
    BY <2>1, SumAdd
  <2>6. SumFunctionOnSet(g, Im(T) \cup {place[x]}) = g[place[x]] + SumFunctionOnSet(g, Im(T))
    <3> HIDE DEF Im
    <3>1. IsFiniteSet(Im(T))
      BY <1>2
    <3> QED BY <2>2, <2>3, <3>1, SumAdd
  <2>7. SumFunctionOnSet(g, Im(T \cup {x})) = SumFunctionOnSet(f, T \cup {x})
    BY <1>2, <2>2, <2>5, <2>6
  <2> QED BY <2>4, <2>7
<1>3. S \in Good
  <2> HIDE DEF Good
  <2> QED BY <1>1, <1>2, AllSubsets
<1>4. Im(S) = R
  OBVIOUS
<1> QED BY <1>3, <1>4

\* The differences of neighbours add up to the difference of the ends.
LEMMA SumTelescopes ==
  ASSUME NEW n \in Nat, NEW f, NEW t,
         \A k \in 0 .. n : t[k] \in Int,
         \A k \in 0 .. n - 1 : f[k] = t[k + 1] - t[k]
  PROVE  SumFunctionOnSet(f, 0 .. n - 1) = t[n] - t[0]
<1> DEFINE P == {m \in Nat : m <= n => SumFunctionOnSet(f, 0 .. m - 1) = t[m] - t[0]}
<1>1. 0 \in P
  <2>1. 0 .. 0 - 1 = {} /\ t[0] \in Int
    OBVIOUS
  <2> QED BY <2>1, SumEmpty
<1>2. ASSUME NEW m \in Nat, m \in P
      PROVE  m + 1 \in P
  <2> SUFFICES ASSUME m + 1 <= n
               PROVE  SumFunctionOnSet(f, 0 .. (m + 1) - 1) = t[m + 1] - t[0]
    OBVIOUS
  <2>1. IsFiniteSet(0 .. m - 1)
    BY FS_Interval
  <2>2. 0 .. (m + 1) - 1 = (0 .. m - 1) \cup {m} /\ m \notin 0 .. m - 1
    OBVIOUS
  <2>3. \A k \in (0 .. m - 1) \cup {m} : f[k] = t[k + 1] - t[k] /\ f[k] \in Int
    <3>1. \A k \in (0 .. m - 1) \cup {m} : k \in 0 .. n - 1 /\ k \in 0 .. n /\ k + 1 \in 0 .. n
      OBVIOUS
    <3> QED BY <3>1
  <2>4. SumFunctionOnSet(f, (0 .. m - 1) \cup {m}) = f[m] + SumFunctionOnSet(f, 0 .. m - 1)
    BY <2>1, <2>2, <2>3, SumAdd
  <2>5. SumFunctionOnSet(f, 0 .. m - 1) = t[m] - t[0]
    BY <1>2
  <2>6. t[0] \in Int /\ t[m] \in Int /\ t[m + 1] \in Int /\ f[m] = t[m + 1] - t[m]
    BY <2>3
  <2>7. f[m] + (t[m] - t[0]) = t[m + 1] - t[0]
    BY <2>6
  <2> DEFINE u == 0 .. m - 1
             v == 0 .. (m + 1) - 1
  <2>8. SumFunctionOnSet(f, v) = f[m] + SumFunctionOnSet(f, u)
    <3> HIDE DEF u, v
    <3> QED BY <2>2, <2>4 DEF u, v
  <2> QED BY <2>5, <2>7, <2>8
<1>3. \A m \in Nat : m \in P
  <2> HIDE DEF P
  <2> QED BY <1>1, <1>2, AllNaturals
<1> QED BY <1>3

\* Terms may be taken two by two.
LEMMA SumByPairs ==
  ASSUME NEW n \in Nat, NEW f, NEW g,
         \A i \in 0 .. (2 * n) - 1 : f[i] \in Int,
         \A k \in 0 .. n - 1 : g[k] = f[2 * k] + f[(2 * k) + 1]
  PROVE  SumFunctionOnSet(f, 0 .. (2 * n) - 1) = SumFunctionOnSet(g, 0 .. n - 1)
<1> DEFINE U(m) == 0 .. (2 * m) - 1
           V(m) == 0 .. m - 1
           P == {m \in Nat : m <= n => SumFunctionOnSet(f, U(m)) = SumFunctionOnSet(g, V(m))}
<1>1. 0 \in P
  <2>1. U(0) = {} /\ V(0) = {}
    OBVIOUS
  <2> HIDE DEF U, V
  <2> QED BY <2>1, SumEmpty
<1>2. ASSUME NEW m \in Nat, m \in P
      PROVE  m + 1 \in P
  <2> SUFFICES ASSUME m + 1 <= n
               PROVE  SumFunctionOnSet(f, U(m + 1)) = SumFunctionOnSet(g, V(m + 1))
    OBVIOUS
  <2> DEFINE a == 2 * m
             b == (2 * m) + 1
             T == U(m) \cup {a}
  <2>1. IsFiniteSet(U(m)) /\ IsFiniteSet(V(m)) /\ IsFiniteSet(T)
    <3>1. IsFiniteSet(U(m)) /\ IsFiniteSet(V(m))
      BY FS_Interval
    <3> QED BY <3>1, FS_AddElement
  <2>2. /\ U(m + 1) = T \cup {b} /\ V(m + 1) = V(m) \cup {m}
        /\ a \notin U(m) /\ b \notin T /\ m \notin V(m)
    OBVIOUS
  <2>3. /\ \A i \in T \cup {b} : f[i] \in Int
        /\ g[m] = f[a] + f[b]
        /\ \A k \in V(m) \cup {m} : g[k] \in Int
    <3>1. \A i \in T \cup {b} : i \in 0 .. (2 * n) - 1
      OBVIOUS
    <3>2. \A k \in V(m) \cup {m} :
            /\ k \in 0 .. n - 1 /\ 2 * k \in 0 .. (2 * n) - 1
            /\ (2 * k) + 1 \in 0 .. (2 * n) - 1
      OBVIOUS
    <3> QED BY <3>1, <3>2
  <2>4. SumFunctionOnSet(f, U(m)) = SumFunctionOnSet(g, V(m))
    BY <1>2
  <2> HIDE DEF U, V
  <2>5. SumFunctionOnSet(f, T) = f[a] + SumFunctionOnSet(f, U(m))
    <3> HIDE DEF a, b
    <3> QED BY <2>1, <2>2, <2>3, SumAdd
  <2>6. SumFunctionOnSet(f, T \cup {b}) = f[b] + SumFunctionOnSet(f, T)
    <3> HIDE DEF a, b, T
    <3> QED BY <2>1, <2>2, <2>3, SumAdd
  <2>7. SumFunctionOnSet(g, V(m) \cup {m}) = g[m] + SumFunctionOnSet(g, V(m))
    <3> HIDE DEF a, b, T
    <3> QED BY <2>1, <2>2, <2>3, SumAdd
  <2>8. SumFunctionOnSet(f, U(m)) \in Int /\ f[a] \in Int /\ f[b] \in Int
    <3> HIDE DEF a, b
    <3>1. f[a] \in Int /\ f[b] \in Int
      BY <2>3
    <3> QED BY <2>1, <2>3, <3>1, SumType
  <2>9. SumFunctionOnSet(f, T \cup {b}) = SumFunctionOnSet(g, V(m) \cup {m})
    <3> HIDE DEF a, b, T
    <3> QED BY <2>3, <2>4, <2>5, <2>6, <2>7, <2>8
  <2> HIDE DEF a, b, T
  <2> QED BY <2>2, <2>9
<1>3. \A m \in Nat : m \in P
  <2> HIDE DEF P
  <2> QED BY <1>1, <1>2, AllNaturals
<1> QED BY <1>3

-----------------------------------------------------------------------------
(* Ranks *)

Rank(S, m) == Cardinality({j \in S : j < m})

\* A finite set of numbers has an element of every rank below its size.
LEMMA RankExists ==
  ASSUME NEW S \in SUBSET Nat, IsFiniteSet(S), NEW k \in 0 .. Cardinality(S) - 1
  PROVE  \E m \in S : Rank(S, m) = k
<1> DEFINE n == Cardinality(S)
           Below(i) == {j \in S : j < i}
           rank == [i \in S |-> Cardinality(Below(i))]
<1>1. n \in Nat
  BY FS_CardinalityType
<1>2. ASSUME NEW i \in S
      PROVE  IsFiniteSet(Below(i)) /\ Cardinality(Below(i)) \in 0 .. n - 1
  <2>1. Below(i) \in SUBSET S /\ Below(i) # S
    OBVIOUS
  <2>2. /\ IsFiniteSet(Below(i)) /\ Cardinality(Below(i)) <= n
        /\ Cardinality(Below(i)) # n
    BY <2>1, FS_Subset
  <2>3. Cardinality(Below(i)) \in Nat
    BY <2>2, FS_CardinalityType
  <2> QED BY <1>1, <2>2, <2>3
<1>3. ASSUME NEW i \in S, NEW j \in S, i < j
      PROVE  rank[i] # rank[j]
  <2>1. Below(i) \in SUBSET Below(j) /\ i \in Below(j) /\ i \notin Below(i)
    <3>1. \A m \in S : m \in Int
      OBVIOUS
    <3>2. \A m \in S : m < i => m < j
      BY <1>3, <3>1
    <3>3. Below(i) \subseteq Below(j)
      BY <3>2
    <3> QED BY <1>3, <3>1, <3>3
  <2>2. IsFiniteSet(Below(j)) /\ Below(i) # Below(j)
    BY <1>2, <2>1
  <2> QED BY <2>1, <2>2, FS_Subset
<1>4. rank \in Injection(S, 0 .. n - 1)
  <2>1. rank \in [S -> 0 .. n - 1]
    BY <1>2
  <2>2. ASSUME NEW i \in S, NEW j \in S, rank[i] = rank[j]
        PROVE  i = j
    <3>1. i < j \/ j < i \/ i = j
      OBVIOUS
    <3> QED BY <1>3, <2>2, <3>1
  <2> QED BY <2>1, <2>2 DEF Injection, IsInjective
<1>5. IsFiniteSet(0 .. n - 1) /\ Cardinality(0 .. n - 1) = n
  <2>1. 0 \in Int /\ n - 1 \in Int
    BY <1>1
  <2> QED BY <1>1, <2>1, FS_Interval
<1>6. rank \in Surjection(S, 0 .. n - 1)
  BY <1>4, <1>5, FS_Injection
<1> QED BY <1>6 DEF Surjection, Rank

\* An element of lower rank is less.
LEMMA RanksAscend ==
  ASSUME NEW S \in SUBSET Nat, IsFiniteSet(S), NEW a \in S, NEW b \in S,
         Rank(S, a) < Rank(S, b)
  PROVE  a < b
<1>1. a \in Nat /\ b \in Nat
  OBVIOUS
<1> SUFFICES ASSUME b <= a PROVE FALSE
  BY <1>1
<1>2. {j \in S : j < b} \in SUBSET {j \in S : j < a}
  <2>1. \A j \in S : j \in Nat
    OBVIOUS
  <2>2. \A j \in S : j < b => j < a
    BY <1>1, <2>1
  <2> QED BY <2>2
<1>3. {j \in S : j < a} \in SUBSET S
  OBVIOUS
<1>4. IsFiniteSet({j \in S : j < a}) /\ IsFiniteSet({j \in S : j < b})
  BY <1>2, <1>3, FS_Subset
<1>5. /\ Cardinality({j \in S : j < b}) <= Cardinality({j \in S : j < a})
      /\ Cardinality({j \in S : j < a}) \in Nat /\ Cardinality({j \in S : j < b}) \in Nat
  BY <1>2, <1>4, FS_Subset, FS_CardinalityType
<1> QED BY <1>5 DEF Rank

-----------------------------------------------------------------------------
(* Remainders *)

LEMMA DivMod ==
  ASSUME NEW a \in Int, NEW w \in Nat \ {0}
  PROVE  /\ a \div w \in Int /\ a % w \in 0 .. w - 1
         /\ a = w * (a \div w) + (a % w)
  OBVIOUS

LEMMA ModUnique ==
  ASSUME NEW w \in Nat \ {0}, NEW q \in Int, NEW r \in 0 .. w - 1
  PROVE  (w * q + r) % w = r
<1> DEFINE a == w * q + r
<1>1. a \in Int
  OBVIOUS
<1>2. PICK p \in Int, s \in 0 .. w - 1 : a = w * p + s /\ s = a % w
  BY <1>1, DivMod
<1> HIDE DEF a
<1>3. w * (p - q) = r - s
  BY <1>2 DEF a
<1>4. p - q = 0
  <2>1. CASE p - q >= 1
    <3>1. w * (p - q) >= w
      BY <2>1
    <3> QED BY <3>1, <1>3
  <2>2. CASE p - q <= -1
    <3>1. w * (p - q) <= -w
      BY <2>2
    <3> QED BY <3>1, <1>3
  <2> QED BY <2>1, <2>2
<1> QED BY <1>2, <1>3, <1>4 DEF a

-----------------------------------------------------------------------------
(* Pairs *)

\* The pairs of a member of S and a member of its set.
PairsOver(S, R) == {x \in S \X Nat : x[2] \in R[x[1]]}

LEMMA PairsOfOne ==
  ASSUME NEW s, NEW R, R[s] \in SUBSET Nat, IsFiniteSet(R[s])
  PROVE  IsFiniteSet(PairsOver({s}, R)) /\ Cardinality(PairsOver({s}, R)) = Cardinality(R[s])
<1> DEFINE f == [k \in R[s] |-> <<s, k>>]
<1>1. \A k \in R[s] : <<s, k>> \in PairsOver({s}, R)
  BY DEF PairsOver
<1>2. \A x \in PairsOver({s}, R) : x[2] \in R[s] /\ x = <<s, x[2]>>
  BY DEF PairsOver
<1>3. f \in [R[s] -> PairsOver({s}, R)]
  BY <1>1
<1>4. \A k, l \in R[s] : f[k] = f[l] => k = l
  OBVIOUS
<1>5. \A x \in PairsOver({s}, R) : \E k \in R[s] : f[k] = x
  BY <1>2
<1> HIDE DEF f
<1>6. f \in Bijection(R[s], PairsOver({s}, R))
  <2>1. f \in Injection(R[s], PairsOver({s}, R))
    BY <1>3, <1>4 DEF Injection, IsInjective
  <2>2. f \in Surjection(R[s], PairsOver({s}, R))
    BY <1>3, <1>5 DEF Surjection
  <2> QED BY <2>1, <2>2 DEF Bijection
<1>7. ExistsBijection(R[s], PairsOver({s}, R))
  BY <1>6 DEF ExistsBijection
<1> QED BY <1>7, FS_Bijection

\* There are as many pairs as the sets have members.
LEMMA SumOfPairs ==
  ASSUME NEW S, IsFiniteSet(S), NEW R, \A s \in S : R[s] \in SUBSET Nat /\ IsFiniteSet(R[s]),
         NEW f, \A s \in S : f[s] = Cardinality(R[s])
  PROVE  IsFiniteSet(PairsOver(S, R)) /\ Cardinality(PairsOver(S, R)) = SumFunctionOnSet(f, S)
<1> DEFINE Good == {T \in SUBSET S : /\ IsFiniteSet(PairsOver(T, R))
                                     /\ Cardinality(PairsOver(T, R)) = SumFunctionOnSet(f, T)}
<1>1. {} \in Good
  <2>1. PairsOver({}, R) = {}
    BY DEF PairsOver
  <2> QED BY <2>1, SumEmpty, FS_EmptySet
<1>2. ASSUME NEW T \in SUBSET S, NEW s \in S \ T, T \in Good
      PROVE  T \cup {s} \in Good
  <2>1. IsFiniteSet(T)
    BY FS_Subset
  <2>2. \A t \in T \cup {s} : f[t] \in Int
    BY FS_CardinalityType
  <2>3. SumFunctionOnSet(f, T \cup {s}) = f[s] + SumFunctionOnSet(f, T)
    BY <2>1, <2>2, SumAdd
  <2>4. IsFiniteSet(PairsOver({s}, R)) /\ Cardinality(PairsOver({s}, R)) = f[s]
    BY PairsOfOne
  <2>5. PairsOver(T \cup {s}, R) = PairsOver({s}, R) \cup PairsOver(T, R)
    BY DEF PairsOver
  <2>6. PairsOver({s}, R) \cap PairsOver(T, R) = {}
    BY DEF PairsOver
  <2>7. Cardinality(PairsOver({s}, R) \cap PairsOver(T, R)) = 0
    BY <2>6, FS_EmptySet
  <2>8. IsFiniteSet(PairsOver(T, R)) /\ Cardinality(PairsOver(T, R)) = SumFunctionOnSet(f, T)
    BY <1>2
  <2>9. /\ IsFiniteSet(PairsOver({s}, R) \cup PairsOver(T, R))
        /\ Cardinality(PairsOver({s}, R) \cup PairsOver(T, R))
             = f[s] + SumFunctionOnSet(f, T) - 0
    BY <2>4, <2>7, <2>8, FS_Union
  <2>10. f[s] + SumFunctionOnSet(f, T) - 0 = f[s] + SumFunctionOnSet(f, T)
    BY <2>2, <2>8, FS_CardinalityType
  <2> QED BY <2>3, <2>5, <2>9, <2>10
<1>3. \A T \in SUBSET S : \A s \in S \ T : T \in Good => T \cup {s} \in Good
  BY <1>2
<1> HIDE DEF Good
<1>4. S \in Good
  BY <1>1, <1>3, AllSubsets
<1> QED BY <1>4 DEF Good
=============================================================================
