------------------------------ MODULE Numbers ------------------------------
(***************************************************************************)
(* Facts about numbers that the other proofs share: least and greatest     *)
(* elements, sums, and percentages.                                        *)
(*                                                                         *)
(* A claim about every set or number is proved from its least              *)
(* counterexample: that a least one exists follows from the theorems on    *)
(* well-founded relations, for which no induction rule need be             *)
(* instantiated.  A sum is a recursive function on the subsets of a finite *)
(* set; that there is one, and only one, is proved first.                  *)
(***************************************************************************)
EXTENDS FiniteSetTheorems, TLAPS

\* A set of numbers has a least one: the least counterexample stands for the
\* induction that the proofs below need.
LEMMA LeastNumber ==
  ASSUME NEW T \in SUBSET Nat, T # {}
  PROVE  \E x \in T : \A y \in T : x <= y
  <1> DEFINE R == OpToRel(<, Nat)
  <1>1. IsWellFoundedOn(R, Nat)
    BY NatLessThanWellFounded
  <1>2. \A x, y \in Nat : <<x, y>> \in R <=> x < y
    BY DEF OpToRel
  <1> HIDE DEF R
  <1>3. PICK x \in T : \A y \in T : ~ (<<y, x>> \in R)
    BY <1>1, WFMin
  <1>4. ASSUME NEW y \in T
        PROVE  x <= y
    <2>1. x \in Nat /\ y \in Nat
      OBVIOUS
    <2>2. ~ (<<y, x>> \in R)
      BY <1>3
    <2>3. ~ (y < x)
      BY <1>2, <2>1, <2>2
    <2>4. QED  BY <2>1, <2>3
  <1>5. QED  BY <1>4

\* Finitely many lengths have a greatest one.
LEMMA LengthsAreBounded ==
  ASSUME NEW N \in Nat, NEW f \in [1 .. N -> Nat]
  PROVE  \E b \in Nat : \A u \in 1 .. N : f[u] <= b
  <1> DEFINE Bounded(k) == \E b \in Nat : \A u \in 1 .. k : f[u] <= b
             Bad        == {k \in Nat : k <= N /\ ~Bounded(k)}
  <1>1. Bad \in SUBSET Nat
    OBVIOUS
  <1>2. ASSUME NEW m \in Nat, m <= N, m # 0, Bounded(m - 1)
        PROVE  Bounded(m)
    <2>1. PICK b \in Nat : \A u \in 1 .. m - 1 : f[u] <= b
      BY <1>2
    <2>2. f[m] \in Nat
      BY <1>2
    <2>3. PICK c \in Nat : b <= c /\ f[m] <= c
      <3>1. CASE f[m] <= b
        BY <3>1
      <3>2. CASE ~(f[m] <= b)
        BY <2>2, <3>2
      <3>3. QED  BY <3>1, <3>2
    <2>4. ASSUME NEW u \in 1 .. m
          PROVE  f[u] <= c
      <3>1. CASE u = m
        BY <2>3, <3>1
      <3>2. CASE u # m
        <4>1. u \in 1 .. m - 1 /\ u \in 1 .. N
          BY <1>2, <3>2
        <4>2. f[u] <= b /\ f[u] \in Nat
          BY <2>1, <4>1
        <4>3. QED  BY <2>3, <4>2
      <3>3. QED  BY <3>1, <3>2
    <2>5. QED  BY <2>4
  <1>3. Bounded(0)
    <2>1. 0 \in Nat /\ \A u \in 1 .. 0 : f[u] <= 0
      OBVIOUS
    <2>2. QED  BY <2>1
  <1>4. Bounded(N)
    <2> SUFFICES ASSUME ~Bounded(N)
                 PROVE  FALSE
      OBVIOUS
    <2> HIDE DEF Bounded
    <2>1. Bad # {}
      OBVIOUS
    <2>2. PICK m \in Bad : \A k \in Bad : m <= k
      <3> HIDE DEF Bad
      <3>1. QED  BY <1>1, <2>1, LeastNumber
    <2>3. m \in Nat /\ m <= N /\ m # 0 /\ ~Bounded(m)
      BY <1>3
    <2>4. m - 1 \in Nat /\ m - 1 <= N /\ ~(m <= m - 1)
      BY <2>3
    <2>5. Bounded(m - 1)
      BY <2>2, <2>4
    <2>6. QED  BY <1>2, <2>3, <2>5
  <1>5. QED  BY <1>4

\* A bounded set of numbers has a greatest one.
LEMMA GreatestNumber ==
  ASSUME NEW T \in SUBSET Nat, T # {}, NEW b \in Nat, \A x \in T : x <= b
  PROVE  \E x \in T : \A y \in T : y <= x
  <1> DEFINE Bounds == {c \in Nat : \A x \in T : x <= c}
  <1>1. PICK c \in Bounds : \A d \in Bounds : c <= d
    BY LeastNumber
  <1>2. c \in Nat /\ \A x \in T : x <= c
    BY <1>1
  <1>3. c \in T
    <2> SUFFICES ASSUME c \notin T
                 PROVE  FALSE
      OBVIOUS
    <2>1. \A x \in T : x \in Nat /\ x <= c /\ x # c
      BY <1>2
    <2>2. PICK x \in T : TRUE
      OBVIOUS
    <2>3. c - 1 \in Nat /\ \A y \in T : y <= c - 1
      BY <1>2, <2>1, <2>2
    <2>4. c <= c - 1
      BY <1>1, <2>3
    <2>5. QED  BY <1>2, <2>4
  <1>4. QED  BY <1>2, <1>3

-----------------------------------------------------------------------------
(* Sums *)

Picked(T) == CHOOSE x \in T : TRUE

SumStep(f, g, T) == IF T = {} THEN 0 ELSE f[Picked(T)] + g[T \ {Picked(T)}]

\* SumFunctionOnSet(f, S0) of the community modules, once its folds are expanded.
SumOn(f, S0)   == CHOOSE g : g = [T \in SUBSET S0 |-> SumStep(f, g, T)]
SumOver(f, S0) == SumOn(f, S0)[S0]

\* What a set without the element picked from it is.
LEMMA PickedIsRemoved ==
  ASSUME NEW T, IsFiniteSet(T), T # {}
  PROVE  /\ Picked(T) \in T /\ T \ {Picked(T)} \subseteq T
         /\ Cardinality(T) \in Nat \ {0} /\ Cardinality(T \ {Picked(T)}) = Cardinality(T) - 1
  <1>1. Picked(T) \in T
    BY DEF Picked
  <1>2. Cardinality(T \ {Picked(T)}) = Cardinality(T) - 1
    BY <1>1, FS_RemoveElement
  <1>3. Cardinality(T) \in Nat \ {0}
    BY FS_CardinalityType, FS_EmptySet
  <1>4. QED  BY <1>1, <1>2, <1>3

\* A function on the subsets of S that adds up what f gives their elements.
LEMMA SumExists ==
  ASSUME NEW S0, IsFiniteSet(S0), NEW f, \A x \in S0 : f[x] \in Nat
  PROVE  \E g \in [SUBSET S0 -> Nat] : \A T \in SUBSET S0 : g[T] = SumStep(f, g, T)
  <1> DEFINE Small(n) == {T \in SUBSET S0 : Cardinality(T) <= n}
             Has(n)   == \E g \in [Small(n) -> Nat] : \A T \in Small(n) : g[T] = SumStep(f, g, T)
             Bad      == {n \in Nat : ~Has(n)}
  <1>1. \A T \in SUBSET S0 : IsFiniteSet(T) /\ Cardinality(T) \in Nat
    BY FS_Subset, FS_CardinalityType
  <1>2. Has(0)
    <2>1. \A T \in Small(0) : T = {}
      BY <1>1, FS_EmptySet
    <2> DEFINE g == [T \in Small(0) |-> 0]
    <2>2. g \in [Small(0) -> Nat] /\ \A T \in Small(0) : g[T] = SumStep(f, g, T)
      BY <2>1 DEF SumStep
    <2>3. QED  BY <2>2
  <1>3. ASSUME NEW m \in Nat, m # 0, Has(m - 1)
        PROVE  Has(m)
    <2>1. PICK g \in [Small(m - 1) -> Nat] : \A T \in Small(m - 1) : g[T] = SumStep(f, g, T)
      BY <1>3
    <2> DEFINE h == [T \in Small(m) |-> SumStep(f, g, T)]
    <2>2. \A T \in Small(m) : T # {} => T \ {Picked(T)} \in Small(m - 1) /\ f[Picked(T)] \in Nat
      BY <1>1, PickedIsRemoved
    <2>3. h \in [Small(m) -> Nat]
      BY <2>2 DEF SumStep
    <2>4. \A T \in Small(m - 1) : T \in Small(m) /\ h[T] = g[T]
      <3>1. \A T \in Small(m - 1) : T \in Small(m)
        BY <1>1
      <3>2. QED  BY <2>1, <3>1
    <2>5. \A T \in Small(m) : h[T] = SumStep(f, h, T)
      BY <2>2, <2>4 DEF SumStep
    <2>6. QED  BY <2>3, <2>5
  <1>4. Cardinality(S0) \in Nat /\ Small(Cardinality(S0)) = SUBSET S0
    BY <1>1, FS_Subset
  <1>5. Has(Cardinality(S0))
    <2> SUFFICES ASSUME ~Has(Cardinality(S0))
                 PROVE  FALSE
      OBVIOUS
    <2> HIDE DEF Has
    <2>1. Bad # {} /\ Bad \in SUBSET Nat
      BY <1>4
    <2>2. PICK m \in Bad : \A k \in Bad : m <= k
      <3> HIDE DEF Bad
      <3>1. QED  BY <2>1, LeastNumber
    <2>3. m \in Nat /\ m # 0 /\ ~Has(m)
      BY <1>2
    <2>4. m - 1 \in Nat /\ ~(m <= m - 1)
      BY <2>3
    <2>5. Has(m - 1)
      BY <2>2, <2>4
    <2>6. QED  BY <1>3, <2>3, <2>5
  <1> HIDE DEF Small
  <1>6. QED  BY <1>4, <1>5

\* Only one function does.
LEMMA SumIsUnique ==
  ASSUME NEW S0, IsFiniteSet(S0), NEW f, NEW g, NEW h,
         \A T \in SUBSET S0 : g[T] = SumStep(f, g, T),
         \A T \in SUBSET S0 : h[T] = SumStep(f, h, T)
  PROVE  \A T \in SUBSET S0 : g[T] = h[T]
  <1> DEFINE Bad == {n \in Nat : \E T \in SUBSET S0 : Cardinality(T) = n /\ g[T] # h[T]}
  <1>1. \A T \in SUBSET S0 : IsFiniteSet(T) /\ Cardinality(T) \in Nat
    BY FS_Subset, FS_CardinalityType
  <1>2. Bad = {}
    <2> SUFFICES ASSUME Bad # {}
                 PROVE  FALSE
      OBVIOUS
    <2>1. Bad \in SUBSET Nat
      OBVIOUS
    <2>2. PICK m \in Bad : \A k \in Bad : m <= k
      <3> HIDE DEF Bad
      <3>1. QED  BY <2>1, LeastNumber
    <2>3. PICK T \in SUBSET S0 : Cardinality(T) = m /\ g[T] # h[T]
      OBVIOUS
    <2>4. T # {}
      BY <2>3 DEF SumStep
    <2> DEFINE U == T \ {Picked(T)}
    <2>5. U \in SUBSET S0 /\ Cardinality(U) = m - 1 /\ m \in Nat \ {0}
      BY <1>1, <2>3, <2>4, PickedIsRemoved
    <2>6. m - 1 \in Nat /\ ~(m <= m - 1)
      BY <2>5
    <2>7. g[U] = h[U]
      BY <2>2, <2>5, <2>6
    <2>8. g[T] = f[Picked(T)] + g[U] /\ h[T] = f[Picked(T)] + h[U]
      BY <2>4 DEF SumStep
    <2>9. QED  BY <2>3, <2>7, <2>8
  <1>3. QED  BY <1>1, <1>2

\* A sum adds what is picked to the sum of the rest.
LEMMA SumPicks ==
  ASSUME NEW S0, IsFiniteSet(S0), NEW f, \A x \in S0 : f[x] \in Nat
  PROVE  SumOver(f, S0) = IF S0 = {} THEN 0
                          ELSE f[Picked(S0)] + SumOver(f, S0 \ {Picked(S0)})
  <1>1. ASSUME NEW V \in SUBSET S0
        PROVE  \A T \in SUBSET V : SumOn(f, V)[T] = SumStep(f, SumOn(f, V), T)
    <2>1. IsFiniteSet(V) /\ \A x \in V : f[x] \in Nat
      BY FS_Subset
    <2>2. PICK g \in [SUBSET V -> Nat] : \A T \in SUBSET V : g[T] = SumStep(f, g, T)
      BY <2>1, SumExists
    <2>3. g = [T \in SUBSET V |-> SumStep(f, g, T)]
      BY <2>2
    <2>4. SumOn(f, V) = [T \in SUBSET V |-> SumStep(f, SumOn(f, V), T)]
      BY <2>3 DEF SumOn
    <2> DEFINE h == SumOn(f, V)
    <2>5. h = [T \in SUBSET V |-> SumStep(f, h, T)]
      BY <2>4
    <2> HIDE DEF h
    <2>6. \A T \in SUBSET V : h[T] = SumStep(f, h, T)
      BY <2>5
    <2>7. QED  BY <2>6 DEF h
  <1>2. CASE S0 = {}
    BY <1>1, <1>2 DEF SumOver, SumStep
  <1>3. CASE S0 # {}
    <2> DEFINE U == S0 \ {Picked(S0)}
    <2>1. U \in SUBSET S0 /\ IsFiniteSet(U)
      BY FS_Subset
    <2>2. SumOn(f, S0)[S0] = f[Picked(S0)] + SumOn(f, S0)[U]
      BY <1>1, <1>3 DEF SumStep
    <2> HIDE DEF U
    <2>3. /\ \A T \in SUBSET U : SumOn(f, S0)[T] = SumStep(f, SumOn(f, S0), T)
          /\ \A T \in SUBSET U : SumOn(f, U)[T] = SumStep(f, SumOn(f, U), T)
      BY <1>1, <2>1
    <2>4. SumOn(f, S0)[U] = SumOn(f, U)[U]
      <3> DEFINE g == SumOn(f, S0)
                 h == SumOn(f, U)
      <3>1. /\ \A T \in SUBSET U : g[T] = SumStep(f, g, T)
            /\ \A T \in SUBSET U : h[T] = SumStep(f, h, T)
        BY <2>3
      <3> HIDE DEF g, h
      <3>2. \A T \in SUBSET U : g[T] = h[T]
        BY <2>1, <3>1, SumIsUnique
      <3>3. g[U] = h[U]
        BY <3>2
      <3>4. QED  BY <3>3 DEF g, h
    <2>5. SumOver(f, S0) = f[Picked(S0)] + SumOver(f, U)
      BY <2>2, <2>4 DEF SumOver
    <2>6. QED  BY <1>3, <2>5 DEF U
  <1>4. QED  BY <1>2, <1>3

\* A sum of numbers is a number, and any element may be taken out of it.
LEMMA SumRemoves ==
  ASSUME NEW S0, IsFiniteSet(S0), NEW f, \A x \in S0 : f[x] \in Nat
  PROVE  \A T \in SUBSET S0 :
            /\ SumOver(f, T) \in Nat
            /\ \A y \in T : SumOver(f, T) = f[y] + SumOver(f, T \ {y})
  <1> DEFINE Good(T) == /\ SumOver(f, T) \in Nat
                        /\ \A y \in T : SumOver(f, T) = f[y] + SumOver(f, T \ {y})
             Bad     == {n \in Nat : \E T \in SUBSET S0 : Cardinality(T) = n /\ ~Good(T)}
  <1>1. \A T \in SUBSET S0 : IsFiniteSet(T) /\ Cardinality(T) \in Nat
    BY FS_Subset, FS_CardinalityType
  <1>2. \A T \in SUBSET S0 :
           SumOver(f, T) = IF T = {} THEN 0 ELSE f[Picked(T)] + SumOver(f, T \ {Picked(T)})
    BY <1>1, SumPicks
  <1>3. Bad = {}
    <2> SUFFICES ASSUME Bad # {}
                 PROVE  FALSE
      OBVIOUS
    <2>1. Bad \in SUBSET Nat
      OBVIOUS
    <2>2. PICK m \in Bad : \A k \in Bad : m <= k
      <3> HIDE DEF Bad
      <3>1. QED  BY <2>1, LeastNumber
    <2>3. PICK T \in SUBSET S0 : Cardinality(T) = m /\ ~Good(T)
      OBVIOUS
    <2>4. \A V \in SUBSET S0 : Cardinality(V) = m - 1 => Good(V)
      <3> SUFFICES ASSUME NEW V \in SUBSET S0, Cardinality(V) = m - 1, ~Good(V)
                   PROVE  FALSE
        OBVIOUS
      <3>1. m - 1 \in Nat /\ m \in Nat
        BY <1>1, <2>1
      <3>2. m - 1 \in Bad
        BY <3>1
      <3>3. m <= m - 1
        BY <2>2, <3>2
      <3>4. QED  BY <3>1, <3>3
    <2> DEFINE x == Picked(T)
               U == T \ {x}
    <2>5. T # {}
      <3>1. SumOver(f, {}) = 0
        BY <1>2
      <3>2. QED  BY <2>3, <3>1
    <2>6. U \in SUBSET S0 /\ x \in T /\ Cardinality(U) = m - 1 /\ IsFiniteSet(T)
      BY <1>1, <2>3, <2>5, PickedIsRemoved
    <2>7. SumOver(f, T) = f[x] + SumOver(f, U) /\ Good(U)
      BY <1>2, <2>4, <2>5, <2>6
    <2>8. SumOver(f, T) \in Nat
      BY <2>6, <2>7
    <2>9. ASSUME NEW y \in T, y # x
          PROVE  SumOver(f, T) = f[y] + SumOver(f, T \ {y})
      <3> DEFINE V == T \ {y}
                 W == U \ {y}
      <3>1. /\ V \in SUBSET S0 /\ Cardinality(V) = m - 1 /\ x \in V /\ y \in U
            /\ W \in SUBSET S0 /\ W = V \ {x} /\ W = U \ {y}
        BY <2>3, <2>6, <2>9, FS_RemoveElement
      <3> HIDE DEF U, V, W, x
      <3>2. SumOver(f, U) = f[y] + SumOver(f, W) /\ SumOver(f, V) = f[x] + SumOver(f, W)
        <4>1. Good(V)
          <5> HIDE DEF Good
          <5>1. QED  BY <2>4, <3>1
        <4>2. QED  BY <2>7, <3>1, <4>1
      <3>3. SumOver(f, W) \in Nat
        <4>1. /\ m \in Nat /\ Cardinality(W) \in Nat /\ Cardinality(U) \in Nat
              /\ IsFiniteSet(U)
          BY <1>1, <2>1, <2>6, <3>1
        <4>2. Cardinality(W) = Cardinality(U) - 1
          BY <3>1, <4>1, FS_RemoveElement
        <4>3. Good(W)
          <5> SUFFICES ASSUME ~Good(W)
                       PROVE  FALSE
            OBVIOUS
          <5>1. Cardinality(W) \in Bad
            BY <3>1, <4>1
          <5>2. m <= Cardinality(W)
            BY <2>2, <5>1
          <5>3. QED  BY <2>6, <4>1, <4>2, <5>2
        <4>4. QED  BY <4>3
      <3>4. f[x] \in Nat /\ f[y] \in Nat
        BY <2>3, <2>6
      <3>5. SumOver(f, T) = f[y] + SumOver(f, V)
        BY <2>7, <3>2, <3>3, <3>4
      <3>6. QED  BY <3>5 DEF V
    <2>10. Good(T)
      BY <2>7, <2>8, <2>9
    <2>11. QED  BY <2>3, <2>10
  <1>4. QED  BY <1>1, <1>3

LEMMA SumIsNumber ==
  ASSUME NEW S0, IsFiniteSet(S0), NEW f, \A x \in S0 : f[x] \in Nat
  PROVE  SumOver(f, S0) \in Nat
  BY SumRemoves

\* Numbers of at most b add up to at most b times as much as there are.
LEMMA SumIsBounded ==
  ASSUME NEW S0, IsFiniteSet(S0), NEW f, NEW b \in Nat,
         \A x \in S0 : f[x] \in Nat /\ f[x] <= b
  PROVE  SumOver(f, S0) <= b * Cardinality(S0)
  <1> DEFINE Good(T) == SumOver(f, T) <= b * Cardinality(T)
             Bad     == {n \in Nat : \E T \in SUBSET S0 : Cardinality(T) = n /\ ~Good(T)}
  <1>1. \A T \in SUBSET S0 : IsFiniteSet(T) /\ Cardinality(T) \in Nat
    BY FS_Subset, FS_CardinalityType
  <1>2. \A T \in SUBSET S0 :
           /\ SumOver(f, T) \in Nat
           /\ \A y \in T : SumOver(f, T) = f[y] + SumOver(f, T \ {y})
    BY SumRemoves
  <1>3. SumOver(f, {}) = 0
    BY SumPicks, FS_EmptySet
  <1>4. Bad = {}
    <2> SUFFICES ASSUME Bad # {}
                 PROVE  FALSE
      OBVIOUS
    <2>1. PICK m \in Bad : \A k \in Bad : m <= k
      <3>1. Bad \in SUBSET Nat
        OBVIOUS
      <3> HIDE DEF Bad
      <3>2. QED  BY <3>1, LeastNumber
    <2>2. PICK T \in SUBSET S0 : Cardinality(T) = m /\ ~Good(T) /\ m \in Nat
      OBVIOUS
    <2>3. T # {}
      <3>1. Cardinality({}) = 0 /\ b * 0 = 0
        BY FS_EmptySet
      <3>2. Good({})
        BY <1>3, <3>1
      <3> HIDE DEF Good
      <3>3. QED  BY <2>2, <3>2
    <2>4. PICK x \in T : TRUE
      BY <2>3
    <2> DEFINE V == T \ {x}
    <2>5. V \in SUBSET S0 /\ Cardinality(V) = m - 1 /\ Cardinality(V) \in Nat
      BY <1>1, <2>2, <2>4, FS_RemoveElement
    <2>6. Good(V)
      <3> SUFFICES ASSUME ~Good(V)
                   PROVE  FALSE
        OBVIOUS
      <3>1. Cardinality(V) \in Bad
        BY <2>5
      <3>2. QED  BY <2>1, <2>2, <2>5, <3>1
    <2>7. SumOver(f, T) = f[x] + SumOver(f, V) /\ f[x] \in Nat /\ f[x] <= b
      BY <1>2, <2>2, <2>4
    <2>8. SumOver(f, V) \in Nat /\ SumOver(f, V) <= b * (m - 1)
      BY <1>2, <2>5, <2>6
    <2> HIDE DEF V
    <2>9. b * (m - 1) + b = b * m
      BY <2>2
    <2>10. SumOver(f, T) <= b * m
      <3>1. b * (m - 1) \in Int /\ b * m \in Int
        BY <2>2
      <3>2. QED  BY <2>7, <2>8, <2>9, <3>1
    <2>11. QED  BY <2>2, <2>10
  <1>5. Good(S0)
    <2> SUFFICES ASSUME ~Good(S0)
                 PROVE  FALSE
      OBVIOUS
    <2>1. Cardinality(S0) \in Bad
      BY <1>1
    <2>2. QED  BY <1>4, <2>1
  <1>6. QED  BY <1>5

\* What is matched one to one with part of T adds up to no more than T.
LEMMA SumOfPart ==
  ASSUME NEW R, IsFiniteSet(R), NEW T, IsFiniteSet(T), NEW f, NEW g, NEW h \in [R -> T],
         \A k \in R : f[k] \in Nat /\ g[h[k]] = f[k],
         \A j, k \in R : h[j] = h[k] => j = k,
         \A x \in T : g[x] \in Nat
  PROVE  SumOver(f, R) <= SumOver(g, T)
  <1> DEFINE Fits(n) == \A K \in SUBSET R, V \in SUBSET T :
                           Cardinality(K) = n /\ (\A k \in K : h[k] \in V)
                              => SumOver(f, K) <= SumOver(g, V)
             Bad     == {n \in Nat : ~Fits(n)}
  <1>1. /\ \A K \in SUBSET R : IsFiniteSet(K) /\ Cardinality(K) \in Nat
        /\ \A K \in SUBSET R : SumOver(f, K) \in Nat
        /\ \A K \in SUBSET R : \A k \in K : SumOver(f, K) = f[k] + SumOver(f, K \ {k})
        /\ \A V \in SUBSET T : SumOver(g, V) \in Nat
        /\ \A V \in SUBSET T : \A v \in V : SumOver(g, V) = g[v] + SumOver(g, V \ {v})
    BY FS_Subset, FS_CardinalityType, SumRemoves
  <1>2. Bad = {}
    <2> SUFFICES ASSUME Bad # {}
                 PROVE  FALSE
      OBVIOUS
    <2>1. Bad \in SUBSET Nat
      OBVIOUS
    <2>2. PICK m \in Bad : \A k \in Bad : m <= k
      <3> HIDE DEF Bad
      <3>1. QED  BY <2>1, LeastNumber
    <2>3. m \in Nat /\ ~Fits(m)
      OBVIOUS
    <2>4. PICK K \in SUBSET R, V \in SUBSET T :
             /\ Cardinality(K) = m /\ \A k \in K : h[k] \in V
             /\ ~(SumOver(f, K) <= SumOver(g, V))
      BY <2>3
    <2>5. K # {}
      <3> SUFFICES ASSUME K = {}
                   PROVE  FALSE
        OBVIOUS
      <3>1. SumOver(f, {}) = 0
        BY FS_EmptySet, SumPicks
      <3>2. SumOver(g, V) \in Nat
        BY <1>1
      <3>3. QED  BY <2>4, <3>1, <3>2
    <2>6. PICK k \in K : TRUE
      BY <2>5
    <2> DEFINE L == K \ {k}
               W == V \ {h[k]}
    <2>7. /\ L \in SUBSET R /\ W \in SUBSET T /\ h[k] \in V
          /\ \A j \in L : h[j] \in W
      BY <2>4, <2>6
    <2>8. Cardinality(L) = m - 1 /\ m - 1 \in Nat /\ ~(m <= m - 1)
      <3>1. Cardinality(L) = Cardinality(K) - 1
        BY <1>1, <2>6, FS_RemoveElement
      <3>2. Cardinality(L) \in Nat
        BY <1>1, <2>7
      <3>3. QED  BY <2>3, <2>4, <3>1, <3>2
    <2>9. Fits(m - 1)
      <3> HIDE DEF Fits
      <3>1. QED  BY <2>2, <2>8
    <2>10. SumOver(f, L) <= SumOver(g, W)
      BY <2>7, <2>8, <2>9
    <2>11. /\ SumOver(f, K) = f[k] + SumOver(f, L) /\ SumOver(g, V) = f[k] + SumOver(g, W)
           /\ SumOver(f, L) \in Nat /\ SumOver(g, W) \in Nat /\ f[k] \in Nat
      BY <1>1, <2>6, <2>7
    <2> HIDE DEF L, W
    <2>12. SumOver(f, K) <= SumOver(g, V)
      BY <2>10, <2>11
    <2>13. QED  BY <2>4, <2>12
  <1>3. Cardinality(R) \in Nat /\ Fits(Cardinality(R))
    <2> HIDE DEF Fits
    <2>1. QED  BY <1>1, <1>2
  <1>4. QED  BY <1>3

-----------------------------------------------------------------------------
(* Percentages: int(round(count / total * 100)), half to even *)

Rounded(count, total) ==
    LET whole == (100 * count) \div total
        twice == 2 * ((100 * count) % total)
    IN  IF twice < total \/ (twice = total /\ whole % 2 = 0) THEN whole ELSE whole + 1

\* A part of the total is a percentage, and rounding loses no whole percent.
LEMMA RoundedBounds ==
  ASSUME NEW count \in Nat, NEW total \in Nat, total # 0
  PROVE  /\ Rounded(count, total) \in Nat
         /\ count <= total => Rounded(count, total) <= 100
         /\ \A p \in Nat : 100 * count >= p * total => Rounded(count, total) >= p
  <1> DEFINE whole == (100 * count) \div total
             rest  == (100 * count) % total
  <1>1. /\ whole \in Nat /\ rest \in Nat /\ rest < total
        /\ 100 * count = whole * total + rest
    OBVIOUS
  <1>2. /\ Rounded(count, total) \in {whole, whole + 1}
        /\ rest = 0 => Rounded(count, total) = whole
    BY <1>1 DEF Rounded
  <1> HIDE DEF whole, rest
  <1>3. ASSUME count <= total
        PROVE  Rounded(count, total) <= 100
    <2>1. whole <= 100
      <3> SUFFICES ASSUME whole >= 101
                   PROVE  FALSE
        BY <1>1
      <3>1. whole * total >= 101 * total
        BY <1>1
      <3>2. 101 * total > 100 * count
        BY <1>3
      <3>3. whole * total \in Nat
        BY <1>1
      <3>4. QED  BY <1>1, <3>1, <3>2, <3>3
    <2>2. whole = 100 => rest = 0
      <3> SUFFICES ASSUME whole = 100
                   PROVE  rest = 0
        OBVIOUS
      <3>1. 100 * count = 100 * total + rest
        BY <1>1
      <3>2. QED  BY <1>1, <1>3, <3>1
    <2>3. QED  BY <1>1, <1>2, <2>1, <2>2
  <1>4. ASSUME NEW p \in Nat, 100 * count >= p * total
        PROVE  Rounded(count, total) >= p
    <2>1. whole >= p
      <3> SUFFICES ASSUME whole + 1 <= p
                   PROVE  FALSE
        BY <1>1
      <3>1. (whole + 1) * total <= p * total
        BY <1>1
      <3>2. (whole + 1) * total = whole * total + total
        BY <1>1
      <3>3. whole * total \in Nat /\ p * total \in Nat
        BY <1>1
      <3>4. QED  BY <1>1, <1>4, <3>1, <3>2, <3>3
    <2>2. QED  BY <1>1, <1>2, <2>1
  <1>5. QED  BY <1>1, <1>2, <1>3, <1>4

\* It grows with the count.
LEMMA RoundedGrows ==
  ASSUME NEW a \in Nat, NEW b \in Nat, NEW total \in Nat, total # 0, a <= b
  PROVE  Rounded(a, total) <= Rounded(b, total)
  <1> DEFINE w == (100 * a) \div total
             m == (100 * a) % total
             v == (100 * b) \div total
             n == (100 * b) % total
  <1>1. /\ w \in Nat /\ m \in Nat /\ m < total /\ 100 * a = w * total + m
        /\ v \in Nat /\ n \in Nat /\ n < total /\ 100 * b = v * total + n
    OBVIOUS
  <1>2. /\ Rounded(a, total) = IF 2 * m < total \/ (2 * m = total /\ w % 2 = 0)
                               THEN w ELSE w + 1
        /\ Rounded(b, total) = IF 2 * n < total \/ (2 * n = total /\ v % 2 = 0)
                               THEN v ELSE v + 1
    BY DEF Rounded
  <1> HIDE DEF w, m, v, n
  <1>3. CASE w = v
    <2>1. m <= n
      BY <1>1, <1>3
    <2>2. QED  BY <1>1, <1>2, <1>3, <2>1
  <1>4. CASE w < v
    BY <1>1, <1>2, <1>4
  <1>5. CASE v < w
    <2>1. w * total >= (v + 1) * total
      BY <1>1, <1>5
    <2>2. (v + 1) * total = v * total + total
      BY <1>1
    <2>3. w * total \in Nat /\ v * total \in Nat
      BY <1>1
    <2>4. QED  BY <1>1, <2>1, <2>2, <2>3
  <1>6. QED  BY <1>1, <1>3, <1>4, <1>5

=============================================================================
