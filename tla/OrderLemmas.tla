----------------------------- MODULE OrderLemmas -----------------------------
(***************************************************************************)
(* What the proofs need of orders: the least of some naturals, which       *)
(* stands in for induction over them, and the place of an element in a     *)
(* finite set that is read in an order.                                    *)
(***************************************************************************)
EXTENDS Integers, FiniteSets, FiniteSetTheorems, WellFoundedInduction, TLAPS

(* The order of the naturals as the library's well-founded relation: what it *)
(* calls well-founded.                                                       *)
LEMMA BelowIsRelated ==
    ASSUME NEW m \in Nat, NEW n \in Nat, m < n
    PROVE  <<m, n>> \in OpToRel(<, Nat)
<1>1. <<m, n>> \in Nat \X Nat
  OBVIOUS
<1>2. <<m, n>>[1] < <<m, n>>[2]
  OBVIOUS
<1> QED
  BY <1>1, <1>2, Zenon DEF OpToRel

(* A set of naturals that is not empty has a least element.                  *)
LEMMA LeastNatural ==
    ASSUME NEW S, S \subseteq Nat, S # {}
    PROVE  \E n \in S : \A m \in S : n <= m
<1>1. \E n \in S : \A m \in S : ~(<<m, n>> \in OpToRel(<, Nat))
  BY NatLessThanWellFounded, WFMin, Zenon
<1>2. PICK n \in S : \A m \in S : ~(<<m, n>> \in OpToRel(<, Nat))
  BY <1>1, Zenon
<1>3. ASSUME NEW m \in S PROVE ~(m < n)
  BY <1>2, BelowIsRelated, Zenon
<1>4. \A m \in S : n <= m
  BY <1>3
<1> QED
  BY <1>4

(* Among finite sets there is one with the fewest elements: what stands in   *)
(* for induction over them.                                                  *)
LEMMA SmallestSet ==
    ASSUME NEW Sets, Sets # {}, \A S \in Sets : IsFiniteSet(S)
    PROVE  \E S \in Sets : \A T \in Sets : Cardinality(S) <= Cardinality(T)
<1> DEFINE Sizes == {Cardinality(S) : S \in Sets}
<1>1. Sizes \subseteq Nat /\ Sizes # {}
  BY FS_CardinalityType
<1>2. PICK n \in Sizes : \A m \in Sizes : n <= m
  <2> HIDE DEF Sizes
  <2> QED
    BY <1>1, LeastNatural, Zenon
<1> QED
  BY <1>2

-----------------------------------------------------------------------------
(* The place of an element: how many come before it.                         *)
StrictOrder(R, S) ==
    /\ \A a \in S : <<a, a>> \notin R
    /\ \A a, b \in S : a # b => <<a, b>> \in R \/ <<b, a>> \in R
    /\ \A a, b, c \in S : <<a, b>> \in R /\ <<b, c>> \in R => <<a, c>> \in R
Preceding(R, S, x) == {y \in S : <<y, x>> \in R}
Place(R, S, x) == Cardinality(Preceding(R, S, x))

LEMMA PlaceType ==
    ASSUME NEW R, NEW S, IsFiniteSet(S), StrictOrder(R, S), NEW x \in S
    PROVE  /\ IsFiniteSet(Preceding(R, S, x)) /\ Place(R, S, x) \in Nat
           /\ Place(R, S, x) < Cardinality(S) /\ Cardinality(S) \in Nat
<1>1. Preceding(R, S, x) \in SUBSET S /\ Preceding(R, S, x) # S
  BY DEF Preceding, StrictOrder
<1>2. IsFiniteSet(Preceding(R, S, x))
  BY <1>1, FS_Subset, Zenon
<1>3. Place(R, S, x) \in Nat /\ Cardinality(S) \in Nat
  BY <1>2, FS_CardinalityType, Zenon DEF Place
<1>4. Place(R, S, x) <= Cardinality(S) /\ Place(R, S, x) # Cardinality(S)
  BY <1>1, FS_Subset, Zenon DEF Place
<1> QED
  BY <1>2, <1>3, <1>4

LEMMA PlacesFollow ==
    ASSUME NEW R, NEW S, IsFiniteSet(S), StrictOrder(R, S), NEW x \in S, NEW y \in S
    PROVE  <<x, y>> \in R <=> Place(R, S, x) < Place(R, S, y)
<1>1. ASSUME NEW a \in S, NEW b \in S, <<a, b>> \in R
      PROVE  Place(R, S, a) < Place(R, S, b)
  <2>1. Preceding(R, S, a) \in SUBSET Preceding(R, S, b) /\ Preceding(R, S, a) # Preceding(R, S, b)
    BY <1>1 DEF Preceding, StrictOrder
  <2>2. IsFiniteSet(Preceding(R, S, b))
    BY PlaceType
  <2>3. Place(R, S, a) <= Place(R, S, b) /\ Place(R, S, a) # Place(R, S, b)
    BY <2>1, <2>2, FS_Subset, Zenon DEF Place
  <2> QED
    BY <2>3, PlaceType
<1>2. CASE <<x, y>> \in R
  BY <1>1, <1>2
<1>3. CASE x = y
  BY <1>3, PlaceType DEF StrictOrder
<1>4. CASE x # y /\ <<y, x>> \in R
  <2>1. Place(R, S, y) < Place(R, S, x) /\ <<x, y>> \notin R
    BY <1>1, <1>4 DEF StrictOrder
  <2> QED
    BY <2>1, PlaceType
<1> QED
  BY <1>2, <1>3, <1>4 DEF StrictOrder

(* Every place below the number of elements is that of exactly one.          *)
LEMMA PlaceTaken ==
    ASSUME NEW R, NEW S, IsFiniteSet(S), StrictOrder(R, S),
           NEW k \in Nat, k < Cardinality(S)
    PROVE  \E x \in S : Place(R, S, x) = k /\ \A y \in S : Place(R, S, y) = k => y = x
<1> DEFINE f == [x \in S |-> Place(R, S, x) + 1]
<1>1. Cardinality(S) \in Nat
  BY FS_CardinalityType, Zenon
<1>2. \A x \in S : Place(R, S, x) \in Nat /\ Place(R, S, x) < Cardinality(S)
  BY PlaceType
<1>3. f \in [S -> 1..Cardinality(S)]
  BY <1>1, <1>2
<1>4. \A x, y \in S : Place(R, S, x) = Place(R, S, y) => x = y
  BY <1>2, PlacesFollow DEF StrictOrder
<1>5. \A x, y \in S : f[x] = f[y] => x = y
  BY <1>2, <1>4
<1>6. IsFiniteSet(1..Cardinality(S)) /\ Cardinality(1..Cardinality(S)) = Cardinality(S)
  BY <1>1, FS_Interval
<1>7. f \in Injection(S, 1..Cardinality(S))
  BY <1>3, <1>5, Zenon DEF Injection, IsInjective
<1> HIDE DEF f
<1>8. f \in Surjection(S, 1..Cardinality(S))
  BY <1>6, <1>7, FS_Injection, Zenon
<1>9. \E x \in S : f[x] = k + 1
  BY <1>1, <1>8 DEF Surjection
<1>10. PICK x \in S : f[x] = k + 1
  BY <1>9
<1>11. Place(R, S, x) = k
  BY <1>2, <1>10 DEF f
<1> QED
  BY <1>4, <1>11

-----------------------------------------------------------------------------
(***************************************************************************)
(* Sums over finite sets: w[x] is what an element x counts.                *)
(***************************************************************************)
Pick(S) == CHOOSE x \in S : TRUE
\* f is the sum over each part of S, one element after another.
IsSum(f, S, w) == f = [T \in SUBSET S |-> IF T = {} THEN 0 ELSE w[Pick(T)] + f[T \ {Pick(T)}]]
SumOf(w, S) == (CHOOSE f : IsSum(f, S, w))[S]

LEMMA SmallerPart ==
    ASSUME NEW T, IsFiniteSet(T), T # {}
    PROVE  /\ Pick(T) \in T /\ IsFiniteSet(T \ {Pick(T)})
           /\ Cardinality(T) \in Nat /\ Cardinality(T \ {Pick(T)}) = Cardinality(T) - 1
           /\ Cardinality(T) > 0
<1>1. Pick(T) \in T
  BY DEF Pick
<1>2. Cardinality(T) \in Nat /\ (Cardinality(T) = 0 <=> T = {})
  BY FS_CardinalityType, FS_EmptySet, Zenon
<1> QED
  BY <1>1, <1>2, FS_RemoveElement

(* There is such a sum over every finite set.                                *)
LEMMA SumExists ==
    ASSUME NEW S, IsFiniteSet(S), NEW w, \A x \in S : w[x] \in Nat
    PROVE  \E f : IsSum(f, S, w)
<1> DEFINE Unfolded(f, T) == IF T = {} THEN 0 ELSE w[Pick(T)] + f[T \ {Pick(T)}]
           Sums(n) == \E f \in [SUBSET S -> Int] : \A T \in SUBSET S : Cardinality(T) <= n => f[T] = Unfolded(f, T)
           Rough == {n \in Nat : ~Sums(n)}
<1>1. \A T \in SUBSET S : IsFiniteSet(T) /\ Cardinality(T) \in Nat /\ Cardinality(T) <= Cardinality(S)
  BY FS_Subset, FS_CardinalityType, Zenon
<1>2. Rough = {}
  <2>1. SUFFICES ASSUME Rough # {} PROVE FALSE
    OBVIOUS
  <2>2. PICK n \in Rough : \A m \in Rough : n <= m
    <3>1. Rough \subseteq Nat
      OBVIOUS
    <3> HIDE DEF Rough
    <3> QED BY <2>1, <3>1, LeastNatural, Zenon
  <2>3. n # 0
    <3>1. [T \in SUBSET S |-> 0] \in [SUBSET S -> Int]
      OBVIOUS
    <3>2. \A T \in SUBSET S : Cardinality(T) <= 0 => T = {}
      BY <1>1, FS_EmptySet
    <3>3. Sums(0)
      BY <3>1, <3>2
    <3> HIDE DEF Sums
    <3> QED BY <3>3
  <2>4. n \in Nat /\ n - 1 \in Nat /\ n - 1 < n
    BY <2>3
  <2>5. Sums(n - 1)
    <3> HIDE DEF Sums
    <3>1. n - 1 \notin Rough
      BY <2>2, <2>4
    <3> QED BY <2>4, <3>1
  <2>6. PICK f \in [SUBSET S -> Int] : \A T \in SUBSET S : Cardinality(T) <= n - 1 => f[T] = Unfolded(f, T)
    BY <2>5
  <2> DEFINE g == [T \in SUBSET S |-> Unfolded(f, T)]
  <2>7. \A T \in SUBSET S : T # {} => T \ {Pick(T)} \in SUBSET S /\ Cardinality(T \ {Pick(T)}) = Cardinality(T) - 1
    BY <1>1, SmallerPart
  <2>8. g \in [SUBSET S -> Int]
    <3> SUFFICES ASSUME NEW T \in SUBSET S PROVE Unfolded(f, T) \in Int
      OBVIOUS
    <3>1. T # {} => Pick(T) \in T
      BY DEF Pick
    <3>2. T # {} => w[Pick(T)] \in Int /\ f[T \ {Pick(T)}] \in Int
      BY <2>6, <2>7, <3>1
    <3> QED BY <3>2
  <2>9. ASSUME NEW T \in SUBSET S, Cardinality(T) <= n PROVE g[T] = Unfolded(g, T)
    <3>1. CASE T = {}
      BY <3>1
    <3>2. CASE T # {}
      <4> DEFINE U == T \ {Pick(T)}
      <4>1. U \in SUBSET S /\ Cardinality(U) <= n - 1
        BY <1>1, <2>4, <2>7, <2>9, <3>2
      <4>2. f[U] = Unfolded(f, U)
        BY <2>6, <4>1
      <4>3. g[U] = f[U]
        BY <4>1, <4>2
      <4> QED BY <3>2, <4>3
    <3> QED BY <3>1, <3>2
  <2>10. Sums(n)
    <3> HIDE DEF g, Unfolded
    <3> QED BY <2>8, <2>9
  <2> HIDE DEF Sums
  <2> QED BY <2>10
<1>3. Sums(Cardinality(S))
  <2>1. Cardinality(S) \in Nat
    BY FS_CardinalityType, Zenon
  <2> HIDE DEF Sums
  <2> QED BY <1>2, <2>1
<1>4. PICK f \in [SUBSET S -> Int] : \A T \in SUBSET S : Cardinality(T) <= Cardinality(S) => f[T] = Unfolded(f, T)
  BY <1>3
<1>5. IsSum(f, S, w)
  BY <1>1, <1>4 DEF IsSum
<1> QED BY <1>5

(* Whatever set it is taken in, the sum of a part is the same.               *)
LEMMA SumsAgree ==
    ASSUME NEW w, NEW S, NEW f, IsSum(f, S, w), NEW U, NEW g, IsSum(g, U, w), IsFiniteSet(S)
    PROVE  \A T \in SUBSET S : T \in SUBSET U => f[T] = g[T]
<1> DEFINE Bad == {T \in SUBSET S : T \in SUBSET U /\ f[T] # g[T]}
<1>1. SUFFICES ASSUME Bad # {} PROVE FALSE
  OBVIOUS
<1>2. \A T \in Bad : IsFiniteSet(T)
  BY FS_Subset, Zenon
<1>3. PICK T \in Bad : \A V \in Bad : Cardinality(T) <= Cardinality(V)
  <2> HIDE DEF Bad
  <2> QED BY <1>1, <1>2, SmallestSet, Zenon
<1>4. /\ f[T] = IF T = {} THEN 0 ELSE w[Pick(T)] + f[T \ {Pick(T)}]
      /\ g[T] = IF T = {} THEN 0 ELSE w[Pick(T)] + g[T \ {Pick(T)}]
  BY DEF IsSum
<1>5. T # {}
  BY <1>4
<1>6. T \ {Pick(T)} \notin Bad
  <2>1. Cardinality(T \ {Pick(T)}) = Cardinality(T) - 1 /\ Cardinality(T) \in Nat
    <3>1. IsFiniteSet(T)
      BY <1>2
    <3> HIDE DEF Bad
    <3> QED BY <1>5, <3>1, SmallerPart, Zenon
  <2>2. ~(Cardinality(T) <= Cardinality(T \ {Pick(T)}))
    BY <2>1
  <2> HIDE DEF Bad
  <2> QED BY <1>3, <2>1, <2>2
<1>7. f[T \ {Pick(T)}] = g[T \ {Pick(T)}]
  BY <1>6
<1> QED BY <1>4, <1>7

(* The sum, one element at a time.                                           *)
LEMMA SumUnfolds ==
    ASSUME NEW T, IsFiniteSet(T), NEW w, \A x \in T : w[x] \in Nat
    PROVE  SumOf(w, T) = IF T = {} THEN 0 ELSE w[Pick(T)] + SumOf(w, T \ {Pick(T)})
<1> DEFINE f == CHOOSE f : IsSum(f, T, w)
           U == T \ {Pick(T)}
           g == CHOOSE g : IsSum(g, U, w)
<1>1. IsSum(f, T, w) /\ SumOf(w, T) = f[T]
  BY SumExists DEF SumOf
<1>2. f[T] = IF T = {} THEN 0 ELSE w[Pick(T)] + f[U]
  BY <1>1 DEF IsSum
<1>3. CASE T # {}
  <2>1. IsFiniteSet(U)
    BY <1>3, SmallerPart
  <2>2. IsSum(g, U, w) /\ SumOf(w, U) = g[U]
    BY <1>3, <2>1, SumExists, SmallerPart DEF SumOf
  <2>3. f[U] = g[U]
    <3> HIDE DEF f, g
    <3> QED BY <1>1, <2>2, SumsAgree
  <2> QED BY <1>1, <1>2, <1>3, <2>2, <2>3
<1> QED BY <1>1, <1>2, <1>3

(* Any sum over the set gives it.                                            *)
LEMMA SumIsAny ==
    ASSUME NEW S, IsFiniteSet(S), NEW w, \A x \in S : w[x] \in Nat, NEW f, IsSum(f, S, w)
    PROVE  SumOf(w, S) = f[S]
<1> DEFINE g == CHOOSE g : IsSum(g, S, w)
<1>1. IsSum(g, S, w) /\ SumOf(w, S) = g[S]
  BY SumExists DEF SumOf
<1> HIDE DEF g
<1> QED BY <1>1, SumsAgree

(* It is a natural number when every element counts one.                     *)
LEMMA SumType ==
    ASSUME NEW S, IsFiniteSet(S), NEW w, \A x \in S : w[x] \in Nat
    PROVE  SumOf(w, S) \in Nat
<1> DEFINE Bad == {T \in SUBSET S : SumOf(w, T) \notin Nat}
<1>1. Bad = {}
  <2> SUFFICES ASSUME Bad # {} PROVE FALSE
    OBVIOUS
  <2>1. \A T \in SUBSET S : IsFiniteSet(T) /\ Cardinality(T) \in Nat
    BY FS_Subset, FS_CardinalityType, Zenon
  <2>2. PICK T \in Bad : \A V \in Bad : Cardinality(T) <= Cardinality(V)
    <3>1. \A T \in Bad : IsFiniteSet(T)
      BY <2>1
    <3> HIDE DEF Bad
    <3> QED BY <3>1, SmallestSet, Zenon
  <2> DEFINE U == T \ {Pick(T)}
  <2>3. IsFiniteSet(T) /\ SumOf(w, T) = (IF T = {} THEN 0 ELSE w[Pick(T)] + SumOf(w, U))
    BY <2>1, SumUnfolds
  <2>4. T # {}
    BY <2>3
  <2>5. U \in SUBSET S /\ Cardinality(U) = Cardinality(T) - 1 /\ Cardinality(T) \in Nat /\ Pick(T) \in S
    BY <2>1, <2>4, SmallerPart
  <2>6. U \notin Bad
    <3> HIDE DEF Bad, U
    <3> QED BY <2>2, <2>5
  <2>7. SumOf(w, U) \in Nat /\ w[Pick(T)] \in Nat
    BY <2>5, <2>6
  <2> HIDE DEF U
  <2> QED BY <2>3, <2>4, <2>7
<1> QED BY <1>1

(* One element more adds its weight, whichever is taken first.               *)
LEMMA SumAdds ==
    ASSUME NEW S, IsFiniteSet(S), NEW y, y \notin S,
           NEW w, \A x \in S \cup {y} : w[x] \in Nat
    PROVE  SumOf(w, S \cup {y}) = SumOf(w, S) + w[y]
<1> DEFINE Good(T) == \A z \in S \cup {y} : z \notin T => SumOf(w, T \cup {z}) = SumOf(w, T) + w[z]
           Bad == {T \in SUBSET S : ~Good(T)}
<1>1. Bad = {}
  <2> SUFFICES ASSUME Bad # {} PROVE FALSE
    OBVIOUS
  <2>1. \A T \in SUBSET S : IsFiniteSet(T) /\ Cardinality(T) \in Nat
    BY FS_Subset, FS_CardinalityType, Zenon
  <2>2. PICK T \in Bad : \A V \in Bad : Cardinality(T) <= Cardinality(V)
    <3>1. \A T \in Bad : IsFiniteSet(T)
      BY <2>1
    <3> HIDE DEF Bad
    <3> QED BY <3>1, SmallestSet, Zenon
  <2>3. PICK z \in S \cup {y} : z \notin T /\ SumOf(w, T \cup {z}) # SumOf(w, T) + w[z]
    OBVIOUS
  <2> DEFINE V == T \cup {z}
             x == Pick(V)
  <2>4. IsFiniteSet(V) /\ V # {} /\ x \in V /\ T \in SUBSET S
    BY <2>1, FS_AddElement, SmallerPart
  <2>5. SumOf(w, V) = w[x] + SumOf(w, V \ {x})
    BY <2>4, SumUnfolds
  <2>6. SumOf(w, T) \in Nat /\ w[x] \in Nat /\ w[z] \in Nat
    BY <2>1, <2>4, SumType
  <2>7. x # z
    <3>1. x = z => V \ {x} = T
      BY <2>3
    <3>2. x = z => SumOf(w, V) = w[z] + SumOf(w, T)
      BY <2>5, <3>1
    <3>3. SumOf(w, V) # SumOf(w, T) + w[z]
      BY <2>3
    <3> HIDE DEF x, V
    <3> QED BY <2>6, <3>2, <3>3
  <2> DEFINE U == T \ {x}
  <2>8. V \ {x} = U \cup {z} /\ z \notin U /\ U \cup {x} = T /\ x \notin U /\ U \in SUBSET S
    BY <2>3, <2>4, <2>7
  <2>9. Good(U)
    <3>1. Cardinality(U) < Cardinality(T)
      <4>1. x \in T /\ Cardinality(T) \in Nat
        BY <2>1, <2>4, <2>7
      <4>2. Cardinality(U) = Cardinality(T) - 1
        BY <2>1, <2>4, <4>1, FS_RemoveElement, ZenonT(30)
      <4> QED BY <4>1, <4>2
    <3>2. Cardinality(U) \in Nat /\ Cardinality(T) \in Nat
      BY <2>1, <2>4, <2>8
    <3>3. U \notin Bad
      <4> HIDE DEF Bad, U
      <4> QED BY <2>2, <3>1, <3>2
    <3> HIDE DEF Good, U
    <3> QED BY <2>8, <3>3
  <2>10. SumOf(w, U \cup {z}) = SumOf(w, U) + w[z] /\ SumOf(w, U \cup {x}) = SumOf(w, U) + w[x]
    <3> HIDE DEF U, x
    <3> QED BY <2>8, <2>9
  <2>11. SumOf(w, U) \in Nat
    BY <2>1, <2>8, SumType
  <2>12. SumOf(w, V) = w[x] + SumOf(w, U \cup {z}) /\ SumOf(w, T) = SumOf(w, U \cup {x})
    BY <2>5, <2>8
  <2>13. SumOf(w, V) # SumOf(w, T) + w[z]
    BY <2>3
  <2> HIDE DEF U, x, V, Good, Bad
  <2> QED BY <2>6, <2>10, <2>11, <2>12, <2>13
<1> QED BY <1>1
=============================================================================
