----------------------- MODULE OrderBookRefinementProofs -----------------------
(***************************************************************************)
(* Theorems about OrderBook that need sums: the depth of a level, and that *)
(* the matching loop implements PriceTimeBook.                             *)
(*                                                                         *)
(* A sum over a finite set is defined by recursion on the set.  Its        *)
(* properties are proved here from a least counterexample (LeastOf): of    *)
(* the parts of a set that violate the claim one of the smallest size is   *)
(* taken, and its parts one smaller, which do not violate it, refute it.   *)
(***************************************************************************)
EXTENDS OrderBookProofs, OrderBookRefinement

-----------------------------------------------------------------------------
(* Sums over finite sets. *)

(* A non-empty set of numbers has a least one: the form in which         *)
(* induction is used below, on the size of a part of a set.              *)
LEMMA LeastOf ==
    ASSUME NEW N \in SUBSET Nat, N # {}
    PROVE  \E n \in N : \A m \in N : n <= m
<1>1. PICK n \in N : \A m \in N : <<m, n>> \notin OpToRel(<, Nat)
  BY NatLessThanWellFounded, WFMin
<1>2. \A m \in N : ~(m < n)
  BY <1>1 DEF OpToRel
<1> QED
  BY <1>2

\* The element MapThenSumSet takes next from a set.
AnyOf(s) == CHOOSE x \in s : TRUE

(* It takes an element of the set.                                       *)
LEMMA AnyOfIn ==
    ASSUME NEW s, s # {}
    PROVE  AnyOf(s) \in s
BY DEF AnyOf

\* sums[s] is the sum of F over s, for every part s of T.
AreSums(sums, F, T) ==
    sums = [s \in SUBSET T |->
               IF s = {} THEN 0 ELSE F[AnyOf(s)] + sums[s \ {AnyOf(s)}]]

\* The sum of F over T, as the model's folds over sets compute it.
SumOf(F, T) == MapThenSumSet(LAMBDA y : F[y], T)

(* Without one of its elements a part of a finite set is a part one      *)
(* smaller.                                                              *)
LEMMA SmallerPart ==
    ASSUME NEW T, IsFiniteSet(T), NEW s \in SUBSET T, NEW x \in s
    PROVE  /\ IsFiniteSet(s) /\ Cardinality(s) \in Nat
           /\ s \ {x} \in SUBSET T /\ x \in T
           /\ Cardinality(s) > 0
           /\ Cardinality(s \ {x}) = Cardinality(s) - 1
<1>1. IsFiniteSet(s)
  BY FS_Subset
<1>2. Cardinality(s) \in Nat /\ Cardinality(s \ {x}) \in Nat
  BY <1>1, FS_CardinalityType, FS_Subset
<1>3. Cardinality(s \ {x}) = Cardinality(s) - 1
  BY <1>1, FS_RemoveElement
<1> QED
  BY <1>1, <1>2, <1>3

(* The recursion by which a set is summed element by element has a       *)
(* solution on every finite set: the totals of an order book's levels    *)
(* are defined.                                                          *)
LEMMA SumsExist ==
    ASSUME NEW T, IsFiniteSet(T), NEW F, \A y \in T : F[y] \in Int
    PROVE  \E sums \in [SUBSET T -> Int] : AreSums(sums, F, T)
<1> DEFINE Upto(n) == {s \in SUBSET T : Cardinality(s) <= n}
           Step(g, s) == IF s = {} THEN 0 ELSE F[AnyOf(s)] + g[s \ {AnyOf(s)}]
           Fits(g, n) == g \in [Upto(n) -> Int] /\ \A s \in Upto(n) : g[s] = Step(g, s)
           bad == {n \in Nat : ~ \E g : Fits(g, n)}
<1>1. \A s \in SUBSET T : Cardinality(s) \in Nat /\ (Cardinality(s) = 0 <=> s = {})
  <2> SUFFICES ASSUME NEW s \in SUBSET T
               PROVE  Cardinality(s) \in Nat /\ (Cardinality(s) = 0 <=> s = {})
    OBVIOUS
  <2>1. IsFiniteSet(s)
    BY FS_Subset
  <2> QED
    BY <2>1, FS_CardinalityType, FS_EmptySet
<1>2. \A s \in SUBSET T : s # {} =>
          /\ AnyOf(s) \in T /\ s \ {AnyOf(s)} \in SUBSET T
          /\ Cardinality(s \ {AnyOf(s)}) = Cardinality(s) - 1
  BY AnyOfIn, SmallerPart
<1>3. bad = {}
  <2> SUFFICES ASSUME bad # {} PROVE FALSE
    OBVIOUS
  <2>1. PICK m \in bad : \A n \in bad : m <= n
    BY LeastOf
  <2>2. CASE m = 0
    <3> DEFINE g == [s \in Upto(0) |-> 0]
    <3>1. \A s \in Upto(0) : s = {}
      BY <1>1
    <3>2. Fits(g, 0)
      BY <3>1
    <3> QED
      BY <2>1, <2>2, <3>2
  <2>3. CASE m # 0
    <3>1. m \in Nat /\ m - 1 \in Nat /\ m - 1 \notin bad
      <4> HIDE DEF Fits
      <4>1. m \in Nat /\ \A n \in bad : n \in Nat /\ m <= n
        BY <2>1
      <4> HIDE DEF bad
      <4> QED
        BY <2>3, <4>1
    <3>2. PICK g : Fits(g, m - 1)
      BY <3>1
    <3> DEFINE h == [s \in Upto(m) |-> Step(g, s)]
    <3>3. \A s \in Upto(m) : s # {} => /\ s \ {AnyOf(s)} \in Upto(m - 1)
                                       /\ g[s \ {AnyOf(s)}] \in Int /\ F[AnyOf(s)] \in Int
      BY <1>1, <1>2, <3>1, <3>2
    <3>4. h \in [Upto(m) -> Int]
      <4>1. \A s \in Upto(m) : Step(g, s) \in Int
        <5>1. ASSUME NEW s \in Upto(m) PROVE Step(g, s) \in Int
          <6>1. CASE s = {}
            BY <6>1
          <6>2. CASE s # {}
            <7>1. g[s \ {AnyOf(s)}] \in Int /\ F[AnyOf(s)] \in Int
              BY <3>3, <6>2
            <7> QED
              BY <6>2, <7>1
          <6> QED
            BY <6>1, <6>2
        <5> QED
          BY <5>1
      <4> HIDE DEF Step, Upto
      <4> QED
        BY <4>1
    <3>5. \A s \in Upto(m - 1) : s \in Upto(m) /\ h[s] = g[s]
      BY <1>1, <3>1, <3>2
    <3>6. \A s \in Upto(m) : h[s] = Step(h, s)
      BY <3>3, <3>5
    <3>7. Fits(h, m)
      BY <3>4, <3>6
    <3> QED
      BY <2>1, <3>7
  <2> QED
    BY <2>2, <2>3
<1>4. Cardinality(T) \in Nat /\ \A s \in SUBSET T : Cardinality(s) <= Cardinality(T)
  BY FS_CardinalityType, FS_Subset
<1>5. Upto(Cardinality(T)) = SUBSET T
  BY <1>4
<1>6. PICK g : Fits(g, Cardinality(T))
  BY <1>3, <1>4
<1>7. g \in [SUBSET T -> Int] /\ \A s \in SUBSET T : g[s] = Step(g, s)
  BY <1>5, <1>6
<1> QED
  BY <1>7 DEF AreSums

(* Two such solutions agree on the sets they share, if their summands    *)
(* do.                                                                   *)
LEMMA SumsAgree ==
    ASSUME NEW T, IsFiniteSet(T), NEW U \in SUBSET T, NEW F, NEW G,
           \A y \in U : F[y] = G[y],
           NEW f, AreSums(f, F, T), NEW g, AreSums(g, G, U)
    PROVE  f[U] = g[U]
<1> DEFINE sizes == {n \in Nat : \E s \in SUBSET U : n = Cardinality(s) /\ f[s] # g[s]}
<1>1. sizes = {}
  <2> SUFFICES ASSUME sizes # {} PROVE FALSE
    OBVIOUS
  <2>1. PICK n \in sizes : \A m \in sizes : n <= m
    BY LeastOf
  <2>2. PICK s \in SUBSET U : n = Cardinality(s) /\ f[s] # g[s]
    BY <2>1
  <2> DEFINE x == AnyOf(s)
  <2>3. s \in SUBSET T /\ s \in SUBSET U
    OBVIOUS
  <2>4. /\ f[s] = IF s = {} THEN 0 ELSE F[x] + f[s \ {x}]
        /\ g[s] = IF s = {} THEN 0 ELSE G[x] + g[s \ {x}]
    BY <2>3 DEF AreSums
  <2>5. s # {} /\ x \in s
    BY <2>2, <2>4, AnyOfIn
  <2> HIDE DEF x
  <2>6. /\ s \ {x} \in SUBSET U /\ Cardinality(s \ {x}) \in Nat
        /\ Cardinality(s \ {x}) < n
    BY <2>2, <2>3, <2>5, SmallerPart
  <2>7. f[s \ {x}] = g[s \ {x}]
    BY <2>1, <2>6
  <2> QED
    BY <2>2, <2>4, <2>5, <2>7
<1>2. Cardinality(U) \in Nat
  BY FS_Subset, FS_CardinalityType
<1> QED
  BY <1>1, <1>2

(* SumOf is what any of the solutions gives.                             *)
LEMMA SumIs ==
    ASSUME NEW T, IsFiniteSet(T), NEW F, \A y \in T : F[y] \in Int,
           NEW sums, AreSums(sums, F, T)
    PROVE  SumOf(F, T) = sums[T]
<1> DEFINE chosen == CHOOSE g : AreSums(g, F, T)
<1>1. SumOf(F, T) = chosen[T]
  BY DEF SumOf, MapThenSumSet, MapThenFoldSet, AreSums, AnyOf
<1>2. AreSums(chosen, F, T)
  <2>1. \E g : AreSums(g, F, T)
    OBVIOUS
  <2> QED
    BY <2>1
<1> HIDE DEF chosen
<1>3. chosen[T] = sums[T]
  BY <1>2, SumsAgree
<1> QED
  BY <1>1, <1>3

(* Nothing adds up to 0.                                                 *)
LEMMA SumEmpty == ASSUME NEW F PROVE SumOf(F, {}) = 0
<1>1. IsFiniteSet({})
  BY FS_EmptySet
<1>2. PICK sums : AreSums(sums, F, {})
  BY <1>1, SumsExist
<1>3. SumOf(F, {}) = sums[{}]
  BY <1>1, <1>2, SumIs
<1> QED
  BY <1>2, <1>3 DEF AreSums

(* Equal summands have equal sums.                                       *)
LEMMA SumCongruence ==
    ASSUME NEW T, IsFiniteSet(T), NEW F, NEW G,
           \A y \in T : F[y] \in Int /\ F[y] = G[y]
    PROVE  SumOf(F, T) = SumOf(G, T)
<1>1. PICK f : AreSums(f, F, T)
  BY SumsExist
<1>2. PICK g : AreSums(g, G, T)
  BY SumsExist
<1>3. f[T] = g[T]
  <2>1. T \in SUBSET T /\ \A y \in T : F[y] = G[y]
    OBVIOUS
  <2> QED
    BY <1>1, <1>2, <2>1, SumsAgree
<1>4. SumOf(F, T) = f[T]
  BY <1>1, SumIs
<1>5. SumOf(G, T) = g[T]
  BY <1>2, SumIs
<1> QED
  BY <1>3, <1>4, <1>5

(* The order in which a set is summed does not matter: any element may   *)
(* be set apart first.                                                   *)
LEMMA SumSplit ==
    ASSUME NEW T, IsFiniteSet(T), NEW F, \A y \in T : F[y] \in Int, NEW x \in T
    PROVE  /\ SumOf(F, T) \in Int /\ SumOf(F, T \ {x}) \in Int
           /\ SumOf(F, T) = F[x] + SumOf(F, T \ {x})
<1>1. PICK f \in [SUBSET T -> Int] : AreSums(f, F, T)
  BY SumsExist
<1> DEFINE Moves(s) == \A y \in s : f[s] = F[y] + f[s \ {y}]
           sizes == {n \in Nat : \E s \in SUBSET T : n = Cardinality(s) /\ ~Moves(s)}
<1>2. \A s \in SUBSET T : s # {} => f[s] = F[AnyOf(s)] + f[s \ {AnyOf(s)}]
  BY <1>1 DEF AreSums
<1>3. sizes = {}
  <2> SUFFICES ASSUME sizes # {} PROVE FALSE
    OBVIOUS
  <2>1. PICK n \in sizes : \A m \in sizes : n <= m
    BY LeastOf
  <2>2. PICK s \in SUBSET T : n = Cardinality(s) /\ ~Moves(s)
    BY <2>1
  <2>3. PICK y \in s : f[s] # F[y] + f[s \ {y}]
    BY <2>2
  <2>4. PICK c : c = AnyOf(s)
    OBVIOUS
  <2>5. c \in s /\ f[s] = F[c] + f[s \ {c}]
    BY <1>2, <2>3, <2>4, AnyOfIn
  <2>6. c # y
    BY <2>3, <2>5
  <2>7. \A z \in s : s \ {z} \in SUBSET T /\ Moves(s \ {z})
    <3> SUFFICES ASSUME NEW z \in s PROVE s \ {z} \in SUBSET T /\ Moves(s \ {z})
      OBVIOUS
    <3>1. s \ {z} \in SUBSET T /\ Cardinality(s \ {z}) \in Nat /\ Cardinality(s \ {z}) < n
      BY <2>2, SmallerPart
    <3>2. Cardinality(s \ {z}) \notin sizes
      <4>1. n \in Nat /\ \A m \in sizes : m \in Nat /\ n <= m
        BY <2>1
      <4> HIDE DEF sizes
      <4> QED
        BY <3>1, <4>1
    <3> HIDE DEF Moves
    <3> QED
      BY <3>1, <3>2
  <2>8. f[s \ {c}] = F[y] + f[(s \ {c}) \ {y}] /\ f[s \ {y}] = F[c] + f[(s \ {y}) \ {c}]
    BY <2>5, <2>6, <2>7
  <2>9. (s \ {c}) \ {y} = (s \ {y}) \ {c} /\ (s \ {c}) \ {y} \in SUBSET T
    OBVIOUS
  <2>10. F[y] \in Int /\ F[c] \in Int /\ f[(s \ {c}) \ {y}] \in Int
    BY <1>1, <2>5, <2>9
  <2>11. ASSUME NEW a \in Int, NEW b \in Int, NEW w \in Int
         PROVE  b + (a + w) = a + (b + w)
    BY <2>11
  <2> HIDE DEF Moves
  <2>12. f[s] = F[c] + (F[y] + f[(s \ {c}) \ {y}])
    BY <2>5, <2>8
  <2>13. F[y] + f[s \ {y}] = F[y] + (F[c] + f[(s \ {c}) \ {y}])
    BY <2>8, <2>9
  <2>14. F[c] + (F[y] + f[(s \ {c}) \ {y}]) = F[y] + (F[c] + f[(s \ {c}) \ {y}])
    BY <2>10, <2>11
  <2> QED
    BY <2>3, <2>12, <2>13, <2>14
<1>4. Moves(T)
  <2>1. Cardinality(T) \in Nat /\ T \in SUBSET T
    BY FS_CardinalityType
  <2> HIDE DEF Moves
  <2> QED
    BY <1>3, <2>1
<1> DEFINE U == T \ {x}
<1>5. IsFiniteSet(U) /\ U \in SUBSET T
  BY FS_Subset
<1>6. PICK g : AreSums(g, F, U)
  BY <1>5, SumsExist
<1>7. f[U] = g[U]
  BY <1>1, <1>5, <1>6, SumsAgree
<1>8. SumOf(F, T) = f[T]
  BY <1>1, SumIs
<1>9. SumOf(F, U) = g[U]
  BY <1>5, <1>6, SumIs
<1>10. f[T] = F[x] + f[U] /\ f[T] \in Int /\ f[U] \in Int
  BY <1>1, <1>4, <1>5
<1> QED
  BY <1>7, <1>8, <1>9, <1>10

(* A sum of natural numbers is one.                                      *)
LEMMA SumNatural ==
    ASSUME NEW T, IsFiniteSet(T), NEW F, \A y \in T : F[y] \in Nat
    PROVE  SumOf(F, T) \in Nat
<1>0. \A y \in T : F[y] \in Int
  OBVIOUS
<1>1. PICK f \in [SUBSET T -> Int] : AreSums(f, F, T)
  BY <1>0, SumsExist
<1> DEFINE sizes == {n \in Nat : \E s \in SUBSET T : n = Cardinality(s) /\ ~(f[s] >= 0)}
<1>2. sizes = {}
  <2> SUFFICES ASSUME sizes # {} PROVE FALSE
    OBVIOUS
  <2>1. PICK n \in sizes : \A m \in sizes : n <= m
    BY LeastOf
  <2>2. PICK s \in SUBSET T : n = Cardinality(s) /\ ~(f[s] >= 0)
    BY <2>1
  <2>3. PICK x : x = AnyOf(s)
    OBVIOUS
  <2>4. f[s] = IF s = {} THEN 0 ELSE F[x] + f[s \ {x}]
    BY <1>1, <2>3 DEF AreSums
  <2>5. s # {} /\ x \in s
    BY <2>2, <2>3, <2>4, AnyOfIn
  <2>6. /\ s \ {x} \in SUBSET T /\ Cardinality(s \ {x}) \in Nat
        /\ Cardinality(s \ {x}) < n
    BY <2>2, <2>5, SmallerPart
  <2>7. Cardinality(s \ {x}) \notin sizes
    <3>1. n \in Nat /\ \A m \in sizes : m \in Nat /\ n <= m
      BY <2>1
    <3> HIDE DEF sizes
    <3> QED
      BY <2>6, <3>1
  <2>8. f[s \ {x}] >= 0
    BY <2>6, <2>7
  <2>9. f[s \ {x}] \in Int /\ F[x] \in Nat
    BY <1>1, <2>5, <2>6
  <2> QED
    BY <2>2, <2>4, <2>5, <2>8, <2>9
<1>3. Cardinality(T) \in Nat /\ T \in SUBSET T
  BY FS_CardinalityType
<1>4. f[T] >= 0 /\ f[T] \in Int
  BY <1>1, <1>2, <1>3
<1>5. SumOf(F, T) = f[T]
  BY <1>0, <1>1, SumIs
<1> QED
  BY <1>4, <1>5

-----------------------------------------------------------------------------
(* The depth of a level. *)

\* The orders that point back at a level, in the pool ord.
AtLevel(ord, side, price) ==
    {slot \in Slots : /\ ord[slot] # NoOrder
                      /\ ord[slot].level = [side |-> side, price |-> price]}

\* What they have left to trade, together.
Depth(ord, side, price) ==
    SumOf([slot \in Slots |-> ord[slot].remaining], AtLevel(ord, side, price))

\* What one slot contributes to a level.
Part(ord, slot, side, price) ==
    IF slot \in AtLevel(ord, side, price) THEN ord[slot].remaining ELSE 0

\* What the other slots contribute.
Others(ord, slot, side, price) ==
    SumOf([s \in Slots |-> ord[s].remaining], AtLevel(ord, side, price) \ {slot})

(* A level's depth is the contribution of one slot and that of the       *)
(* others.                                                               *)
LEMMA DepthSplits ==
    ASSUME NEW ord, NEW side, NEW price, IsFiniteSet(AtLevel(ord, side, price)),
           \A s \in AtLevel(ord, side, price) : ord[s].remaining \in Int,
           NEW slot \in Slots
    PROVE  /\ Depth(ord, side, price) \in Int
           /\ Part(ord, slot, side, price) \in Int
           /\ Others(ord, slot, side, price) \in Int
           /\ Depth(ord, side, price)
                = Part(ord, slot, side, price) + Others(ord, slot, side, price)
<1> DEFINE T == AtLevel(ord, side, price)
           F == [s \in Slots |-> ord[s].remaining]
<1>1. T \subseteq Slots /\ \A s \in T : F[s] \in Int
  BY DEF AtLevel
<1>2. /\ F[slot] = ord[slot].remaining
      /\ Depth(ord, side, price) = SumOf(F, T)
      /\ Others(ord, slot, side, price) = SumOf(F, T \ {slot})
  BY DEF Depth, Others
<1> HIDE DEF T, F
<1>3. CASE slot \in T
  <2>1. /\ SumOf(F, T) \in Int /\ SumOf(F, T \ {slot}) \in Int
        /\ SumOf(F, T) = F[slot] + SumOf(F, T \ {slot})
    BY <1>1, <1>3, SumSplit DEF T
  <2>2. Part(ord, slot, side, price) = F[slot] /\ F[slot] \in Int
    BY <1>1, <1>2, <1>3 DEF Part, T
  <2> QED
    BY <1>2, <2>1, <2>2
<1>4. CASE slot \notin T
  <2>1. T \ {slot} = T
    BY <1>4
  <2>2. PICK f \in [SUBSET T -> Int] : AreSums(f, F, T)
    BY <1>1, SumsExist DEF T
  <2>3. SumOf(F, T) = f[T]
    BY <1>1, <2>2, SumIs DEF T
  <2>4. SumOf(F, T) \in Int
    BY <2>2, <2>3
  <2>5. Part(ord, slot, side, price) = 0
    BY <1>4 DEF Part, T
  <2>6. Others(ord, slot, side, price) = SumOf(F, T)
    BY <1>2, <2>1
  <2> QED
    BY <1>2, <2>4, <2>5, <2>6
<1> QED
  BY <1>3, <1>4

(* A step that touches one slot changes a level's depth by the change of *)
(* that slot's contribution.                                             *)
LEMMA DepthChanges ==
    ASSUME NEW ord, NEW ord2, NEW slot \in Slots,
           \A s \in Slots : s # slot => ord2[s] = ord[s],
           NEW side, NEW price,
           IsFiniteSet(AtLevel(ord, side, price)),
           IsFiniteSet(AtLevel(ord2, side, price)),
           \A s \in AtLevel(ord, side, price) : ord[s].remaining \in Int,
           \A s \in AtLevel(ord2, side, price) : ord2[s].remaining \in Int
    PROVE  /\ Depth(ord, side, price) \in Int
           /\ Depth(ord2, side, price)
                = Depth(ord, side, price) - Part(ord, slot, side, price)
                  + Part(ord2, slot, side, price)
<1> DEFINE F  == [s \in Slots |-> ord[s].remaining]
           F2 == [s \in Slots |-> ord2[s].remaining]
           T  == AtLevel(ord, side, price) \ {slot}
           T2 == AtLevel(ord2, side, price) \ {slot}
<1>0. /\ Others(ord, slot, side, price) = SumOf(F, T)
      /\ Others(ord2, slot, side, price) = SumOf(F2, T2)
  BY DEF Others
<1>1. T = T2
  BY DEF AtLevel
<1>2. IsFiniteSet(T)
  BY FS_Subset
<1>3. \A s \in T : F[s] \in Int /\ F[s] = F2[s]
  BY DEF AtLevel
<1> HIDE DEF T, T2, F, F2
<1>4. SumOf(F, T) = SumOf(F2, T)
  BY <1>2, <1>3, SumCongruence
<1>5. Others(ord, slot, side, price) = Others(ord2, slot, side, price)
  BY <1>0, <1>1, <1>4
<1>6. /\ Depth(ord, side, price) \in Int
      /\ Part(ord, slot, side, price) \in Int
      /\ Others(ord, slot, side, price) \in Int
      /\ Depth(ord, side, price)
           = Part(ord, slot, side, price) + Others(ord, slot, side, price)
  BY DepthSplits
<1>7. /\ Part(ord2, slot, side, price) \in Int
      /\ Depth(ord2, side, price)
           = Part(ord2, slot, side, price) + Others(ord2, slot, side, price)
  BY DepthSplits
<1> QED
  BY <1>5, <1>6, <1>7

(* A level nobody rests at has no depth.                                 *)
LEMMA DepthOfNobody ==
    ASSUME NEW ord, NEW side, NEW price, AtLevel(ord, side, price) = {}
    PROVE  Depth(ord, side, price) = 0
BY SumEmpty DEF Depth

(* Depth is the sum that DepthIsSum compares quantity_at() with.         *)
LEMMA DepthIsRemaining ==
    ASSUME TypeOK, IsFiniteSet(InUse), NEW side \in Side, NEW price \in Price
    PROVE  RemainingIn(side, price) = Depth(order, side, price)
<1> DEFINE T == AtLevel(order, side, price)
           F == [s \in Slots |-> order[s].remaining]
<1>1. T = {slot \in InUse : order[slot].level = [side |-> side, price |-> price]}
  BY DEF InUse, AtLevel
<1>2. T \subseteq Slots /\ IsFiniteSet(T) /\ \A s \in T : F[s] \in Int
  BY <1>1, FS_Subset DEF InUse, TypeOK, Order
<1> DEFINE Fits(g) == g = [s \in SUBSET T |->
                             IF s = {} THEN 0
                             ELSE order[CHOOSE x \in s : TRUE].remaining
                                  + g[s \ {CHOOSE x \in s : TRUE}]]
<1>3. RemainingIn(side, price) = (CHOOSE g : Fits(g))[T]
  BY <1>1 DEF RemainingIn, MapThenSumSet, MapThenFoldSet
<1>4. \A g : Fits(g) <=> AreSums(g, F, T)
  <2>1. \A s \in SUBSET T : s # {} => F[AnyOf(s)] = order[AnyOf(s)].remaining
    BY <1>2, AnyOfIn
  <2> HIDE DEF T, F
  <2> QED
    BY <2>1 DEF AreSums, AnyOf
<1> HIDE DEF T, F, Fits
<1>5. \E g : Fits(g)
  BY <1>2, <1>4, SumsExist
<1>6. Fits(CHOOSE g : Fits(g))
  BY <1>5
<1>7. SumOf(F, T) = RemainingIn(side, price)
  BY <1>2, <1>3, <1>4, <1>6, SumIs
<1> QED
  BY <1>7 DEF Depth, F, T

\* The strengthening that is inductive together with IInv: the pool holds
\* finitely many orders, and every aggregate is exact.
DepthInv ==
    /\ IsFiniteSet(InUse)
    /\ \A side \in Side, price \in Price :
           QuantityAt(side, price) = Depth(order, side, price)

(* A level's orders are finitely many and have quantities.               *)
LEMMA AtLevelInUse ==
    ASSUME BookTypeOK, IsFiniteSet(InUse), NEW side, NEW price
    PROVE  /\ IsFiniteSet(AtLevel(order, side, price))
           /\ \A s \in AtLevel(order, side, price) : order[s].remaining \in Int
<1>1. AtLevel(order, side, price) \subseteq InUse
  BY DEF AtLevel, InUse
<1>2. IsFiniteSet(AtLevel(order, side, price))
  BY <1>1, FS_Subset
<1>3. \A s \in InUse : order[s].remaining \in Int
  BY DEF BookTypeOK, InUse, Order
<1> QED
  BY <1>1, <1>2, <1>3

(* DepthChanges for a step of the book.                                  *)
LEMMA DepthStep ==
    ASSUME BookTypeOK, BookTypeOK', IsFiniteSet(InUse), IsFiniteSet(InUse'),
           NEW slot \in Slots, \A s \in Slots : s # slot => order'[s] = order[s],
           NEW side \in Side, NEW price \in Price
    PROVE  /\ Depth(order, side, price) \in Int
           /\ Depth(order', side, price)
                = Depth(order, side, price) - Part(order, slot, side, price)
                  + Part(order', slot, side, price)
<1>1. /\ IsFiniteSet(AtLevel(order, side, price))
      /\ \A s \in AtLevel(order, side, price) : order[s].remaining \in Int
  BY AtLevelInUse
<1>2. AtLevel(order', side, price) \subseteq InUse'
  BY DEF AtLevel, InUse
<1>3. IsFiniteSet(AtLevel(order', side, price))
  BY <1>2, FS_Subset
<1>4. \A s \in InUse' : order'[s].remaining \in Int
  BY DEF BookTypeOK, InUse, Order
<1> QED
  BY <1>1, <1>2, <1>3, <1>4, DepthChanges

(* unlink() deducts what the order had left, and an emptied level is     *)
(* erased together with its aggregate.                                   *)
LEMMA RemoveKeepsDepth ==
    ASSUME TypeOK, BookInv, DepthInv, NEW slot \in InUse, UNCHANGED nextSeq,
           RemoveOrder(slot, order[slot].id, order[slot].level),
           Deduct(order[slot].level, order[slot].remaining)
    PROVE  DepthInv'
<1> DEFINE m == order[slot]
<1>1. BookTypeOK
  BY DEF TypeOK, BookTypeOK
<1>2. BookTypeOK' /\ BookInv'
  BY <1>1, RemoveKeepsBook
<1>3. /\ m \in Order /\ m.side \in Side /\ m.price \in Price
      /\ m.level = [side |-> m.side, price |-> m.price]
      /\ m.remaining \in Int /\ slot \in Slots
      /\ \E k \in DOMAIN queue[m.side][m.price] : queue[m.side][m.price][k] = slot
  BY <1>1, InUseIsQueued DEF BookInv, StructuresAgree, Order, InUse
<1>4. order' = [order EXCEPT ![slot] = NoOrder]
  BY DEF RemoveOrder, Release
<1>5. /\ \A s \in Slots : s # slot => order'[s] = order[s]
      /\ order'[slot] = NoOrder /\ InUse' = InUse \ {slot}
  BY <1>1, <1>3, <1>4 DEF BookTypeOK, InUse
<1>6. IsFiniteSet(InUse) /\ IsFiniteSet(InUse')
  BY <1>5, FS_Subset DEF DepthInv
<1> SUFFICES ASSUME NEW side \in Side, NEW price \in Price
             PROVE  QuantityAt(side, price)' = Depth(order', side, price)
  BY <1>6 DEF DepthInv
<1>7. /\ Depth(order, side, price) \in Int
      /\ Depth(order', side, price)
           = Depth(order, side, price) - Part(order, slot, side, price)
             + Part(order', slot, side, price)
  BY <1>1, <1>2, <1>3, <1>5, <1>6, DepthStep
<1>8. Part(order', slot, side, price) = 0
  BY <1>5 DEF Part, AtLevel
<1>9. QuantityAt(side, price) = Depth(order, side, price)
  BY DEF DepthInv
<1>10. /\ total' = [total EXCEPT ![m.side][m.price] = total[m.side][m.price] - m.remaining]
       /\ \E keys : levels' = [levels EXCEPT ![m.side] = keys]
                    /\ (keys = levels[m.side] \/ keys = levels[m.side] \ {m.price})
  <2> DEFINE keys == KeysAfter(levels[m.side], m.price,
                               Unlink(queue[m.side][m.price], slot))
  <2>1. levels' = [levels EXCEPT ![m.side] = keys]
    BY <1>3 DEF RemoveOrder
  <2>2. keys = levels[m.side] \/ keys = levels[m.side] \ {m.price}
    BY DEF KeysAfter
  <2>3. total' = [total EXCEPT ![m.side][m.price] = total[m.side][m.price] - m.remaining]
    BY <1>3 DEF Deduct
  <2> HIDE DEF keys
  <2> QED
    BY <2>1, <2>2, <2>3
<1>11. levels \in [Side -> SUBSET Price] /\ total \in [Side -> [Price -> Int]]
  BY DEF TypeOK
<1>12. CASE side = m.side /\ price = m.price
  <2>1. Part(order, slot, side, price) = m.remaining
    BY <1>3, <1>12 DEF Part, AtLevel, InUse
  <2>2. price \in levels[side]
    <3>1. queue[side][price] \in Seq(Slots) /\ queue[side][price] # <<>>
      BY <1>1, <1>3, <1>12 DEF BookTypeOK
    <3> QED
      BY <1>3, <1>12, <3>1 DEF BookInv, NoEmptyLevel
  <2>3. total[side][price] \in Int /\ total'[side][price] = total[side][price] - m.remaining
    BY <1>3, <1>10, <1>11, <1>12
  <2>4. CASE price \in levels'[side]
    <3>1. QuantityAt(side, price)' = total[side][price] - m.remaining
      BY <2>3, <2>4 DEF QuantityAt
    <3>2. Depth(order, side, price) = total[side][price]
      BY <1>9, <2>2 DEF QuantityAt
    <3> QED
      BY <1>3, <1>7, <1>8, <2>1, <2>3, <3>1, <3>2
  <2>5. CASE price \notin levels'[side]
    <3>1. queue'[side][price] = <<>>
      BY <1>2, <2>5 DEF BookInv, NoEmptyLevel
    <3>2. ASSUME NEW s \in AtLevel(order', side, price) PROVE FALSE
      <4>1. s \in InUse' /\ order'[s].level = [side |-> side, price |-> price]
        BY DEF AtLevel, InUse
      <4>2. /\ s \in InUse /\ order'[s] = order[s]
        BY <1>5, <4>1 DEF InUse
      <4>3. order[s].level = [side |-> order[s].side, price |-> order[s].price]
        BY <1>1, <4>2, InUseIsQueued DEF BookInv, StructuresAgree
      <4>4. order'[s].side = side /\ order'[s].price = price
        BY <4>1, <4>2, <4>3
      <4>5. \E k \in DOMAIN queue'[side][price] : queue'[side][price][k] = s
        BY <1>2, <4>1, <4>4 DEF BookInv, StructuresAgree, QueueComplete
      <4> QED
        BY <3>1, <4>5
    <3>3. AtLevel(order', side, price) = {}
      BY <3>2
    <3>4. Depth(order', side, price) = 0
      BY <3>3, DepthOfNobody
    <3> QED
      BY <2>5, <3>4 DEF QuantityAt
  <2> QED
    BY <2>4, <2>5
<1>13. CASE ~(side = m.side /\ price = m.price)
  <2>1. Part(order, slot, side, price) = 0
    BY <1>3, <1>13 DEF Part, AtLevel
  <2>2. total'[side][price] = total[side][price]
    BY <1>3, <1>10, <1>11, <1>13
  <2>3. price \in levels'[side] <=> price \in levels[side]
    BY <1>3, <1>10, <1>11, <1>13
  <2>4. QuantityAt(side, price)' = QuantityAt(side, price)
    BY <2>2, <2>3 DEF QuantityAt
  <2> QED
    BY <1>7, <1>8, <1>9, <2>1, <2>4
<1> QED
  BY <1>12, <1>13

(* on_fill() deducts what the trade took from the front order.           *)
LEMMA ReduceKeepsDepth ==
    ASSUME TypeOK, BookInv, DepthInv, BookTypeOK', NEW slot \in InUse,
           NEW traded \in Int, 0 < traded, traded < order[slot].remaining,
           order' = [order EXCEPT ![slot] = Reduced(order[slot], traded)],
           Deduct(order[slot].level, traded), UNCHANGED levels
    PROVE  DepthInv'
<1> DEFINE m == order[slot]
<1>1. BookTypeOK
  BY DEF TypeOK, BookTypeOK
<1>3. /\ m \in Order /\ m.side \in Side /\ m.price \in Price
      /\ m.level = [side |-> m.side, price |-> m.price]
      /\ m.remaining \in Int /\ slot \in Slots
      /\ \E k \in DOMAIN queue[m.side][m.price] : queue[m.side][m.price][k] = slot
  BY <1>1, InUseIsQueued DEF BookInv, StructuresAgree, Order, InUse
<1>4. /\ \A s \in Slots : s # slot => order'[s] = order[s]
      /\ order'[slot] = Reduced(m, traded)
  BY <1>1, <1>3 DEF BookTypeOK
<1>5. /\ order'[slot].level = m.level /\ order'[slot].remaining = m.remaining - traded
  BY <1>3, <1>4 DEF Reduced, Order
<1>6. Reduced(m, traded) \in Order
  <2>1. m.remaining \in 1..MaxQty /\ m.remaining - traded \in 1..MaxQty
    BY <1>3, BookConstants DEF Order
  <2> QED
    BY <1>3, <2>1 DEF Order, Reduced
<1>7. InUse' = InUse
  BY <1>3, <1>4, <1>6, BookConstants DEF InUse
<1>8. IsFiniteSet(InUse) /\ IsFiniteSet(InUse')
  BY <1>7 DEF DepthInv
<1> SUFFICES ASSUME NEW side \in Side, NEW price \in Price
             PROVE  QuantityAt(side, price)' = Depth(order', side, price)
  BY <1>8 DEF DepthInv
<1>9. /\ Depth(order, side, price) \in Int
      /\ Depth(order', side, price)
           = Depth(order, side, price) - Part(order, slot, side, price)
             + Part(order', slot, side, price)
  BY <1>1, <1>3, <1>4, <1>8, DepthStep
<1>10. QuantityAt(side, price) = Depth(order, side, price)
  BY DEF DepthInv
<1>11. order[slot] # NoOrder /\ order'[slot] # NoOrder
  BY <1>7 DEF InUse
<1>12. total' = [total EXCEPT ![m.side][m.price] = total[m.side][m.price] - traded]
  BY <1>3 DEF Deduct
<1>13. levels' = levels /\ total \in [Side -> [Price -> Int]]
  BY DEF TypeOK
<1>14. CASE side = m.side /\ price = m.price
  <2>1. /\ Part(order, slot, side, price) = m.remaining
        /\ Part(order', slot, side, price) = m.remaining - traded
    BY <1>3, <1>5, <1>11, <1>14 DEF Part, AtLevel
  <2>2. price \in levels[side]
    BY <1>1, <1>3, <1>14 DEF BookInv, NoEmptyLevel, BookTypeOK
  <2>3. total[side][price] \in Int /\ total'[side][price] = total[side][price] - traded
    BY <1>3, <1>12, <1>13, <1>14
  <2>4. /\ QuantityAt(side, price) = total[side][price]
        /\ QuantityAt(side, price)' = total[side][price] - traded
    BY <1>13, <2>2, <2>3 DEF QuantityAt
  <2> QED
    BY <1>3, <1>9, <1>10, <2>1, <2>3, <2>4
<1>15. CASE ~(side = m.side /\ price = m.price)
  <2>1. Part(order, slot, side, price) = 0 /\ Part(order', slot, side, price) = 0
    BY <1>3, <1>5, <1>15 DEF Part, AtLevel
  <2>2. total'[side][price] = total[side][price]
    BY <1>3, <1>12, <1>13, <1>15
  <2>3. QuantityAt(side, price)' = QuantityAt(side, price)
    BY <1>13, <2>2 DEF QuantityAt
  <2> QED
    BY <1>9, <1>10, <2>1, <2>3
<1> QED
  BY <1>14, <1>15

(* enqueue() adds the new order's quantity, to a level that exists or to *)
(* one that try_emplace makes.                                           *)
LEMMA RestKeepsDepth ==
    ASSUME IInv, IInv', DepthInv, NEW slot \in Slots, Rest(slot)
    PROVE  DepthInv'
<1> DEFINE at  == taker.side
           lim == taker.price
           new == [id |-> taker.id, trader |-> taker.trader, side |-> at,
                   price |-> lim, quantity |-> taker.remaining,
                   remaining |-> taker.remaining, sequence |-> nextSeq,
                   level |-> [side |-> at, price |-> lim]]
           depth == QuantityAt(at, lim)
<1>1. BookTypeOK /\ BookTypeOK'
  BY DEF IInv, TypeOK, BookTypeOK
<1>2. /\ at \in Side /\ lim \in Price /\ taker.remaining \in Int
  BY DEF Rest, IInv, TypeOK, Taker
<1>3. /\ order'  = [order EXCEPT ![slot] = new] /\ order[slot] = NoOrder
      /\ levels' = [levels EXCEPT ![at] = levels[at] \cup {lim}]
      /\ total' = [total EXCEPT ![at][lim] = depth + taker.remaining]
  BY DEF Rest
<1>4. /\ levels \in [Side -> SUBSET Price] /\ total \in [Side -> [Price -> Int]]
      /\ order \in [Slots -> Order \cup {NoOrder}]
  BY DEF IInv, TypeOK
<1>5. /\ \A s \in Slots : s # slot => order'[s] = order[s]
      /\ order'[slot] = new
      /\ \A s \in Side, p \in Price :
             /\ p \in levels'[s] <=> p \in levels[s] \/ (s = at /\ p = lim)
             /\ total'[s][p] = IF s = at /\ p = lim THEN depth + taker.remaining
                               ELSE total[s][p]
  <2> HIDE DEF new, depth
  <2> QED
    BY <1>2, <1>3, <1>4
<1>6. InUse' \subseteq InUse \cup {slot}
  BY <1>5 DEF InUse
<1>7. IsFiniteSet(InUse) /\ IsFiniteSet(InUse')
  <2>1. IsFiniteSet(InUse) /\ IsFiniteSet(InUse \cup {slot})
    BY FS_AddElement DEF DepthInv
  <2> QED
    BY <1>6, <2>1, FS_Subset
<1> SUFFICES ASSUME NEW side \in Side, NEW price \in Price
             PROVE  QuantityAt(side, price)' = Depth(order', side, price)
  BY <1>7 DEF DepthInv
<1>8. /\ Depth(order, side, price) \in Int
      /\ Depth(order', side, price)
           = Depth(order, side, price) - Part(order, slot, side, price)
             + Part(order', slot, side, price)
  BY <1>1, <1>5, <1>7, DepthStep
<1>9. QuantityAt(side, price) = Depth(order, side, price)
  BY DEF DepthInv
<1>10. Part(order, slot, side, price) = 0
  BY <1>3 DEF Part, AtLevel
<1>11. order'[slot] # NoOrder
  <2>1. slot \in InUse'
    <3>1. PICK s : s = slot
      OBVIOUS
    <3>2. index'[taker.id] = slot /\ slot # NoSlot /\ taker.id \in OrderIds
      <4>1. taker.id \in OrderIds /\ index \in [OrderIds -> Slots \cup {NoSlot}]
        BY DEF Rest, IInv, TypeOK, Taker
      <4> QED
        BY <4>1, BookConstants DEF Rest
    <3> QED
      BY <3>2 DEF IInv, BookInv, StructuresAgree, IndexSound
  <2> QED
    BY <2>1 DEF InUse
<1>12. new.level = [side |-> at, price |-> lim] /\ new.remaining = taker.remaining
  OBVIOUS
<1> HIDE DEF new
<1>13. CASE side = at /\ price = lim
  <2>1. Part(order', slot, side, price) = taker.remaining
    BY <1>5, <1>11, <1>12, <1>13 DEF Part, AtLevel
  <2>2. QuantityAt(side, price)' = depth + taker.remaining
    BY <1>5, <1>13 DEF QuantityAt
  <2> QED
    BY <1>2, <1>8, <1>9, <1>10, <1>13, <2>1, <2>2
<1>14. CASE ~(side = at /\ price = lim)
  <2>1. Part(order', slot, side, price) = 0
    BY <1>2, <1>5, <1>12, <1>14 DEF Part, AtLevel
  <2>2. QuantityAt(side, price)' = QuantityAt(side, price)
    <3>1. /\ price \in levels'[side] <=> price \in levels[side]
          /\ total'[side][price] = total[side][price]
      BY <1>5, <1>14
    <3> QED
      BY <3>1 DEF QuantityAt
  <2> QED
    BY <1>8, <1>9, <1>10, <2>1, <2>2
<1> QED
  BY <1>13, <1>14

(* An empty book has no depth.                                           *)
LEMMA DepthInvInit == Init => DepthInv
<1> SUFFICES ASSUME Init PROVE DepthInv
  OBVIOUS
<1>1. InUse = {} /\ \A side \in Side : levels[side] = {}
  BY DEF Init, InUse
<1>2. ASSUME NEW side \in Side, NEW price \in Price
      PROVE  QuantityAt(side, price) = Depth(order, side, price)
  <2>1. AtLevel(order, side, price) = {}
    BY <1>1 DEF AtLevel, InUse
  <2>2. QuantityAt(side, price) = 0
    BY <1>1 DEF QuantityAt
  <2> QED
    BY <2>1, <2>2, DepthOfNobody
<1> QED
  BY <1>1, <1>2, FS_EmptySet DEF DepthInv

(* Every step of submit() and cancel() keeps the aggregates exact. A     *)
(* maker that a trade uses up is deducted by on_fill() and unlinked with *)
(* nothing left.                                                         *)
LEMMA DepthInvNext == ASSUME IInv, DepthInv, [Next]_vars PROVE DepthInv'
<1>1. IInv'
  BY NextIInv
<1>2. TypeOK /\ BookInv
  BY DEF IInv
<1>3. CASE UNCHANGED book
  <2>1. levels' = levels /\ total' = total /\ order' = order
    BY <1>3 DEF book
  <2>2. InUse' = InUse
    BY <2>1 DEF InUse
  <2>3. ASSUME NEW side \in Side, NEW price \in Price
        PROVE  QuantityAt(side, price)' = Depth(order', side, price)
    BY <2>1 DEF QuantityAt, DepthInv
  <2> QED
    BY <2>2, <2>3 DEF DepthInv
<1>4. CASE MeetsOwn /\ CancelResting
  <2>1. Oldest \in InUse /\ order[Oldest].level = Facing
    BY <1>2, <1>4, OldestIsResting DEF MeetsOwn
  <2> QED
    BY <1>2, <1>4, <2>1, RemoveKeepsDepth DEF CancelResting
<1>5. CASE Fill
  <2>1. /\ Oldest \in InUse /\ order[Oldest].level = Facing
        /\ taker \in Taker /\ order[Oldest] \in Order
    BY <1>2, <1>5, OldestIsResting DEF Fill
  <2> DEFINE maker  == order[Oldest]
             traded == TradeSize(maker)
  <2>2. /\ maker.remaining \in Int /\ taker.remaining \in Int
        /\ maker.remaining > 0 /\ taker.remaining > 0
    BY <1>5, <2>1, BookConstants DEF Fill, Marketable, Taker, Order
  <2>3. traded \in Int /\ 0 < traded /\ traded <= maker.remaining
    BY <2>2 DEF TradeSize
  <2>4. Deduct(maker.level, traded) /\ nextSeq' = nextSeq
    BY <1>5, <2>1 DEF Fill
  <2>5. CASE traded = maker.remaining
    <3>1. RemoveOrder(Oldest, maker.id, maker.level)
      BY <1>5, <2>1, <2>5 DEF Fill
    <3> HIDE DEF traded
    <3> QED
      BY <1>2, <2>1, <2>4, <2>5, <3>1, RemoveKeepsDepth
  <2>6. CASE traded # maker.remaining
    <3>1. order' = [order EXCEPT ![Oldest] = Reduced(maker, traded)] /\ levels' = levels
      BY <1>5, <2>6 DEF Fill
    <3>2. BookTypeOK'
      BY <1>1 DEF IInv, TypeOK, BookTypeOK
    <3>3. traded < maker.remaining
      BY <2>2, <2>3, <2>6
    <3> HIDE DEF traded
    <3> QED
      BY <1>2, <2>1, <2>3, <2>4, <3>1, <3>2, <3>3, ReduceKeepsDepth
  <2> QED
    BY <2>5, <2>6
<1>6. ASSUME NEW id \in OrderIds, Cancel(id) PROVE DepthInv'
  <2>1. index[id] \in InUse /\ order[index[id]].id = id
    BY <1>2, <1>6 DEF Cancel, BookInv, StructuresAgree, IndexSound
  <2> QED
    BY <1>2, <1>6, <2>1, RemoveKeepsDepth DEF Cancel
<1>7. ASSUME NEW slot \in Slots, Rest(slot) PROVE DepthInv'
  BY <1>1, <1>7, RestKeepsDepth
<1>8. \/ UNCHANGED book \/ (MeetsOwn /\ CancelResting) \/ Fill
      \/ \E id \in OrderIds : Cancel(id)
      \/ \E slot \in Slots : Rest(slot)
  BY DEF Next, Call, Match, PreventSelfTrade, Reject, Submit, CancelMiss,
         CancelAggressing, FullyFilled, vars
<1> QED
  BY <1>3, <1>4, <1>5, <1>6, <1>7, <1>8

(* The pool holds finitely many orders and the incremental aggregates    *)
(* are exact, at every step of every call.                               *)
THEOREM DepthNeverDrifts == Spec => []DepthInv
<1>1. IInv /\ DepthInv /\ [Next]_vars => DepthInv'
  BY DepthInvNext
<1> QED
  BY <1>1, DepthInvInit, BookIsSound, PTL DEF Spec

(* quantity_at() is the sum of the remaining quantities at its price:    *)
(* what enqueue() adds, on_fill() and unlink() subtract never drifts.    *)
THEOREM DepthIsExact == Spec => []DepthIsSum
<1>1. IInv /\ DepthInv => DepthIsSum
  <2> SUFFICES ASSUME IInv, DepthInv, NEW side \in Side, NEW price \in Price
               PROVE  QuantityAt(side, price) = RemainingIn(side, price)
    BY DEF DepthIsSum
  <2>1. RemainingIn(side, price) = Depth(order, side, price)
    BY DepthIsRemaining DEF IInv, DepthInv
  <2> QED
    BY <2>1 DEF DepthInv
<1> QED
  BY <1>1, DepthNeverDrifts, BookIsSound, PTL

-----------------------------------------------------------------------------
(* Price-time priority is a total order of a book. *)

\* What the loop-free specification needs of a set of resting orders:
\* finitely many, sized, and no two of one side with the same price and
\* sequence number.
IsBook(B) ==
    /\ IsFiniteSet(B)
    /\ \A m \in B : /\ m.side \in Side /\ m.price \in Int
                    /\ m.remaining \in Nat \ {0} /\ m.sequence \in Int
    /\ \A m, n \in B : m.side = n.side /\ m.price = n.price /\ m.sequence = n.sequence
                           => m = n

\* What it needs of a taker.
IsTaker(t) == t.side \in Side /\ t.price \in Int /\ t.remaining \in Nat

(* Two orders of one side are never each ahead of the other, and of two  *)
(* different ones one is ahead: price-time priority is total.            *)
LEMMA AheadIsStrict ==
    ASSUME NEW B, IsBook(B), NEW m \in B, NEW n \in B, m.side = n.side
    PROVE  /\ ~Priority!Ahead(m, m)
           /\ ~(Priority!Ahead(m, n) /\ Priority!Ahead(n, m))
           /\ m # n => Priority!Ahead(m, n) \/ Priority!Ahead(n, m)
<1>1. /\ m.side = "Buy" \/ m.side = "Sell"
      /\ m.price \in Int /\ n.price \in Int /\ m.sequence \in Int /\ n.sequence \in Int
      /\ m.price = n.price /\ m.sequence = n.sequence => m = n
  BY DEF IsBook, Side
<1> QED
  BY <1>1 DEF Priority!Ahead, Priority!Better

(* Price-time priority is transitive.                                    *)
LEMMA AheadIsTransitive ==
    ASSUME NEW B, IsBook(B), NEW m \in B, NEW n \in B, NEW k \in B,
           m.side = n.side, n.side = k.side,
           Priority!Ahead(m, n), Priority!Ahead(n, k)
    PROVE  Priority!Ahead(m, k)
<1>1. /\ m.side = "Buy" \/ m.side = "Sell"
      /\ m.price \in Int /\ n.price \in Int /\ k.price \in Int
      /\ m.sequence \in Int /\ n.sequence \in Int /\ k.sequence \in Int
  BY DEF IsBook, Side
<1> QED
  BY <1>1 DEF Priority!Ahead, Priority!Better

(* Volume is a sum.                                                      *)
LEMMA VolumeIsSum ==
    ASSUME NEW T, IsFiniteSet(T), \A m \in T : m.remaining \in Int
    PROVE  Priority!Volume(T) = SumOf([m \in T |-> m.remaining], T)
<1> DEFINE F == [m \in T |-> m.remaining]
           Fits(g) == g = [s \in SUBSET T |->
                             IF s = {} THEN 0
                             ELSE (CHOOSE x \in s : TRUE).remaining
                                  + g[s \ {CHOOSE x \in s : TRUE}]]
<1>1. \A y \in T : F[y] \in Int
  OBVIOUS
<1>3. Priority!Volume(T) = (CHOOSE g : Fits(g))[T]
  BY DEF Priority!Volume, Priority!MapThenSumSet, Priority!MapThenFoldSet
<1>4. \A g : Fits(g) <=> AreSums(g, F, T)
  <2>1. \A s \in SUBSET T : s # {} => F[AnyOf(s)] = AnyOf(s).remaining
    BY AnyOfIn
  <2> HIDE DEF F
  <2> QED
    BY <2>1 DEF AreSums, AnyOf
<1> HIDE DEF F, Fits
<1>5. \E g : Fits(g)
  BY <1>1, <1>4, SumsExist
<1>6. Fits(CHOOSE g : Fits(g))
  BY <1>5
<1>7. SumOf(F, T) = Priority!Volume(T)
  BY <1>1, <1>3, <1>4, <1>6, SumIs
<1> QED
  BY <1>7 DEF F

(* Volume is a natural number from which any one order can be set apart. *)
LEMMA VolumeSplits ==
    ASSUME NEW T, IsFiniteSet(T), \A m \in T : m.remaining \in Nat
    PROVE  /\ Priority!Volume(T) \in Nat
           /\ T = {} => Priority!Volume(T) = 0
           /\ \A x \in T : /\ Priority!Volume(T \ {x}) \in Nat
                           /\ Priority!Volume(T)
                                = x.remaining + Priority!Volume(T \ {x})
<1> DEFINE F == [m \in T |-> m.remaining]
<1>1. (\A m \in T : m.remaining \in Int) /\ (\A y \in T : F[y] \in Nat)
  OBVIOUS
<1>2. Priority!Volume(T) = SumOf(F, T)
  BY <1>1, VolumeIsSum
<1>3. SumOf(F, T) \in Nat
  <2> HIDE DEF F
  <2> QED
    BY <1>1, SumNatural
<1>4. T = {} => SumOf(F, T) = 0
  BY SumEmpty
<1>5. ASSUME NEW x \in T
      PROVE  /\ Priority!Volume(T \ {x}) \in Nat
             /\ Priority!Volume(T) = x.remaining + Priority!Volume(T \ {x})
  <2> DEFINE U == T \ {x}
             G == [m \in U |-> m.remaining]
  <2>1. IsFiniteSet(U) /\ (\A m \in U : m.remaining \in Int)
    BY <1>1, FS_Subset
  <2>2. \A y \in U : F[y] \in Int /\ F[y] = G[y] /\ G[y] \in Nat
    BY <1>1
  <2>3. Priority!Volume(U) = SumOf(G, U)
    <3> HIDE DEF U
    <3> QED
      BY <2>1, VolumeIsSum
  <2>4. SumOf(F, T) = x.remaining + SumOf(F, U)
    <3>1. F[x] = x.remaining /\ \A y \in T : F[y] \in Int
      BY <1>1
    <3> HIDE DEF F
    <3> QED
      BY <3>1, SumSplit
  <2> HIDE DEF U, F, G
  <2>5. SumOf(F, U) = SumOf(G, U) /\ SumOf(G, U) \in Nat
    BY <2>1, <2>2, SumCongruence, SumNatural
  <2> QED
    BY <1>2, <2>3, <2>4, <2>5 DEF U
<1> QED
  BY <1>2, <1>3, <1>4, <1>5

-----------------------------------------------------------------------------
(* What reaches a maker. *)

\* The orders whose shares come before m's.
Served(B, t, m) ==
    {n \in Priority!Contra(B, t) : Priority!Ahead(n, m) /\ ~Priority!Own(n, t)}

(* The orders a taker may trade with, gets to and trades with are        *)
(* finitely many orders of the book, all of one side.                    *)
LEMMA ContraIsPart ==
    ASSUME NEW B, IsBook(B), NEW t
    PROVE  /\ Priority!Contra(B, t) \subseteq B /\ IsFiniteSet(Priority!Contra(B, t))
           /\ Priority!Reached(B, t) \subseteq Priority!Contra(B, t)
           /\ Priority!Hit(B, t) \subseteq Priority!Reached(B, t)
           /\ IsFiniteSet(Priority!Hit(B, t))
           /\ \A m, n \in Priority!Contra(B, t) : m.side = n.side
<1>1. Priority!Contra(B, t) \subseteq B /\ \A m, n \in Priority!Contra(B, t) : m.side = n.side
  BY DEF Priority!Contra
<1>2. /\ Priority!Reached(B, t) \subseteq Priority!Contra(B, t)
      /\ Priority!Hit(B, t) \subseteq Priority!Reached(B, t)
  BY DEF Priority!Reached, Priority!Hit
<1>3. IsFiniteSet(B)
  BY DEF IsBook
<1>4. IsFiniteSet(Priority!Contra(B, t))
  BY <1>1, <1>3, FS_Subset
<1>5. IsFiniteSet(Priority!Hit(B, t))
  <2>1. Priority!Hit(B, t) \subseteq B
    BY <1>1, <1>2
  <2> QED
    BY <1>3, <2>1, FS_Subset
<1> QED
  BY <1>1, <1>2, <1>4, <1>5

(* So are the ones served before m, and what they leave is m's budget.   *)
LEMMA ServedIsPart ==
    ASSUME NEW B, IsBook(B), NEW t, NEW m
    PROVE  /\ IsFiniteSet(Served(B, t, m))
           /\ \A n \in Served(B, t, m) : n.remaining \in Nat /\ n.remaining > 0
           /\ Priority!Budget(B, t, m) = t.remaining - Priority!Volume(Served(B, t, m))
<1>1. Served(B, t, m) \subseteq Priority!Contra(B, t)
  BY DEF Served
<1>2. Priority!Contra(B, t) \subseteq B /\ IsFiniteSet(Priority!Contra(B, t))
  BY ContraIsPart
<1>3. IsFiniteSet(Served(B, t, m))
  BY <1>1, <1>2, FS_Subset
<1>4. \A n \in Served(B, t, m) : n.remaining \in Nat /\ n.remaining > 0
  BY <1>1, <1>2 DEF IsBook
<1> QED
  BY <1>3, <1>4 DEF Priority!Budget, Served

(* The budget never exceeds what the taker brought, and every order      *)
(* served before takes its whole quantity from it.                       *)
LEMMA BudgetIsBounded ==
    ASSUME NEW B, IsBook(B), NEW t, IsTaker(t), NEW m
    PROVE  /\ Priority!Budget(B, t, m) \in Int
           /\ Priority!Budget(B, t, m) <= t.remaining
           /\ Served(B, t, m) = {} => Priority!Budget(B, t, m) = t.remaining
           /\ \A n \in Served(B, t, m) :
                  Priority!Budget(B, t, m) <= t.remaining - n.remaining
<1> DEFINE S == Served(B, t, m)
<1>1. /\ IsFiniteSet(S)
      /\ \A n \in S : n.remaining \in Nat
      /\ Priority!Budget(B, t, m) = t.remaining - Priority!Volume(S)
  BY ServedIsPart
<1> HIDE DEF S
<1>2. /\ Priority!Volume(S) \in Nat
      /\ S = {} => Priority!Volume(S) = 0
      /\ \A x \in S : /\ Priority!Volume(S \ {x}) \in Nat
                      /\ Priority!Volume(S) = x.remaining + Priority!Volume(S \ {x})
  BY <1>1, VolumeSplits
<1>3. t.remaining \in Nat
  BY DEF IsTaker
<1>4. ASSUME NEW x \in S PROVE Priority!Volume(S) >= x.remaining
  <2>1. /\ Priority!Volume(S \ {x}) \in Nat /\ x.remaining \in Nat
        /\ Priority!Volume(S) = x.remaining + Priority!Volume(S \ {x})
    BY <1>1, <1>2
  <2> QED
    BY <2>1
<1> QED
  BY <1>1, <1>2, <1>3, <1>4 DEF S

(* A maker's share is the smaller of what it has and what reaches it.    *)
LEMMA ShareIs ==
    ASSUME NEW B, NEW t, NEW m, m.remaining \in Int, Priority!Budget(B, t, m) \in Int
    PROVE  Priority!Share(B, t, m) = IF m.remaining <= Priority!Budget(B, t, m)
                                     THEN m.remaining ELSE Priority!Budget(B, t, m)
BY DEF Priority!Share, Priority!Min

(* What is left of the taker is what it brought without the sum of the   *)
(* shares.                                                               *)
LEMMA LeftIsSum ==
    ASSUME NEW B, NEW t, IsFiniteSet(Priority!Hit(B, t)),
           \A m \in Priority!Hit(B, t) : Priority!Share(B, t, m) \in Int
    PROVE  Priority!Left(B, t) =
               t.remaining - SumOf([m \in Priority!Hit(B, t) |-> Priority!Share(B, t, m)],
                                   Priority!Hit(B, t))
<1> DEFINE T == Priority!Hit(B, t)
           F == [m \in T |-> Priority!Share(B, t, m)]
           Fits(g) == g = [s \in SUBSET T |->
                             IF s = {} THEN 0
                             ELSE Priority!Share(B, t, CHOOSE x \in s : TRUE)
                                  + g[s \ {CHOOSE x \in s : TRUE}]]
<1>1. \A y \in T : F[y] \in Int
  OBVIOUS
<1>3. Priority!Left(B, t) = t.remaining - (CHOOSE g : Fits(g))[T]
  BY DEF Priority!Left, Priority!MapThenSumSet, Priority!MapThenFoldSet
<1>4. \A g : Fits(g) <=> AreSums(g, F, T)
  <2>1. \A s \in SUBSET T : s # {} => F[AnyOf(s)] = Priority!Share(B, t, AnyOf(s))
    BY AnyOfIn
  <2> HIDE DEF F, T
  <2> QED
    BY <2>1, ZenonT(30) DEF AreSums, AnyOf
<1> HIDE DEF F, Fits, T
<1>5. \E g : Fits(g)
  BY <1>1, <1>4, SumsExist DEF T
<1>6. Fits(CHOOSE g : Fits(g))
  BY <1>5
<1>7. SumOf(F, T) = (CHOOSE g : Fits(g))[T]
  BY <1>1, <1>4, <1>6, SumIs DEF T
<1> QED
  BY <1>3, <1>7 DEF F, T

(* A maker that is hit is somebody else's order and gives a positive     *)
(* quantity, no more than it has.                                        *)
LEMMA SharesAreBounded ==
    ASSUME NEW B, IsBook(B), NEW t, IsTaker(t), NEW m \in Priority!Hit(B, t)
    PROVE  /\ Priority!Share(B, t, m) \in Nat \ {0}
           /\ Priority!Share(B, t, m) <= m.remaining
           /\ m.remaining \in Nat \ {0} /\ m \in B /\ ~Priority!Own(m, t)
<1>1. m \in B /\ m \in Priority!Reached(B, t)
  BY ContraIsPart
<1>2. ~Priority!Own(m, t)
  BY <1>1 DEF Priority!Hit, Priority!Prevented
<1>3. m.remaining \in Nat \ {0}
  BY <1>1 DEF IsBook
<1>4. Priority!Budget(B, t, m) \in Int /\ Priority!Budget(B, t, m) > 0
  BY <1>1, BudgetIsBounded DEF Priority!Reached
<1>5. Priority!Share(B, t, m) = IF m.remaining <= Priority!Budget(B, t, m)
                                THEN m.remaining ELSE Priority!Budget(B, t, m)
  BY <1>3, <1>4, ShareIs
<1> QED
  BY <1>1, <1>2, <1>3, <1>4, <1>5

-----------------------------------------------------------------------------
(* The order in which makers trade. *)

\* The makers of H that are ahead of m.
AheadOfIt(H, m) == {n \in H : Priority!Ahead(n, m)}

(* The instance counts as the module does.                               *)
LEMMA CardinalityIs == \A S : Priority!Cardinality(S) = Cardinality(S)
BY Zenon DEF Priority!Cardinality, Cardinality

(* A maker's turn is one more than the number of makers ahead of it.     *)
LEMMA TurnIs ==
    ASSUME NEW H, NEW m
    PROVE  Priority!Turn(H, m) = Cardinality(AheadOfIt(H, m)) + 1
BY CardinalityIs, Zenon DEF Priority!Turn, AheadOfIt

(* No two makers have the same turn, and turns run from 1 to the number  *)
(* of makers.                                                            *)
LEMMA TurnsAreDistinct ==
    ASSUME NEW B, IsBook(B), NEW H \in SUBSET B, \A m, n \in H : m.side = n.side
    PROVE  /\ IsFiniteSet(H) /\ Cardinality(H) \in Nat
           /\ \A m \in H : Priority!Turn(H, m) \in 1..Cardinality(H)
           /\ \A m, n \in H : Priority!Turn(H, m) = Priority!Turn(H, n) => m = n
<1>1. IsFiniteSet(H) /\ Cardinality(H) \in Nat
  BY FS_Subset, FS_CardinalityType DEF IsBook
<1>2. ASSUME NEW m \in H
      PROVE  /\ IsFiniteSet(AheadOfIt(H, m)) /\ Cardinality(AheadOfIt(H, m)) \in Nat
             /\ Cardinality(AheadOfIt(H, m)) + 1 <= Cardinality(H)
             /\ Priority!Turn(H, m) = Cardinality(AheadOfIt(H, m)) + 1
  <2>1. AheadOfIt(H, m) \subseteq H \ {m}
    BY AheadIsStrict DEF AheadOfIt
  <2>2. /\ IsFiniteSet(H \ {m}) /\ Cardinality(H \ {m}) = Cardinality(H) - 1
    BY <1>1, FS_RemoveElement
  <2>3. /\ IsFiniteSet(AheadOfIt(H, m))
        /\ Cardinality(AheadOfIt(H, m)) <= Cardinality(H \ {m})
    BY <2>1, <2>2, FS_Subset
  <2>4. Cardinality(AheadOfIt(H, m)) \in Nat
    BY <2>3, FS_CardinalityType
  <2> QED
    BY <1>1, <2>2, <2>3, <2>4, TurnIs
<1>3. ASSUME NEW m \in H, NEW n \in H, Priority!Ahead(m, n)
      PROVE  Priority!Turn(H, m) < Priority!Turn(H, n)
  <2> DEFINE M == AheadOfIt(H, m)
             N == AheadOfIt(H, n)
  <2>1. m \notin M
    BY AheadIsStrict DEF AheadOfIt
  <2>2. M \cup {m} \subseteq N
    <3>1. ASSUME NEW x \in H, Priority!Ahead(x, m) PROVE Priority!Ahead(x, n)
      BY <1>3, <3>1, AheadIsTransitive
    <3> QED
      BY <1>3, <3>1 DEF AheadOfIt
  <2>3. /\ IsFiniteSet(M) /\ Cardinality(M) \in Nat
        /\ IsFiniteSet(N) /\ Cardinality(N) \in Nat
        /\ Priority!Turn(H, m) = Cardinality(M) + 1
        /\ Priority!Turn(H, n) = Cardinality(N) + 1
    BY <1>2
  <2> HIDE DEF M, N
  <2>4. Cardinality(M \cup {m}) = Cardinality(M) + 1
    BY <2>1, <2>3, FS_AddElement
  <2>5. Cardinality(M \cup {m}) <= Cardinality(N)
    BY <2>2, <2>3, FS_Subset
  <2> QED
    BY <2>3, <2>4, <2>5
<1>4. \A m \in H : Priority!Turn(H, m) \in 1..Cardinality(H)
  BY <1>1, <1>2
<1>5. ASSUME NEW m \in H, NEW n \in H, Priority!Turn(H, m) = Priority!Turn(H, n), m # n
      PROVE  FALSE
  <2>1. Priority!Ahead(m, n) \/ Priority!Ahead(n, m)
    BY <1>5, AheadIsStrict
  <2>2. Priority!Turn(H, m) \in Int
    BY <1>1, <1>4
  <2> QED
    BY <1>3, <1>5, <2>1, <2>2
<1> QED
  BY <1>1, <1>4, <1>5

(* Every turn is somebody's: an injection between sets of one size is    *)
(* onto.                                                                 *)
LEMMA TurnsAreFilled ==
    ASSUME NEW B, IsBook(B), NEW H \in SUBSET B, \A m, n \in H : m.side = n.side,
           NEW k \in 1..Cardinality(H)
    PROVE  \E m \in H : Priority!Turn(H, m) = k
<1> DEFINE Turns == [m \in H |-> Priority!Turn(H, m)]
           S == 1..Cardinality(H)
<1>1. /\ IsFiniteSet(H) /\ Cardinality(H) \in Nat
      /\ \A m \in H : Priority!Turn(H, m) \in S
      /\ \A m, n \in H : Priority!Turn(H, m) = Priority!Turn(H, n) => m = n
  BY TurnsAreDistinct
<1>2. Turns \in Injection(H, S)
  BY <1>1 DEF Injection, IsInjective
<1>3. IsFiniteSet(S) /\ Cardinality(S) = Cardinality(H)
  BY <1>1, FS_Interval
<1>4. Turns \in Surjection(H, S)
  <2> HIDE DEF Turns, S
  <2> QED
    BY <1>2, <1>3, FS_Injection
<1>5. \E m \in H : Turns[m] = k
  BY <1>4 DEF Surjection
<1> QED
  BY <1>5

\* The maker whose turn is k.
Maker(H, k) == CHOOSE m \in H : Priority!Turn(H, m) = k

\* The trade of t with m.
TradeWith(B, t, m) ==
    [price        |-> m.price,
     quantity     |-> Priority!Share(B, t, m),
     taker_id     |-> t.id,
     maker_id     |-> m.id,
     taker_trader |-> t.trader,
     maker_trader |-> m.trader,
     taker_side   |-> t.side]

(* The trades of t are one per turn.                                     *)
LEMMA TradesAre ==
    ASSUME NEW B, NEW t
    PROVE  Priority!TradesOf(B, t) =
               [k \in 1..Cardinality(Priority!Hit(B, t)) |->
                   TradeWith(B, t, Maker(Priority!Hit(B, t), k))]
BY CardinalityIs, Zenon DEF Priority!TradesOf, TradeWith, Maker

(* The maker whose turn is k is the only one.                            *)
LEMMA MakerIs ==
    ASSUME NEW B, IsBook(B), NEW H \in SUBSET B, \A m, n \in H : m.side = n.side,
           NEW m \in H, NEW k, Priority!Turn(H, m) = k
    PROVE  Maker(H, k) = m
<1>1. \A n \in H : Priority!Turn(H, n) = k => n = m
  BY TurnsAreDistinct
<1> QED
  BY <1>1 DEF Maker

(* Without the first maker everybody moves up by one turn.               *)
LEMMA FirstTurn ==
    ASSUME NEW B, IsBook(B), NEW H \in SUBSET B, \A m, n \in H : m.side = n.side,
           NEW f \in H, \A n \in H \ {f} : Priority!Ahead(f, n)
    PROVE  /\ Cardinality(H) \in Nat /\ Cardinality(H \ {f}) = Cardinality(H) - 1
           /\ Maker(H, 1) = f
           /\ \A k \in 1..(Cardinality(H) - 1) :
                  Maker(H, k + 1) = Maker(H \ {f}, k) /\ Maker(H \ {f}, k) \in H \ {f}
<1> DEFINE R == H \ {f}
<1>1. /\ IsFiniteSet(H) /\ Cardinality(H) \in Nat /\ IsFiniteSet(R)
      /\ Cardinality(R) = Cardinality(H) - 1
  BY TurnsAreDistinct, FS_RemoveElement
<1>2. Priority!Turn(H, f) = 1
  <2>1. AheadOfIt(H, f) = {}
    <3> SUFFICES ASSUME NEW n \in H, Priority!Ahead(n, f) PROVE FALSE
      BY DEF AheadOfIt
    <3>1. CASE n = f
      BY <3>1, AheadIsStrict
    <3>2. CASE n # f
      BY <3>2, AheadIsStrict
    <3> QED
      BY <3>1, <3>2
  <2>2. Cardinality(AheadOfIt(H, f)) = 0
    BY <2>1, FS_EmptySet
  <2> QED
    BY <2>2, TurnIs
<1>3. ASSUME NEW m \in R
      PROVE  Priority!Turn(H, m) = Priority!Turn(R, m) + 1
  <2>1. AheadOfIt(H, m) = AheadOfIt(R, m) \cup {f} /\ f \notin AheadOfIt(R, m)
    BY DEF AheadOfIt
  <2>2. AheadOfIt(R, m) \subseteq R
    BY DEF AheadOfIt
  <2>3. IsFiniteSet(AheadOfIt(R, m)) /\ Cardinality(AheadOfIt(R, m)) \in Nat
    BY <1>1, <2>2, FS_Subset, FS_CardinalityType
  <2>4. Cardinality(AheadOfIt(H, m)) = Cardinality(AheadOfIt(R, m)) + 1
    BY <2>1, <2>3, FS_AddElement
  <2> QED
    BY <2>3, <2>4, TurnIs
<1>4. Maker(H, 1) = f
  BY <1>2, MakerIs
<1>5. ASSUME NEW k \in 1..(Cardinality(H) - 1)
      PROVE  Maker(H, k + 1) = Maker(R, k) /\ Maker(R, k) \in R
  <2>1. R \in SUBSET B /\ (\A m, n \in R : m.side = n.side) /\ k \in 1..Cardinality(R)
    BY <1>1
  <2>2. PICK m \in R : Priority!Turn(R, m) = k
    <3> HIDE DEF R
    <3> QED
      BY <2>1, TurnsAreFilled
  <2>3. Priority!Turn(H, m) = k + 1 /\ m \in H
    BY <1>3, <2>2
  <2>4. Maker(H, k + 1) = m
    BY <2>3, MakerIs
  <2>5. Maker(R, k) = m
    <3> HIDE DEF R
    <3> QED
      BY <2>1, <2>2, MakerIs
  <2> QED
    BY <2>2, <2>4, <2>5
<1> QED
  BY <1>1, <1>4, <1>5

-----------------------------------------------------------------------------
(* Taking the first order off the book. *)

\* f is the order the taker meets first: it may trade with it, and it is
\* ahead of all the others.
First(B, t, f) ==
    /\ f \in Priority!Contra(B, t)
    /\ \A n \in Priority!Contra(B, t) \ {f} : Priority!Ahead(f, n)

\* t2 is what is left of the taker t of the same submit().
SameCall(t, t2) ==
    /\ t2.id = t.id /\ t2.trader = t.trader /\ t2.side = t.side
    /\ t2.price = t.price /\ t2.quantity = t.quantity

(* Nobody is ahead of the first order, or served before it.              *)
LEMMA NobodyBeforeFirst ==
    ASSUME NEW B, IsBook(B), NEW t, NEW f, First(B, t, f)
    PROVE  /\ f \in B
           /\ \A n \in Priority!Contra(B, t) : ~Priority!Ahead(n, f)
           /\ Served(B, t, f) = {}
<1>1. f \in B /\ \A n \in Priority!Contra(B, t) : n \in B /\ n.side = f.side
  BY ContraIsPart DEF First
<1>2. ASSUME NEW n \in Priority!Contra(B, t) PROVE ~Priority!Ahead(n, f)
  <2>1. CASE n = f
    BY <1>1, <2>1, AheadIsStrict
  <2>2. CASE n # f
    <3>1. Priority!Ahead(f, n)
      BY <2>2 DEF First
    <3> QED
      BY <1>1, <3>1, AheadIsStrict
  <2> QED
    BY <2>1, <2>2
<1>3. Served(B, t, f) = {}
  BY <1>2 DEF Served
<1> QED
  BY <1>1, <1>2, <1>3

(* The first order gets the taker's whole budget, so it is reached.      *)
LEMMA FirstIsReached ==
    ASSUME NEW B, IsBook(B), NEW t, IsTaker(t), t.remaining > 0, NEW f, First(B, t, f)
    PROVE  /\ Priority!Budget(B, t, f) = t.remaining
           /\ f \in Priority!Reached(B, t)
<1>1. Priority!Budget(B, t, f) = t.remaining
  BY NobodyBeforeFirst, BudgetIsBounded
<1>2. f \in Priority!Contra(B, t)
  BY DEF First
<1>3. \A n \in Priority!Contra(B, t) : ~Priority!Ahead(n, f)
  BY NobodyBeforeFirst
<1> QED
  BY <1>1, <1>2, <1>3 DEF Priority!Reached

(* A book without one of its orders is a book.                           *)
LEMMA BookWithout ==
    ASSUME NEW B, IsBook(B), NEW f
    PROVE  IsBook(B \ {f})
<1>1. IsFiniteSet(B \ {f})
  BY FS_RemoveElement DEF IsBook
<1> QED
  BY <1>1 DEF IsBook

\* What the loop does to the taker when f leaves the book: nothing if f is
\* the taker's own order, else the whole of f is traded.
Takes(t, t2, f) ==
    \/ Priority!Own(f, t) /\ t2 = t /\ Stp # "CancelAggressing"
    \/ ~Priority!Own(f, t) /\ t2.remaining = t.remaining - f.remaining

(* One iteration of match() takes the first order off the book. Nobody   *)
(* else notices: the same orders are reached, the same ones are the      *)
(* taker's own, every maker's share is what it was.                      *)
LEMMA PeelFirst ==
    ASSUME NEW B, IsBook(B), NEW t, IsTaker(t), NEW t2, IsTaker(t2), SameCall(t, t2),
           t.remaining > 0, NEW f, First(B, t, f), Takes(t, t2, f),
           NEW B2, B2 = B \ {f}
    PROVE  /\ Priority!Prevented(B2, t2) = Priority!Prevented(B, t) \ {f}
           /\ Priority!Hit(B2, t2) = Priority!Hit(B, t) \ {f}
           /\ \A m \in Priority!Hit(B2, t2) :
                  Priority!Share(B2, t2, m) = Priority!Share(B, t, m)
<1> DEFINE C == Priority!Contra(B, t)
<1>1. IsBook(B2) /\ f \in B /\ f.remaining \in Nat \ {0}
  BY BookWithout, NobodyBeforeFirst DEF IsBook
<1>2. Priority!Contra(B2, t2) = C \ {f} /\ \A m : Priority!Own(m, t2) <=> Priority!Own(m, t)
  <2>1. t2.side = t.side /\ t2.price = t.price /\ t2.trader = t.trader
    BY DEF SameCall
  <2>2. \A m : Priority!Own(m, t2) <=> Priority!Own(m, t)
    BY <2>1 DEF Priority!Own
  <2>3. Priority!Contra(B2, t2) = C \ {f}
    BY <2>1 DEF Priority!Contra
  <2> QED
    BY <2>2, <2>3
<1>3. ASSUME NEW m \in C \ {f}
      PROVE  Priority!Budget(B2, t2, m) = Priority!Budget(B, t, m)
  <2> DEFINE S  == Served(B, t, m)
             S2 == Served(B2, t2, m)
  <2>1. /\ Priority!Budget(B, t, m) = t.remaining - Priority!Volume(S)
        /\ IsFiniteSet(S) /\ \A n \in S : n.remaining \in Nat
    BY ServedIsPart
  <2>2. Priority!Budget(B2, t2, m) = t2.remaining - Priority!Volume(S2)
    BY <1>1, ServedIsPart
  <2>3. S2 = S \ {f}
    BY <1>2 DEF Served
  <2>4. CASE Priority!Own(f, t) /\ t2 = t
    <3>1. f \notin S
      BY <2>4 DEF Served
    <3>2. S2 = S
      BY <2>3, <3>1
    <3> HIDE DEF S, S2
    <3> QED
      BY <2>1, <2>2, <2>4, <3>2
  <2>5. CASE ~Priority!Own(f, t) /\ t2.remaining = t.remaining - f.remaining
    <3>1. f \in S
      BY <2>5 DEF Served, First
    <3> HIDE DEF S, S2
    <3>2. /\ Priority!Volume(S \ {f}) \in Nat
          /\ Priority!Volume(S) = f.remaining + Priority!Volume(S \ {f})
      BY <2>1, <3>1, VolumeSplits
    <3>3. t.remaining \in Nat /\ t2.remaining \in Nat
      BY DEF IsTaker
    <3>4. Priority!Volume(S2) = Priority!Volume(S \ {f})
      BY <2>3
    <3> QED
      BY <1>1, <2>1, <2>2, <2>5, <3>2, <3>3, <3>4
  <2> QED
    BY <2>4, <2>5 DEF Takes
<1>4. ASSUME NEW m \in C \ {f}, Stp = "CancelAggressing"
      PROVE  (\E n \in C \ {f} : Priority!Own(n, t2) /\ Priority!Ahead(n, m))
             <=> (\E n \in C : Priority!Own(n, t) /\ Priority!Ahead(n, m))
  <2>1. ~Priority!Own(f, t)
    BY <1>4 DEF Takes
  <2> QED
    BY <1>2, <2>1
<1>5. Priority!Reached(B2, t2) = Priority!Reached(B, t) \ {f}
  <2> HIDE DEF C
  <2>1. \A m \in C \ {f} : m \in Priority!Reached(B2, t2) <=> m \in Priority!Reached(B, t)
    <3> SUFFICES ASSUME NEW m \in C \ {f}
                 PROVE  m \in Priority!Reached(B2, t2) <=> m \in Priority!Reached(B, t)
      OBVIOUS
    <3>1. Priority!Budget(B2, t2, m) = Priority!Budget(B, t, m)
      BY <1>3
    <3>2. Stp = "CancelAggressing" =>
            ((\E n \in C \ {f} : Priority!Own(n, t2) /\ Priority!Ahead(n, m))
             <=> (\E n \in C : Priority!Own(n, t) /\ Priority!Ahead(n, m)))
      BY <1>4
    <3>3. m \in Priority!Contra(B2, t2) /\ m \in Priority!Contra(B, t)
      BY <1>2 DEF C
    <3>4. m \in Priority!Reached(B, t) <=>
            /\ Priority!Budget(B, t, m) > 0
            /\ Stp = "CancelAggressing" =>
                   ~ \E n \in C : Priority!Own(n, t) /\ Priority!Ahead(n, m)
      BY <3>3 DEF Priority!Reached, C
    <3>5. m \in Priority!Reached(B2, t2) <=>
            /\ Priority!Budget(B2, t2, m) > 0
            /\ Stp = "CancelAggressing" =>
                   ~ \E n \in C \ {f} : Priority!Own(n, t2) /\ Priority!Ahead(n, m)
      BY <1>2, <3>3 DEF Priority!Reached
    <3> QED
      BY <3>1, <3>2, <3>4, <3>5
  <2>2. Priority!Reached(B2, t2) \subseteq C \ {f} /\ Priority!Reached(B, t) \subseteq C
    BY <1>2 DEF Priority!Reached, C
  <2> QED
    BY <2>1, <2>2
<1>6. Priority!Prevented(B2, t2) = Priority!Prevented(B, t) \ {f}
  BY <1>2, <1>5 DEF Priority!Prevented
<1>7. Priority!Hit(B2, t2) = Priority!Hit(B, t) \ {f}
  BY <1>5, <1>6 DEF Priority!Hit
<1>8. ASSUME NEW m \in Priority!Hit(B2, t2)
      PROVE  Priority!Share(B2, t2, m) = Priority!Share(B, t, m)
  <2>1. m \in C \ {f}
    BY <1>2, <1>5 DEF Priority!Hit, Priority!Reached
  <2>2. Priority!Budget(B2, t2, m) = Priority!Budget(B, t, m)
    BY <1>3, <2>1
  <2> QED
    BY <2>2 DEF Priority!Share
<1> QED
  BY <1>6, <1>7, <1>8

-----------------------------------------------------------------------------
(* The outcome of a call, and what an iteration may not change. *)

(* Every turn up to the number of makers is that of a maker hit.         *)
LEMMA MakersAreHit ==
    ASSUME NEW B, IsBook(B), NEW t
    PROVE  /\ Cardinality(Priority!Hit(B, t)) \in Nat
           /\ \A k \in 1..Cardinality(Priority!Hit(B, t)) :
                  Maker(Priority!Hit(B, t), k) \in Priority!Hit(B, t)
<1> DEFINE H == Priority!Hit(B, t)
<1>1. H \in SUBSET B /\ \A m, n \in H : m.side = n.side
  BY ContraIsPart
<1> HIDE DEF H
<1>2. Cardinality(H) \in Nat
  BY <1>1, TurnsAreDistinct
<1>3. ASSUME NEW k \in 1..Cardinality(H) PROVE Maker(H, k) \in H
  <2>1. PICK m \in H : Priority!Turn(H, m) = k
    BY <1>1, TurnsAreFilled
  <2> QED
    BY <1>1, <2>1, MakerIs
<1> QED
  BY <1>2, <1>3 DEF H

(* Equal makers and equal shares give equal trades.                      *)
LEMMA SameTrades ==
    ASSUME NEW B, IsBook(B), NEW t, NEW B2, NEW t2, SameCall(t, t2),
           Priority!Hit(B2, t2) = Priority!Hit(B, t),
           \A m \in Priority!Hit(B, t) :
               Priority!Share(B2, t2, m) = Priority!Share(B, t, m)
    PROVE  Priority!TradesOf(B2, t2) = Priority!TradesOf(B, t)
<1> DEFINE H == Priority!Hit(B, t)
<1>1. \A m \in H : TradeWith(B2, t2, m) = TradeWith(B, t, m)
  BY DEF TradeWith, SameCall
<1>2. \A k \in 1..Cardinality(H) : Maker(H, k) \in H
  BY MakersAreHit
<1>3. /\ Priority!TradesOf(B, t) = [k \in 1..Cardinality(H) |-> TradeWith(B, t, Maker(H, k))]
      /\ Priority!TradesOf(B2, t2) = [k \in 1..Cardinality(H) |-> TradeWith(B2, t2, Maker(H, k))]
  BY TradesAre
<1> HIDE DEF H
<1> QED
  BY <1>1, <1>2, <1>3

(* Equal shares leave the same of the taker.                             *)
LEMMA SameLeft ==
    ASSUME NEW B, IsBook(B), NEW t, IsTaker(t), NEW B2, NEW t2,
           t2.remaining = t.remaining,
           Priority!Hit(B2, t2) = Priority!Hit(B, t),
           \A m \in Priority!Hit(B, t) :
               Priority!Share(B2, t2, m) = Priority!Share(B, t, m)
    PROVE  Priority!Left(B2, t2) = Priority!Left(B, t)
<1> DEFINE H  == Priority!Hit(B, t)
           F  == [m \in H |-> Priority!Share(B, t, m)]
           F2 == [m \in H |-> Priority!Share(B2, t2, m)]
<1>1. IsFiniteSet(H) /\ \A m \in H : Priority!Share(B, t, m) \in Int
  BY ContraIsPart, SharesAreBounded
<1>2. Priority!Left(B, t) = t.remaining - SumOf(F, H)
  BY <1>1, LeftIsSum
<1>3. Priority!Left(B2, t2) = t2.remaining - SumOf(F2, H)
  <2>1. IsFiniteSet(Priority!Hit(B2, t2)) /\ \A m \in Priority!Hit(B2, t2) : Priority!Share(B2, t2, m) \in Int
    BY <1>1
  <2> QED
    BY <2>1, LeftIsSum
<1>4. SumOf(F2, H) = SumOf(F, H)
  <2>1. \A y \in H : F2[y] \in Int /\ F2[y] = F[y]
    BY <1>1
  <2> HIDE DEF H, F, F2
  <2> QED
    BY <1>1, <2>1, SumCongruence
<1> QED
  BY <1>2, <1>3, <1>4

(* What is left of the taker, and whether CancelAggressing met an own    *)
(* order, decide the status that submit() returns.                       *)
LEMMA SameVerdict ==
    ASSUME NEW B, NEW t, NEW B2, NEW t2, SameCall(t, t2),
           Priority!Left(B2, t2) = Priority!Left(B, t),
           Stp = "CancelAggressing" =>
               (Priority!Prevented(B2, t2) = {} <=> Priority!Prevented(B, t) = {})
    PROVE  /\ Priority!Abandoned(B2, t2) <=> Priority!Abandoned(B, t)
           /\ Priority!Rests(B2, t2) <=> Priority!Rests(B, t)
           /\ Priority!StatusOf(B2, t2) = Priority!StatusOf(B, t)
<1>1. Priority!Abandoned(B2, t2) <=> Priority!Abandoned(B, t)
  BY DEF Priority!Abandoned
<1>2. Priority!Rests(B2, t2) <=> Priority!Rests(B, t)
  BY <1>1 DEF Priority!Rests
<1>3. t2.quantity = t.quantity
  BY DEF SameCall
<1>4. Priority!StatusOf(B2, t2) = Priority!StatusOf(B, t)
  BY <1>1, <1>2, <1>3 DEF Priority!StatusOf
<1> QED
  BY <1>1, <1>2, <1>4

\* The parts After is made of: the orders that leave the book ...
Gone(B, t) ==
    Priority!Hit(B, t) \cup
    (IF Stp = "CancelResting" THEN Priority!Prevented(B, t) ELSE {})

\* ... the makers that stay with less ...
Partial(B, t) == {m \in Priority!Hit(B, t) : Priority!Share(B, t, m) < m.remaining}

\* ... what they become ...
Lowered(B, t, m) == [m EXCEPT !.remaining = m.remaining - Priority!Share(B, t, m)]

\* ... and what is left of the taker, if it rests.
Remainder(B, t, seq) ==
    IF Priority!Rests(B, t)
    THEN {[id |-> t.id, trader |-> t.trader, side |-> t.side, price |-> t.price,
           remaining |-> Priority!Left(B, t), sequence |-> seq]}
    ELSE {}

(* After is made of these parts.                                         *)
LEMMA AfterIs ==
    ASSUME NEW B, NEW t, NEW seq
    PROVE  Priority!After(B, t, seq) =
               (B \ Gone(B, t)) \cup {Lowered(B, t, m) : m \in Partial(B, t)}
               \cup Remainder(B, t, seq)
BY DEF Priority!After, Gone, Partial, Lowered, Remainder

(* Equal parts make equal books.                                         *)
LEMMA SameAfter ==
    ASSUME NEW B, NEW t, NEW B2, NEW t2, SameCall(t, t2), NEW seq,
           B2 \ Gone(B2, t2) = B \ Gone(B, t), Partial(B2, t2) = Partial(B, t),
           \A m \in Partial(B, t) : Priority!Share(B2, t2, m) = Priority!Share(B, t, m),
           Priority!Left(B2, t2) = Priority!Left(B, t),
           Priority!Rests(B2, t2) <=> Priority!Rests(B, t)
    PROVE  Priority!After(B2, t2, seq) = Priority!After(B, t, seq)
<1>1. Remainder(B2, t2, seq) = Remainder(B, t, seq)
  BY DEF Remainder, SameCall
<1>2. \A m \in Partial(B, t) : Lowered(B2, t2, m) = Lowered(B, t, m)
  BY DEF Lowered
<1>3. {Lowered(B2, t2, m) : m \in Partial(B, t)} = {Lowered(B, t, m) : m \in Partial(B, t)}
  BY <1>2
<1> QED
  BY <1>1, <1>3, AfterIs

\* What one iteration of the loop must not change: the outcome of the rest of
\* the call.
SameOutcome(B, t, B2, t2) ==
    /\ Priority!Left(B2, t2) = Priority!Left(B, t)
    /\ Priority!Rests(B2, t2) <=> Priority!Rests(B, t)
    /\ Priority!StatusOf(B2, t2) = Priority!StatusOf(B, t)
    /\ \A seq : Priority!After(B2, t2, seq) = Priority!After(B, t, seq)

(* CancelResting: the taker's own order is cancelled, and the outcome of *)
(* the rest of the call is what it was.                                  *)
LEMMA OwnOrderCancelled ==
    ASSUME NEW B, IsBook(B), NEW t, IsTaker(t), t.remaining > 0, NEW f, First(B, t, f),
           Priority!Own(f, t), Stp = "CancelResting", NEW B2, B2 = B \ {f}
    PROVE  /\ SameOutcome(B, t, B2, t)
           /\ Priority!TradesOf(B2, t) = Priority!TradesOf(B, t)
<1>0. SameCall(t, t) /\ Stp # "CancelAggressing"
  BY DEF SameCall
<1>1. /\ Priority!Prevented(B2, t) = Priority!Prevented(B, t) \ {f}
      /\ Priority!Hit(B2, t) = Priority!Hit(B, t) \ {f}
      /\ \A m \in Priority!Hit(B2, t) :
             Priority!Share(B2, t, m) = Priority!Share(B, t, m)
  <2>1. PICK t2 : t2 = t
    OBVIOUS
  <2>2. IsTaker(t2) /\ SameCall(t, t2)
    BY <1>0, <2>1
  <2>3. Takes(t, t2, f)
    BY <1>0, <2>1 DEF Takes
  <2>4. /\ Priority!Prevented(B2, t2) = Priority!Prevented(B, t) \ {f}
        /\ Priority!Hit(B2, t2) = Priority!Hit(B, t) \ {f}
        /\ \A m \in Priority!Hit(B2, t2) :
               Priority!Share(B2, t2, m) = Priority!Share(B, t, m)
    BY <2>2, <2>3, PeelFirst
  <2> QED
    BY <2>1, <2>4
<1>2. f \in Priority!Prevented(B, t) /\ f \notin Priority!Hit(B, t)
  BY FirstIsReached DEF Priority!Prevented, Priority!Hit
<1>3. Priority!Hit(B2, t) = Priority!Hit(B, t)
  BY <1>1, <1>2
<1>4. \A m \in Priority!Hit(B, t) : Priority!Share(B2, t, m) = Priority!Share(B, t, m)
  BY <1>1, <1>3
<1>5. Priority!Left(B2, t) = Priority!Left(B, t)
  BY <1>3, <1>4, SameLeft
<1>6. Priority!TradesOf(B2, t) = Priority!TradesOf(B, t)
  BY <1>0, <1>3, <1>4, SameTrades
<1>7. /\ Priority!Rests(B2, t) <=> Priority!Rests(B, t)
      /\ Priority!StatusOf(B2, t) = Priority!StatusOf(B, t)
  BY <1>0, <1>5, SameVerdict
<1>8. B2 \ Gone(B2, t) = B \ Gone(B, t)
  BY <1>1, <1>2, <1>3 DEF Gone
<1>9. Partial(B2, t) = Partial(B, t)
  BY <1>3, <1>4 DEF Partial
<1>10. \A m \in Partial(B, t) : Priority!Share(B2, t, m) = Priority!Share(B, t, m)
  BY <1>4 DEF Partial
<1>11. ASSUME NEW seq PROVE Priority!After(B2, t, seq) = Priority!After(B, t, seq)
  BY <1>0, <1>5, <1>7, <1>8, <1>9, <1>10, SameAfter
<1> QED
  BY <1>5, <1>6, <1>7, <1>11 DEF SameOutcome

\* The first maker has left, the other makers and their shares have not
\* changed.
Peeled(B, t, B2, t2, f) ==
    /\ SameCall(t, t2)
    /\ f \in Priority!Hit(B, t)
    /\ \A n \in Priority!Hit(B, t) \ {f} : Priority!Ahead(f, n)
    /\ Priority!Hit(B2, t2) = Priority!Hit(B, t) \ {f}
    /\ \A m \in Priority!Hit(B2, t2) :
           Priority!Share(B2, t2, m) = Priority!Share(B, t, m)

(* The trade with the first maker, followed by the trades of the rest of *)
(* the call, are the trades of the call.                                 *)
LEMMA TradesPrepend ==
    ASSUME NEW B, IsBook(B), NEW t, NEW B2, NEW t2, NEW f, Peeled(B, t, B2, t2, f),
           NEW D, NEW done \in Seq(D)
    PROVE  done \o Priority!TradesOf(B, t)
             = Append(done, TradeWith(B, t, f)) \o Priority!TradesOf(B2, t2)
<1> DEFINE H == Priority!Hit(B, t)
           n == Cardinality(H)
           S == D \cup {TradeWith(B, t, m) : m \in H}
           T  == Priority!TradesOf(B, t)
           T2 == Priority!TradesOf(B2, t2)
           x == TradeWith(B, t, f)
<1>0. /\ SameCall(t, t2) /\ f \in Priority!Hit(B, t)
      /\ \A m \in Priority!Hit(B, t) \ {f} : Priority!Ahead(f, m)
      /\ Priority!Hit(B2, t2) = Priority!Hit(B, t) \ {f}
      /\ \A m \in Priority!Hit(B2, t2) :
             Priority!Share(B2, t2, m) = Priority!Share(B, t, m)
  BY DEF Peeled
<1>1. H \in SUBSET B /\ \A m, k \in H : m.side = k.side
  BY ContraIsPart
<1>2. /\ n \in Nat /\ Cardinality(H \ {f}) = n - 1 /\ Maker(H, 1) = f
      /\ \A k \in 1..(n - 1) :
             Maker(H, k + 1) = Maker(H \ {f}, k) /\ Maker(H \ {f}, k) \in H \ {f}
  <2> HIDE DEF H
  <2> QED
    BY <1>0, <1>1, FirstTurn DEF H
<1>3. n >= 1
  <2>1. H # {} /\ IsFiniteSet(H)
    BY <1>0, ContraIsPart
  <2>2. n # 0
    BY <2>1, FS_EmptySet
  <2> QED
    BY <1>2, <2>2
<1>4. \A k \in 1..n : Maker(H, k) \in H
  BY MakersAreHit
<1>5. T = [k \in 1..n |-> TradeWith(B, t, Maker(H, k))]
  BY TradesAre
<1>6. T2 = [k \in 1..(n - 1) |-> TradeWith(B2, t2, Maker(H \ {f}, k))]
  BY <1>0, <1>2, TradesAre
<1>7. \A m \in H \ {f} : TradeWith(B2, t2, m) = TradeWith(B, t, m)
  BY <1>0 DEF TradeWith, SameCall
<1>8. \A m \in H : TradeWith(B, t, m) \in S
  OBVIOUS
<1>9. x \in S /\ done \in Seq(S)
  BY <1>0, <1>8
<1> HIDE DEF T, T2, S, x
<1>10. T \in Seq(S) /\ Len(T) = n /\ T[1] = x
  <2>1. \A k \in 1..n : TradeWith(B, t, Maker(H, k)) \in S
    BY <1>4, <1>8
  <2>2. 1 \in 1..n /\ TradeWith(B, t, Maker(H, 1)) = x
    BY <1>2, <1>3 DEF x
  <2> HIDE DEF H, n
  <2> QED
    BY <1>2, <1>5, <2>1, <2>2
<1>11. /\ T2 \in Seq(S) /\ Len(T2) = n - 1
       /\ \A k \in 1..(n - 1) : T2[k] = T[k + 1]
  <2>1. \A k \in 1..(n - 1) :
            /\ TradeWith(B2, t2, Maker(H \ {f}, k)) = TradeWith(B, t, Maker(H, k + 1))
            /\ TradeWith(B2, t2, Maker(H \ {f}, k)) \in S
    BY <1>2, <1>7, <1>8
  <2>2. n - 1 \in Nat /\ \A k \in 1..(n - 1) : k + 1 \in 1..n
    BY <1>2, <1>3
  <2> HIDE DEF H, n
  <2>3. \A k \in 1..(n - 1) : T[k + 1] = TradeWith(B, t, Maker(H, k + 1))
    BY <1>5, <2>2
  <2>4. \A k \in 1..(n - 1) : T2[k] = TradeWith(B2, t2, Maker(H \ {f}, k))
    BY <1>6
  <2>5. T2 \in Seq(S) /\ Len(T2) = n - 1
    <3>1. PICK r \in Nat : r = n - 1
      BY <2>2
    <3> DEFINE z(k) == TradeWith(B2, t2, Maker(H \ {f}, k))
    <3>2. T2 = [k \in 1..r |-> z(k)]
      BY <1>6, <3>1
    <3>3. \A k \in 1..r : z(k) \in S
      BY <2>1, <3>1
    <3> HIDE DEF z
    <3>4. T2 \in Seq(S) /\ Len(T2) = r
      BY <3>1, <3>2, <3>3
    <3> QED
      BY <3>1, <3>4
  <2> QED
    BY <2>1, <2>3, <2>4, <2>5
<1>12. T = <<x>> \o T2
  <2>1. <<x>> \in Seq(S) /\ Len(<<x>>) = 1 /\ <<x>>[1] = x
    BY <1>9
  <2>2. /\ <<x>> \o T2 \in Seq(S) /\ Len(<<x>> \o T2) = n
        /\ \A i \in 1..n : (<<x>> \o T2)[i] = IF i <= 1 THEN x ELSE T2[i - 1]
    <3> HIDE DEF H, n
    <3> QED
      BY <1>2, <1>9, <1>11, <2>1
  <2>3. \A i \in 1..n : T[i] = (<<x>> \o T2)[i]
    <3> SUFFICES ASSUME NEW i \in 1..n PROVE T[i] = (<<x>> \o T2)[i]
      OBVIOUS
    <3> HIDE DEF H, n
    <3>1. CASE i = 1
      BY <1>2, <1>10, <2>2, <3>1
    <3>2. CASE i # 1
      <4>1. i - 1 \in 1..(n - 1) /\ (i - 1) + 1 = i /\ ~(i <= 1)
        BY <1>2, <3>2
      <4>2. T2[i - 1] = T[i]
        BY <1>11, <4>1
      <4> QED
        BY <2>2, <4>1, <4>2
    <3> QED
      BY <3>1, <3>2
  <2> QED
    BY <1>10, <2>2, <2>3, SeqEqual
<1>13. /\ (done \o <<x>>) \o T2 = done \o (<<x>> \o T2)
       /\ Append(done, x) = done \o <<x>>
  <2>1. <<x>> \in Seq(S)
    BY <1>9
  <2>2. (done \o <<x>>) \o T2 = done \o (<<x>> \o T2)
    BY <1>9, <1>11, <2>1, ConcatAssociative
  <2>3. Append(done, x) = done \o <<x>>
    BY <1>9, AppendIsConcat
  <2> QED
    BY <2>2, <2>3
<1>14. done \o T = Append(done, x) \o T2
  BY <1>12, <1>13
<1> QED
  BY <1>14 DEF T, T2, x

-----------------------------------------------------------------------------
(* The four ways an iteration or a return goes. *)

(* A taker that hits nobody keeps what it has and reports no trade.      *)
LEMMA NobodyHit ==
    ASSUME NEW B, IsBook(B), NEW t, Priority!Hit(B, t) = {}, t.remaining \in Int
    PROVE  /\ Priority!Left(B, t) = t.remaining
           /\ Priority!TradesOf(B, t) = <<>>
           /\ Partial(B, t) = {}
<1> DEFINE F == [m \in Priority!Hit(B, t) |-> Priority!Share(B, t, m)]
<1>1. Priority!Left(B, t) = t.remaining - SumOf(F, Priority!Hit(B, t))
  BY LeftIsSum, FS_EmptySet
<1> HIDE DEF F
<1>2. SumOf(F, Priority!Hit(B, t)) = 0
  BY SumEmpty
<1>3. Partial(B, t) = {}
  BY DEF Partial
<1>4. Cardinality(Priority!Hit(B, t)) = 0
  BY FS_EmptySet
<1>5. Priority!TradesOf(B, t) = [k \in 1..0 |-> TradeWith(B, t, Maker(Priority!Hit(B, t), k))]
  BY <1>4, TradesAre
<1>6. Priority!TradesOf(B, t) = <<>>
  BY <1>5
<1> QED
  BY <1>1, <1>2, <1>3, <1>6

(* A taker with nothing left reaches nobody: the book stays as it is and *)
(* the call is FullyFilled.                                              *)
LEMMA NothingLeftToTrade ==
    ASSUME NEW B, IsBook(B), NEW t, IsTaker(t), t.remaining = 0
    PROVE  /\ Priority!Hit(B, t) = {} /\ Priority!Left(B, t) = 0
           /\ ~Priority!Rests(B, t)
           /\ Priority!StatusOf(B, t) = "FullyFilled"
           /\ Priority!TradesOf(B, t) = <<>>
           /\ \A seq : Priority!After(B, t, seq) = B
<1>1. Priority!Reached(B, t) = {}
  <2> SUFFICES ASSUME NEW m \in Priority!Reached(B, t) PROVE FALSE
    OBVIOUS
  <2>1. Priority!Budget(B, t, m) > 0
    BY DEF Priority!Reached
  <2>2. Priority!Budget(B, t, m) \in Int /\ Priority!Budget(B, t, m) <= 0
    BY BudgetIsBounded
  <2> QED
    BY <2>1, <2>2
<1>2. Priority!Hit(B, t) = {} /\ Priority!Prevented(B, t) = {}
  BY <1>1 DEF Priority!Hit, Priority!Prevented
<1>3. /\ Priority!Left(B, t) = 0 /\ Priority!TradesOf(B, t) = <<>> /\ Partial(B, t) = {}
  BY <1>2, NobodyHit
<1>4. ~Priority!Rests(B, t) /\ ~Priority!Abandoned(B, t)
  BY <1>2, <1>3 DEF Priority!Rests, Priority!Abandoned
<1>5. Priority!StatusOf(B, t) = "FullyFilled"
  BY <1>3, <1>4 DEF Priority!StatusOf
<1>6. ASSUME NEW seq PROVE Priority!After(B, t, seq) = B
  <2>1. Gone(B, t) = {} /\ Remainder(B, t, seq) = {}
    BY <1>2, <1>4 DEF Gone, Remainder
  <2>2. {Lowered(B, t, m) : m \in Partial(B, t)} = {}
    BY <1>3
  <2> QED
    BY <2>1, <2>2, AfterIs
<1> QED
  BY <1>2, <1>3, <1>4, <1>5, <1>6

(* A taker that crosses nothing rests with what it has left.             *)
LEMMA NobodyToTradeWith ==
    ASSUME NEW B, IsBook(B), NEW t, IsTaker(t), t.remaining > 0,
           Priority!Contra(B, t) = {}
    PROVE  /\ Priority!Left(B, t) = t.remaining
           /\ Priority!Rests(B, t)
           /\ Priority!StatusOf(B, t) = IF t.remaining < t.quantity
                                        THEN "PartiallyFilled" ELSE "Rested"
           /\ Priority!TradesOf(B, t) = <<>>
           /\ \A seq : Priority!After(B, t, seq) =
                  B \cup {[id |-> t.id, trader |-> t.trader, side |-> t.side,
                           price |-> t.price, remaining |-> t.remaining,
                           sequence |-> seq]}
<1>1. Priority!Reached(B, t) = {}
  BY DEF Priority!Reached
<1>2. Priority!Hit(B, t) = {} /\ Priority!Prevented(B, t) = {}
  BY <1>1 DEF Priority!Hit, Priority!Prevented
<1>3. /\ Priority!Left(B, t) = t.remaining
      /\ Priority!TradesOf(B, t) = <<>> /\ Partial(B, t) = {}
  BY <1>2, NobodyHit DEF IsTaker
<1>4. ~Priority!Abandoned(B, t)
  BY <1>2 DEF Priority!Abandoned
<1>5. Priority!Rests(B, t)
  BY <1>3, <1>4 DEF Priority!Rests
<1>6. t.remaining # 0
  BY DEF IsTaker
<1>7. Priority!StatusOf(B, t) = IF t.remaining < t.quantity
                                THEN "PartiallyFilled" ELSE "Rested"
  BY <1>3, <1>4, <1>6 DEF Priority!StatusOf
<1>8. ASSUME NEW seq
      PROVE  Priority!After(B, t, seq) =
                 B \cup {[id |-> t.id, trader |-> t.trader, side |-> t.side,
                          price |-> t.price, remaining |-> t.remaining,
                          sequence |-> seq]}
  <2> DEFINE new == [id |-> t.id, trader |-> t.trader, side |-> t.side,
                     price |-> t.price, remaining |-> t.remaining,
                     sequence |-> seq]
  <2>1. Gone(B, t) = {} /\ Remainder(B, t, seq) = {new}
    BY <1>2, <1>3, <1>5 DEF Gone, Remainder
  <2>2. {Lowered(B, t, m) : m \in Partial(B, t)} = {}
    BY <1>3
  <2> HIDE DEF new
  <2>3. Priority!After(B, t, seq) = B \cup {new}
    BY <2>1, <2>2, AfterIs
  <2> QED
    BY <2>3 DEF new
<1> QED
  BY <1>3, <1>5, <1>7, <1>8

(* CancelAggressing: a taker that meets its own order first trades with  *)
(* nobody and does not rest.                                             *)
LEMMA AggressorAbandoned ==
    ASSUME NEW B, IsBook(B), NEW t, IsTaker(t), t.remaining > 0, NEW f, First(B, t, f),
           Priority!Own(f, t), Stp = "CancelAggressing"
    PROVE  /\ Priority!Left(B, t) = t.remaining
           /\ ~Priority!Rests(B, t)
           /\ Priority!StatusOf(B, t) = "CancelledBySelfTrade"
           /\ Priority!TradesOf(B, t) = <<>>
           /\ \A seq : Priority!After(B, t, seq) = B
<1>1. Priority!Reached(B, t) = {f}
  <2>1. f \in Priority!Reached(B, t)
    BY FirstIsReached
  <2>2. ASSUME NEW m \in Priority!Reached(B, t), m # f PROVE FALSE
    <3>1. m \in Priority!Contra(B, t)
      BY DEF Priority!Reached
    <3>2. Priority!Ahead(f, m) /\ f \in Priority!Contra(B, t)
      BY <2>2, <3>1 DEF First
    <3> QED
      BY <3>2 DEF Priority!Reached
  <2> QED
    BY <2>1, <2>2
<1>2. Priority!Prevented(B, t) = {f} /\ Priority!Hit(B, t) = {}
  BY <1>1 DEF Priority!Prevented, Priority!Hit
<1>3. /\ Priority!Left(B, t) = t.remaining
      /\ Priority!TradesOf(B, t) = <<>> /\ Partial(B, t) = {}
  BY <1>2, NobodyHit DEF IsTaker
<1>4. Priority!Abandoned(B, t) /\ ~Priority!Rests(B, t)
  BY <1>2 DEF Priority!Abandoned, Priority!Rests
<1>5. Priority!StatusOf(B, t) = "CancelledBySelfTrade"
  <2>1. Priority!Left(B, t) # 0
    BY <1>3 DEF IsTaker
  <2> QED
    BY <1>4, <2>1 DEF Priority!StatusOf
<1>6. ASSUME NEW seq PROVE Priority!After(B, t, seq) = B
  <2>1. Gone(B, t) = {} /\ Remainder(B, t, seq) = {}
    BY <1>2, <1>4 DEF Gone, Remainder
  <2>2. {Lowered(B, t, m) : m \in Partial(B, t)} = {}
    BY <1>3
  <2> QED
    BY <2>1, <2>2, AfterIs
<1> QED
  BY <1>3, <1>4, <1>5, <1>6

(* The first order, if it is somebody else's, is hit, for the smaller of *)
(* the two quantities.                                                   *)
LEMMA FirstIsHit ==
    ASSUME NEW B, IsBook(B), NEW t, IsTaker(t), t.remaining > 0, NEW f, First(B, t, f),
           ~Priority!Own(f, t)
    PROVE  /\ f \in Priority!Hit(B, t) /\ f \in B /\ f.remaining \in Nat \ {0}
           /\ \A n \in Priority!Hit(B, t) \ {f} : Priority!Ahead(f, n)
           /\ Priority!Share(B, t, f) = IF f.remaining <= t.remaining
                                        THEN f.remaining ELSE t.remaining
<1>1. f \in Priority!Reached(B, t) /\ Priority!Budget(B, t, f) = t.remaining
  BY FirstIsReached
<1>2. f \in Priority!Hit(B, t)
  BY <1>1 DEF Priority!Hit, Priority!Prevented
<1>3. f \in B /\ f.remaining \in Nat \ {0}
  BY <1>1, NobodyBeforeFirst DEF IsBook
<1>4. \A n \in Priority!Hit(B, t) \ {f} : Priority!Ahead(f, n)
  BY ContraIsPart DEF First
<1>5. Priority!Share(B, t, f) = IF f.remaining <= t.remaining
                                THEN f.remaining ELSE t.remaining
  BY <1>1, <1>3, ShareIs DEF IsTaker
<1> QED
  BY <1>2, <1>3, <1>4, <1>5

\* B2 is the book B without f.
Without(B, f, B2) == B2 = B \ {f}

\* The whole of f is traded, and t2 is what it leaves of t.
UsesUp(t, f, t2) ==
    f.remaining <= t.remaining /\ t2.remaining = t.remaining - f.remaining

\* B2 is the book B with the whole of t taken from f.
Lowers(B, f, t, B2) ==
    B2 = (B \ {f}) \cup {[f EXCEPT !.remaining = f.remaining - t.remaining]}

(* One iteration of match() that uses the front order up: the outcome of *)
(* the call stays the same.                                              *)
LEMMA MakerFilled ==
    ASSUME NEW B, IsBook(B), NEW t, IsTaker(t), t.remaining > 0, NEW f, First(B, t, f),
           ~Priority!Own(f, t), NEW t2, IsTaker(t2), SameCall(t, t2), UsesUp(t, f, t2),
           NEW B2, Without(B, f, B2), NEW D, NEW done \in Seq(D)
    PROVE  /\ SameOutcome(B, t, B2, t2)
           /\ done \o Priority!TradesOf(B, t)
                = Append(done, TradeWith(B, t, f)) \o Priority!TradesOf(B2, t2)
<1>0. f.remaining <= t.remaining /\ t2.remaining = t.remaining - f.remaining
  BY DEF UsesUp
<1>1. /\ Priority!Prevented(B2, t2) = Priority!Prevented(B, t) \ {f}
      /\ Priority!Hit(B2, t2) = Priority!Hit(B, t) \ {f}
      /\ \A m \in Priority!Hit(B2, t2) :
             Priority!Share(B2, t2, m) = Priority!Share(B, t, m)
  <2>1. Takes(t, t2, f)
    BY <1>0 DEF Takes
  <2>2. B2 = B \ {f}
    BY DEF Without
  <2> QED
    BY <2>1, <2>2, PeelFirst
<1>2. /\ f \in Priority!Hit(B, t) /\ f \in B /\ f.remaining \in Nat \ {0}
      /\ \A n \in Priority!Hit(B, t) \ {f} : Priority!Ahead(f, n)
      /\ Priority!Share(B, t, f) = f.remaining
  BY <1>0, FirstIsHit
<1>3. done \o Priority!TradesOf(B, t)
        = Append(done, TradeWith(B, t, f)) \o Priority!TradesOf(B2, t2)
  <2>1. Peeled(B, t, B2, t2, f)
    BY <1>1, <1>2 DEF Peeled
  <2> QED
    BY <2>1, TradesPrepend
<1>4. Priority!Left(B2, t2) = Priority!Left(B, t)
  <2> DEFINE H  == Priority!Hit(B, t)
             R  == H \ {f}
             F  == [m \in H |-> Priority!Share(B, t, m)]
             F2 == [m \in R |-> Priority!Share(B2, t2, m)]
  <2>1. IsFiniteSet(H) /\ IsFiniteSet(R)
    BY ContraIsPart, FS_RemoveElement
  <2>2. \A m \in H : F[m] \in Int /\ F[m] = Priority!Share(B, t, m)
    BY SharesAreBounded
  <2>3. Priority!Left(B, t) = t.remaining - SumOf(F, H)
    BY <2>1, <2>2, LeftIsSum
  <2>4. Priority!Left(B2, t2) = t2.remaining - SumOf(F2, R)
    <3>1. Priority!Hit(B2, t2) = R
      BY <1>1
    <3>2. \A m \in Priority!Hit(B2, t2) : Priority!Share(B2, t2, m) \in Int
      BY <1>1, <2>2
    <3> QED
      BY <2>1, <3>1, <3>2, LeftIsSum
  <2>5. \A m \in R : F2[m] \in Int /\ F2[m] = F[m]
    BY <1>1, <2>2
  <2>6. f \in H /\ F[f] = f.remaining
    BY <1>2
  <2> HIDE DEF F, F2, H
  <2>7. SumOf(F2, R) = SumOf(F, R)
    <3> HIDE DEF R
    <3> QED
      BY <2>1, <2>5, SumCongruence
  <2>8. SumOf(F, H) = F[f] + SumOf(F, R) /\ SumOf(F, R) \in Int
    BY <2>1, <2>2, <2>6, SumSplit
  <2> QED
    BY <1>0, <1>2, <2>3, <2>4, <2>6, <2>7, <2>8 DEF IsTaker
<1>5. f \notin Priority!Prevented(B, t)
  BY DEF Priority!Prevented
<1>6. Priority!Prevented(B2, t2) = Priority!Prevented(B, t)
  BY <1>1, <1>5
<1>7. /\ Priority!Rests(B2, t2) <=> Priority!Rests(B, t)
      /\ Priority!StatusOf(B2, t2) = Priority!StatusOf(B, t)
  BY <1>4, <1>6, SameVerdict
<1>8. B2 \ Gone(B2, t2) = B \ Gone(B, t)
  BY <1>1, <1>2, <1>6 DEF Gone, Without
<1>9. f \notin Partial(B, t)
  BY <1>2 DEF Partial
<1>10. Partial(B2, t2) = Partial(B, t)
  BY <1>1, <1>9 DEF Partial
<1>11. \A m \in Partial(B, t) : Priority!Share(B2, t2, m) = Priority!Share(B, t, m)
  BY <1>1, <1>9 DEF Partial
<1>12. ASSUME NEW seq PROVE Priority!After(B2, t2, seq) = Priority!After(B, t, seq)
  <2>1. \A m \in Partial(B, t) : Priority!Share(B2, t2, m) = Priority!Share(B, t, m)
    BY <1>10, <1>11
  <2> QED
    BY <1>4, <1>7, <1>8, <1>10, <2>1, SameAfter
<1> QED
  BY <1>3, <1>4, <1>7, <1>12 DEF SameOutcome

(* One iteration of match() that uses the taker up and leaves the front  *)
(* order with less: the outcome of the call stays the same.              *)
LEMMA MakerReduced ==
    ASSUME NEW B, IsBook(B), NEW t, IsTaker(t), t.remaining > 0, NEW f, First(B, t, f),
           ~Priority!Own(f, t), t.remaining < f.remaining,
           NEW t2, IsTaker(t2), SameCall(t, t2), t2.remaining = 0,
           NEW B2, IsBook(B2),
           Lowers(B, f, t, B2),
           NEW D, NEW done \in Seq(D)
    PROVE  /\ SameOutcome(B, t, B2, t2)
           /\ done \o Priority!TradesOf(B, t)
                = Append(done, TradeWith(B, t, f)) \o Priority!TradesOf(B2, t2)
<1>1. /\ Priority!Hit(B2, t2) = {} /\ Priority!Left(B2, t2) = 0
      /\ ~Priority!Rests(B2, t2)
      /\ Priority!StatusOf(B2, t2) = "FullyFilled"
      /\ \A seq : Priority!After(B2, t2, seq) = B2
  BY NothingLeftToTrade
<1>2. /\ f \in Priority!Hit(B, t) /\ f \in B /\ f.remaining \in Nat \ {0}
      /\ Priority!Share(B, t, f) = t.remaining
      /\ \A n \in Priority!Hit(B, t) \ {f} : Priority!Ahead(f, n)
  BY FirstIsHit DEF IsTaker
<1>3. Priority!Reached(B, t) = {f}
  <2>1. f \in Priority!Reached(B, t)
    BY FirstIsReached
  <2>2. ASSUME NEW m \in Priority!Reached(B, t), m # f PROVE FALSE
    <3>1. m \in Priority!Contra(B, t) /\ Priority!Budget(B, t, m) > 0
      BY DEF Priority!Reached
    <3>2. f \in Served(B, t, m)
      BY <2>2, <3>1 DEF First, Served
    <3>3. /\ Priority!Budget(B, t, m) \in Int
          /\ Priority!Budget(B, t, m) <= t.remaining - f.remaining
      BY <3>2, BudgetIsBounded
    <3> QED
      BY <1>2, <3>1, <3>3 DEF IsTaker
  <2> QED
    BY <2>1, <2>2
<1>4. Priority!Prevented(B, t) = {} /\ Priority!Hit(B, t) = {f}
  BY <1>3 DEF Priority!Prevented, Priority!Hit
<1>5. done \o Priority!TradesOf(B, t)
        = Append(done, TradeWith(B, t, f)) \o Priority!TradesOf(B2, t2)
  <2>1. Priority!Hit(B2, t2) = Priority!Hit(B, t) \ {f}
    BY <1>1, <1>4
  <2>2. \A m \in Priority!Hit(B2, t2) : Priority!Share(B2, t2, m) = Priority!Share(B, t, m)
    BY <1>1
  <2>3. Peeled(B, t, B2, t2, f)
    BY <1>2, <2>1, <2>2 DEF Peeled
  <2> QED
    BY <2>3, TradesPrepend
<1>6. Priority!Left(B, t) = 0
  <2> DEFINE H  == Priority!Hit(B, t)
             F  == [m \in H |-> Priority!Share(B, t, m)]
  <2>1. IsFiniteSet(H) /\ \A m \in H : F[m] \in Int /\ F[m] = Priority!Share(B, t, m)
    BY ContraIsPart, SharesAreBounded
  <2>2. Priority!Left(B, t) = t.remaining - SumOf(F, H)
    BY <2>1, LeftIsSum
  <2>3. f \in H /\ F[f] = t.remaining /\ H \ {f} = {}
    BY <1>2, <1>4
  <2> HIDE DEF F, H
  <2>4. SumOf(F, H) = F[f] + SumOf(F, H \ {f})
    BY <2>1, <2>3, SumSplit
  <2>5. SumOf(F, H \ {f}) = 0
    BY <2>3, SumEmpty
  <2> QED
    BY <2>2, <2>3, <2>4, <2>5 DEF IsTaker
<1>7. ~Priority!Abandoned(B, t) /\ ~Priority!Rests(B, t)
  BY <1>4, <1>6 DEF Priority!Abandoned, Priority!Rests
<1>8. Priority!StatusOf(B, t) = "FullyFilled"
  BY <1>6, <1>7 DEF Priority!StatusOf
<1>9. ASSUME NEW seq PROVE Priority!After(B, t, seq) = B2
  <2>1. Gone(B, t) = {f} /\ Remainder(B, t, seq) = {}
    BY <1>4, <1>7 DEF Gone, Remainder
  <2>2. Partial(B, t) = {f}
    BY <1>2, <1>4 DEF Partial
  <2>3. {Lowered(B, t, m) : m \in Partial(B, t)} = {Lowered(B, t, f)}
    BY <2>2
  <2>4. Lowered(B, t, f) = [f EXCEPT !.remaining = f.remaining - t.remaining]
    BY <1>2 DEF Lowered
  <2> QED
    BY <2>1, <2>3, <2>4, AfterIs DEF Lowers
<1> QED
  BY <1>1, <1>5, <1>6, <1>7, <1>8, <1>9 DEF SameOutcome

-----------------------------------------------------------------------------
(* The book that the queues, the index and the pool hold. *)

\* The resting order that an Order object stands for.
Card(o) == [id |-> o.id, trader |-> o.trader, side |-> o.side, price |-> o.price,
            remaining |-> o.remaining, sequence |-> o.sequence]

(* The book is the cards of the orders in use.                           *)
LEMMA OnBookIs ==
    /\ OnBook = {Card(order[slot]) : slot \in InUse}
    /\ OnBook' = {Card(order'[slot]) : slot \in InUse'}
BY DEF OnBook, Card

(* What a card shows.                                                    *)
LEMMA CardIs ==
    ASSUME NEW o
    PROVE  /\ Card(o).id = o.id /\ Card(o).trader = o.trader /\ Card(o).side = o.side
           /\ Card(o).price = o.price /\ Card(o).remaining = o.remaining
           /\ Card(o).sequence = o.sequence
BY DEF Card

(* No two orders in use share an id, or a level and a sequence number    *)
(* (the queue lists both, and sequence numbers rise along it).           *)
LEMMA CardsAreDistinct ==
    ASSUME IInv, NEW a \in InUse, NEW b \in InUse
    PROVE  /\ order[a].id = order[b].id => a = b
           /\ order[a].side = order[b].side /\ order[a].price = order[b].price
              /\ order[a].sequence = order[b].sequence => a = b
<1>1. BookTypeOK /\ QueueSound /\ QueueComplete /\ TimePriority /\ IndexComplete
  BY DEF IInv, TypeOK, BookTypeOK, BookInv, StructuresAgree
<1>2. order[a].id = order[b].id => a = b
  BY <1>1 DEF IndexComplete
<1>3. ASSUME order[a].side = order[b].side, order[a].price = order[b].price,
             order[a].sequence = order[b].sequence
      PROVE  a = b
  <2> DEFINE side  == order[a].side
             price == order[a].price
             q     == queue[side][price]
  <2>1. /\ side \in Side /\ price \in Price /\ order[a].sequence \in Int
    <3>1. order[a] \in Order /\ side \in Side /\ price \in Price
      BY <1>1, InUseIsQueued
    <3>2. order[a].sequence \in Int
      BY <3>1 DEF Order
    <3> QED
      BY <3>1, <3>2
  <2>2. PICK i \in DOMAIN q : q[i] = a
    BY <1>1, InUseIsQueued
  <2>3. PICK j \in DOMAIN q : q[j] = b
    BY <1>1, <1>3, InUseIsQueued
  <2>4. i \in Int /\ j \in Int
    BY <1>1, <2>1, <2>2, <2>3 DEF BookTypeOK
  <2>5. ~(i < j) /\ ~(j < i)
    BY <1>1, <1>3, <2>1, <2>2, <2>3 DEF TimePriority
  <2> QED
    BY <2>2, <2>3, <2>4, <2>5
<1> QED
  BY <1>2, <1>3

(* The orders in use are a book.                                         *)
LEMMA OnBookIsBook ==
    ASSUME IInv, DepthInv
    PROVE  IsBook(OnBook)
<1> DEFINE g == [slot \in InUse |-> Card(order[slot])]
<1>1. IsFiniteSet(OnBook)
  <2>1. g \in Surjection(InUse, OnBook)
    <3> HIDE DEF Card
    <3> QED
      BY OnBookIs DEF Surjection
  <2>2. IsFiniteSet(InUse)
    BY DEF DepthInv
  <2> QED
    BY <2>1, <2>2, FS_Surjection
<1>2. ASSUME NEW m \in OnBook
      PROVE  /\ m.side \in Side /\ m.price \in Int
             /\ m.remaining \in Nat \ {0} /\ m.sequence \in Int
  <2>1. PICK slot \in InUse : m = Card(order[slot])
    BY OnBookIs
  <2>2. order[slot] \in Order
    BY DEF IInv, TypeOK, InUse
  <2>3. /\ m.side = order[slot].side /\ m.price = order[slot].price
        /\ m.remaining = order[slot].remaining /\ m.sequence = order[slot].sequence
    BY <2>1, CardIs
  <2> QED
    BY <2>2, <2>3, BookConstants DEF Order, Price
<1>3. ASSUME NEW m \in OnBook, NEW n \in OnBook,
             m.side = n.side, m.price = n.price, m.sequence = n.sequence
      PROVE  m = n
  <2>1. PICK a \in InUse : m = Card(order[a])
    BY OnBookIs
  <2>2. PICK b \in InUse : n = Card(order[b])
    BY OnBookIs
  <2>3. a = b
    BY <1>3, <2>1, <2>2, CardIs, CardsAreDistinct
  <2> QED
    BY <2>1, <2>2, <2>3
<1> QED
  BY <1>1, <1>2, <1>3 DEF IsBook

(* The locals of the submit() in progress are a taker.                   *)
LEMMA TakerIsTaker ==
    ASSUME IInv, taker # NoTaker
    PROVE  /\ IsTaker(taker) /\ taker \in Taker
           /\ taker.quantity \in Nat /\ taker.remaining <= taker.quantity
<1>1. taker \in Taker /\ taker.remaining <= taker.quantity
  BY DEF IInv, TypeOK, TakerInv
<1> QED
  BY <1>1, BookConstants DEF Taker, IsTaker, Price

(* Sides and prices compare in the specification as in the code.         *)
LEMMA InstanceVocabulary ==
    /\ \A side : Priority!Opposite(side) = Opposite(side)
    /\ \A side, p, q : Priority!Better(side, p, q) <=> Better(side, p, q)
    /\ \A side, p, q : Priority!Crosses(side, p, q) <=> Crosses(side, p, q)
BY DEF Priority!Opposite, Opposite, Priority!Better, Better, Priority!Crosses, Crosses

(* The front order of the best level, which match() trades with next, is *)
(* the one the specification's taker meets first.                        *)
LEMMA OldestIsFirst ==
    ASSUME IInv, taker # NoTaker, Marketable
    PROVE  /\ First(OnBook, taker, Card(order[Oldest]))
           /\ Card(order[Oldest]) \in OnBook
           /\ Priority!Own(Card(order[Oldest]), taker) <=> OwnOrder(Oldest)
<1> DEFINE f == Card(order[Oldest])
           side == Facing.side
           best == Facing.price
<1>1. /\ taker \in Taker /\ Facing \in Level /\ side = Opposite(taker.side)
      /\ best \in levels[side] /\ Oldest \in InUse /\ order[Oldest] \in Order
      /\ order[Oldest].side = side /\ order[Oldest].price = best
  BY OldestIsResting DEF IInv
<1>2. f \in OnBook /\ f.side = side /\ f.price = best /\ f.sequence = order[Oldest].sequence
  BY <1>1, OnBookIs, CardIs
<1>3. best = Best(side) /\ Crosses(taker.side, taker.price, best)
  BY <1>1 DEF Facing, Marketable
<1>4. f \in Priority!Contra(OnBook, taker)
  BY <1>1, <1>2, <1>3, InstanceVocabulary DEF Priority!Contra
<1>5. ASSUME NEW n \in Priority!Contra(OnBook, taker), n # f
      PROVE  Priority!Ahead(f, n)
  <2>1. n \in OnBook /\ n.side = side
    BY <1>1, InstanceVocabulary DEF Priority!Contra
  <2>2. PICK other \in InUse : n = Card(order[other])
    BY <2>1, OnBookIs
  <2>3. /\ order[other].side = side /\ n.price = order[other].price
        /\ n.sequence = order[other].sequence /\ other # Oldest
    BY <1>5, <2>1, <2>2, CardIs
  <2>4. BookTypeOK /\ QueueSound /\ QueueComplete /\ NoEmptyLevel /\ TimePriority /\ TypeOK
    BY DEF IInv, TypeOK, BookTypeOK, BookInv, StructuresAgree
  <2>5. /\ order[other].price \in Price /\ order[other].sequence \in Int
        /\ \E k \in DOMAIN queue[side][order[other].price] :
               queue[side][order[other].price][k] = other
    <3>1. /\ order[other] \in Order /\ order[other].price \in Price
          /\ \E k \in DOMAIN queue[order[other].side][order[other].price] :
                 queue[order[other].side][order[other].price][k] = other
      BY <2>4, InUseIsQueued
    <3>2. order[other].sequence \in Int
      BY <3>1 DEF Order
    <3> QED
      BY <2>3, <3>1, <3>2
  <2>6. side \in Side /\ best \in Price
    BY <1>1 DEF Level
  <2>7. order[other].price \in levels[side]
    <3>1. queue[side][order[other].price] \in Seq(Slots)
      BY <2>4, <2>5, <2>6 DEF BookTypeOK
    <3>2. queue[side][order[other].price] # <<>>
      BY <2>5, <3>1
    <3> QED
      BY <2>4, <2>5, <2>6, <3>2 DEF NoEmptyLevel
  <2>8. ~Better(side, order[other].price, best)
    BY <1>1, <1>3, <2>4, <2>6, <2>7, BestIsBest
  <2>9. CASE order[other].price = best
    <3> DEFINE q == queue[side][best]
    <3>1. q \in Seq(Slots) /\ q # <<>>
      BY <1>1, <2>4, <2>6 DEF BookTypeOK, NoEmptyLevel
    <3>2. PICK k \in DOMAIN q : q[k] = other
      BY <2>5, <2>9
    <3>3. 1 \in DOMAIN q /\ q[1] = Oldest /\ k \in Nat /\ k >= 1
      BY <3>1, <3>2, SMTT(30) DEF Oldest
    <3>4. k > 1
      BY <2>3, <3>2, <3>3
    <3>5. order[Oldest].sequence < order[other].sequence
      BY <2>4, <2>6, <3>2, <3>3, <3>4 DEF TimePriority
    <3> QED
      BY <1>2, <2>3, <2>9, <3>5 DEF Priority!Ahead
  <2>10. CASE order[other].price # best
    <3>1. Better(side, best, order[other].price)
      BY <2>5, <2>6, <2>8, <2>10, BookConstants DEF Better, Price
    <3> QED
      BY <1>2, <2>3, <3>1, InstanceVocabulary DEF Priority!Ahead
  <2> QED
    BY <2>9, <2>10
<1>6. First(OnBook, taker, f)
  BY <1>4, <1>5 DEF First
<1>7. Priority!Own(f, taker) <=> OwnOrder(Oldest)
  BY CardIs DEF Priority!Own, OwnOrder
<1> QED
  BY <1>2, <1>6, <1>7

(* When match() stops with quantity left, the specification's taker has  *)
(* nobody to trade with.                                                 *)
LEMMA NothingMarketable ==
    ASSUME IInv, taker # NoTaker, taker.remaining > 0, ~Marketable
    PROVE  Priority!Contra(OnBook, taker) = {}
<1> SUFFICES ASSUME NEW n \in Priority!Contra(OnBook, taker) PROVE FALSE
  OBVIOUS
<1> DEFINE side == Opposite(taker.side)
<1>1. n \in OnBook /\ n.side = side /\ Crosses(taker.side, taker.price, n.price)
  BY InstanceVocabulary DEF Priority!Contra
<1>2. PICK slot \in InUse : n = Card(order[slot])
  BY <1>1, OnBookIs
<1>3. order[slot].side = side /\ n.price = order[slot].price
  BY <1>1, <1>2, CardIs
<1>4. BookTypeOK /\ QueueSound /\ QueueComplete /\ NoEmptyLevel /\ TypeOK
  BY DEF IInv, TypeOK, BookTypeOK, BookInv, StructuresAgree
<1>5. /\ side \in Side /\ n.price \in Price
      /\ \E k \in DOMAIN queue[side][n.price] : queue[side][n.price][k] = slot
  BY <1>3, <1>4, InUseIsQueued
<1>6. n.price \in levels[side]
  <2>1. queue[side][n.price] \in Seq(Slots)
    BY <1>4, <1>5 DEF BookTypeOK
  <2>2. queue[side][n.price] # <<>>
    BY <1>5, <2>1
  <2> QED
    BY <1>4, <1>5, <2>2 DEF NoEmptyLevel
<1>7. Best(side) \in levels[side] /\ ~Better(side, n.price, Best(side))
  BY <1>4, <1>5, <1>6, BestIsBest
<1>8. Best(side) \in Int /\ n.price \in Int /\ taker.price \in Int
  BY <1>4, <1>5, <1>7, TakerIsTaker, BookConstants DEF TypeOK, Price, IsTaker
<1>9. taker.side \in Side
  BY TakerIsTaker DEF IsTaker
<1>10. Crosses(taker.side, taker.price, Best(side))
  BY <1>1, <1>7, <1>8, <1>9 DEF Crosses, Better, Opposite, Side
<1> QED
  BY <1>6, <1>10 DEF Marketable

(* A slot that is released takes one order off the book.                 *)
LEMMA OnBookWithout ==
    ASSUME IInv, NEW slot \in InUse, order' = [order EXCEPT ![slot] = NoOrder]
    PROVE  OnBook' = OnBook \ {Card(order[slot])}
<1>1. /\ InUse' = InUse \ {slot} /\ \A s \in InUse' : order'[s] = order[s]
  BY DEF IInv, TypeOK, InUse
<1>2. \A s \in InUse : Card(order[s]) = Card(order[slot]) => s = slot
  BY CardIs, CardsAreDistinct
<1> HIDE DEF Card
<1>3. OnBook' = {Card(order[s]) : s \in InUse \ {slot}}
  BY <1>1, OnBookIs
<1> QED
  BY <1>2, <1>3, OnBookIs

(* A partial fill lowers one order of the book.                          *)
LEMMA OnBookLowered ==
    ASSUME IInv, NEW slot \in InUse, NEW traded, InUse' = InUse,
           order' = [order EXCEPT ![slot] = Reduced(order[slot], traded)]
    PROVE  OnBook' = (OnBook \ {Card(order[slot])})
                     \cup {[Card(order[slot]) EXCEPT !.remaining = order[slot].remaining - traded]}
<1>0. slot \in Slots /\ order[slot] \in Order
  BY DEF IInv, TypeOK, InUse
<1>1. /\ \A s \in InUse : s # slot => order'[s] = order[s]
      /\ order'[slot] = Reduced(order[slot], traded)
  BY <1>0 DEF IInv, TypeOK, InUse
<1>2. \A s \in InUse : Card(order[s]) = Card(order[slot]) => s = slot
  BY CardIs, CardsAreDistinct
<1>3. Card(order'[slot])
        = [Card(order[slot]) EXCEPT !.remaining = order[slot].remaining - traded]
  BY <1>0, <1>1 DEF Card, Reduced, Order
<1> HIDE DEF Card
<1>4. OnBook' = {Card(order'[s]) : s \in InUse}
  BY OnBookIs
<1>5. {Card(order'[s]) : s \in InUse}
        = {Card(order[s]) : s \in InUse \ {slot}} \cup {Card(order'[slot])}
  BY <1>1
<1>6. {Card(order[s]) : s \in InUse \ {slot}} = OnBook \ {Card(order[slot])}
  BY <1>2, OnBookIs
<1> QED
  BY <1>3, <1>4, <1>5, <1>6

(* A slot that is acquired puts one order on the book.                   *)
LEMMA OnBookWith ==
    ASSUME IInv, NEW slot \in Slots, order[slot] = NoOrder, NEW new, new # NoOrder,
           order' = [order EXCEPT ![slot] = new]
    PROVE  OnBook' = OnBook \cup {Card(new)}
<1>1. /\ InUse' = InUse \cup {slot} /\ \A s \in InUse : order'[s] = order[s]
      /\ order'[slot] = new
  BY DEF IInv, TypeOK, InUse
<1> HIDE DEF Card
<1>2. OnBook' = {Card(order[s]) : s \in InUse} \cup {Card(new)}
  BY <1>1, OnBookIs
<1> QED
  BY <1>2, OnBookIs

-----------------------------------------------------------------------------
(* Two instances of one vocabulary. *)

(* PriceTimeBook's copies of the operators agree with the refinement     *)
(* mapping's: priority, own orders, the opposite side ...                *)
LEMMA PromiseAhead ==
    /\ \A m, n : Promise!Ahead(m, n) <=> Priority!Ahead(m, n)
    /\ \A m, t : Promise!Own(m, t) <=> Priority!Own(m, t)
    /\ \A B, t : Promise!Contra(B, t) = Priority!Contra(B, t)
<1>1. \A m, n : Promise!Ahead(m, n) <=> Priority!Ahead(m, n)
  BY DEF Promise!Ahead, Promise!Better, Priority!Ahead, Priority!Better
<1>2. \A m, t : Promise!Own(m, t) <=> Priority!Own(m, t)
  BY DEF Promise!Own, Priority!Own
<1>3. \A B, t : Promise!Contra(B, t) = Priority!Contra(B, t)
  BY DEF Promise!Contra, Promise!Opposite, Promise!Crosses,
         Priority!Contra, Priority!Opposite, Priority!Crosses
<1> QED
  BY <1>1, <1>2, <1>3

(* ... volumes ...                                                       *)
LEMMA PromiseVolume ==
    \A T : Promise!Volume(T) = Priority!Volume(T)
BY Zenon DEF Promise!Volume, Promise!MapThenSumSet, Promise!MapThenFoldSet,
       Priority!Volume, Priority!MapThenSumSet, Priority!MapThenFoldSet

(* ... makers and shares ...                                             *)
LEMMA PromiseReached ==
    ASSUME NEW B, NEW t
    PROVE  /\ \A m : Promise!Budget(B, t, m) = Priority!Budget(B, t, m)
           /\ Promise!Reached(B, t) = Priority!Reached(B, t)
           /\ Promise!Prevented(B, t) = Priority!Prevented(B, t)
           /\ Promise!Hit(B, t) = Priority!Hit(B, t)
           /\ \A m : Promise!Share(B, t, m) = Priority!Share(B, t, m)
<1>1. ASSUME NEW m
      PROVE  Promise!Budget(B, t, m) = Priority!Budget(B, t, m)
  <2>1. {n \in Promise!Contra(B, t) : Promise!Ahead(n, m) /\ ~Promise!Own(n, t)}
          = {n \in Priority!Contra(B, t) : Priority!Ahead(n, m) /\ ~Priority!Own(n, t)}
    BY PromiseAhead
  <2> QED
    BY <2>1, PromiseVolume DEF Promise!Budget, Priority!Budget
<1>2. Promise!Reached(B, t) = Priority!Reached(B, t)
  BY <1>1, PromiseAhead DEF Promise!Reached, Priority!Reached
<1>3. Promise!Prevented(B, t) = Priority!Prevented(B, t)
  BY <1>2, PromiseAhead DEF Promise!Prevented, Priority!Prevented
<1>4. Promise!Hit(B, t) = Priority!Hit(B, t)
  BY <1>2, <1>3 DEF Promise!Hit, Priority!Hit
<1>5. ASSUME NEW m
      PROVE  Promise!Share(B, t, m) = Priority!Share(B, t, m)
  BY <1>1, Zenon DEF Promise!Share, Priority!Share, Promise!Min, Priority!Min
<1> QED
  BY <1>1, <1>2, <1>3, <1>4, <1>5

(* ... what is left of the taker, and the status ...                     *)
LEMMA PromiseLeft ==
    ASSUME NEW B, NEW t
    PROVE  /\ Promise!Left(B, t) = Priority!Left(B, t)
           /\ Promise!Abandoned(B, t) <=> Priority!Abandoned(B, t)
           /\ Promise!Rests(B, t) <=> Priority!Rests(B, t)
           /\ Promise!StatusOf(B, t) = Priority!StatusOf(B, t)
<1>1. Promise!Left(B, t) = Priority!Left(B, t)
  <2>1. \A m : Promise!Share(B, t, m) = Priority!Share(B, t, m)
    BY PromiseReached
  <2>2. Promise!Hit(B, t) = Priority!Hit(B, t)
    BY PromiseReached
  <2> DEFINE H == Priority!Hit(B, t)
             Fits(g) == g = [s \in SUBSET H |->
                               IF s = {} THEN 0
                               ELSE Priority!Share(B, t, CHOOSE x \in s : TRUE)
                                    + g[s \ {CHOOSE x \in s : TRUE}]]
             Suits(g) == g = [s \in SUBSET H |->
                                IF s = {} THEN 0
                                ELSE Promise!Share(B, t, CHOOSE x \in s : TRUE)
                                     + g[s \ {CHOOSE x \in s : TRUE}]]
  <2>3. \A g : Suits(g) <=> Fits(g)
    BY <2>1
  <2>4. Promise!Left(B, t) = t.remaining - (CHOOSE g : Suits(g))[H]
    BY <2>2 DEF Promise!Left, Promise!MapThenSumSet, Promise!MapThenFoldSet
  <2>5. Priority!Left(B, t) = t.remaining - (CHOOSE g : Fits(g))[H]
    BY DEF Priority!Left, Priority!MapThenSumSet, Priority!MapThenFoldSet
  <2> HIDE DEF Fits, Suits
  <2>6. (CHOOSE g : Suits(g)) = (CHOOSE g : Fits(g))
    BY <2>3
  <2> QED
    BY <2>4, <2>5, <2>6
<1>2. Promise!Abandoned(B, t) <=> Priority!Abandoned(B, t)
  BY PromiseReached DEF Promise!Abandoned, Priority!Abandoned
<1>3. Promise!Rests(B, t) <=> Priority!Rests(B, t)
  BY <1>1, <1>2 DEF Promise!Rests, Priority!Rests
<1>4. Promise!StatusOf(B, t) = Priority!StatusOf(B, t)
  BY <1>1, <1>2 DEF Promise!StatusOf, Priority!StatusOf
<1> QED
  BY <1>1, <1>2, <1>3, <1>4

(* ... the trades ...                                                    *)
LEMMA PromiseTrades ==
    ASSUME NEW B, NEW t
    PROVE  /\ Promise!TradesOf(B, t) = Priority!TradesOf(B, t)
           /\ Promise!Cardinality(Promise!Hit(B, t)) = Cardinality(Priority!Hit(B, t))
<1> DEFINE H == Priority!Hit(B, t)
<1>1. \A S : Promise!Cardinality(S) = Cardinality(S)
  BY Zenon DEF Promise!Cardinality, Cardinality
<1>2. \A m : Promise!Turn(H, m) = Priority!Turn(H, m)
  <2> SUFFICES ASSUME NEW m PROVE Promise!Turn(H, m) = Priority!Turn(H, m)
    OBVIOUS
  <2>1. {n \in H : Promise!Ahead(n, m)} = AheadOfIt(H, m)
    BY PromiseAhead DEF AheadOfIt
  <2>2. Promise!Turn(H, m) = Promise!Cardinality({n \in H : Promise!Ahead(n, m)}) + 1
    BY Zenon DEF Promise!Turn
  <2> QED
    BY <1>1, <2>1, <2>2, TurnIs
<1>3. Promise!Hit(B, t) = H /\ \A m : Promise!Share(B, t, m) = Priority!Share(B, t, m)
  BY PromiseReached
<1>4. \A k : (CHOOSE m \in H : Promise!Turn(H, m) = k) = Maker(H, k)
  BY <1>2 DEF Maker
<1>5. Promise!TradesOf(B, t) = Priority!TradesOf(B, t)
  <2>1. Promise!TradesOf(B, t) =
          [k \in 1..Cardinality(H) |->
              TradeWith(B, t, CHOOSE m \in H : Promise!Turn(H, m) = k)]
    <3> HIDE DEF H
    <3> QED
      BY <1>1, <1>3 DEF Promise!TradesOf, TradeWith
  <2> QED
    BY <1>4, <2>1, TradesAre
<1> QED
  BY <1>1, <1>3, <1>5

(* ... and the book after the call.                                      *)
LEMMA PromiseAfter ==
    ASSUME NEW B, NEW t, NEW seq
    PROVE  Promise!After(B, t, seq) = Priority!After(B, t, seq)
BY PromiseReached, PromiseLeft DEF Promise!After, Priority!After

-----------------------------------------------------------------------------
(* The refinement mapping along the steps of submit(). *)

\* What submit() is going to return for t, once ts are its trades.
Verdict(B, t, ts) ==
    [status      |-> Priority!StatusOf(B, t),
     filled      |-> t.quantity - Priority!Left(B, t),
     resting     |-> IF Priority!Rests(B, t) THEN Priority!Left(B, t) ELSE 0,
     trade_count |-> Len(ts)]

(* The abstract state while a submit() is in progress ...                *)
LEMMA BarsInCall ==
    ASSUME taker # NoTaker
    PROVE  /\ restingBar = Priority!After(OnBook, taker, nextSeq)
           /\ tradesBar = trades \o Priority!TradesOf(OnBook, taker)
           /\ nextSeqBar = IF Priority!Rests(OnBook, taker) THEN nextSeq + 1 ELSE nextSeq
           /\ resultBar = Verdict(OnBook, taker, tradesBar)
BY DEF restingBar, tradesBar, nextSeqBar, resultBar, Returned, Verdict

(* ... after a step that leaves one in progress ...                      *)
LEMMA BarsInNextCall ==
    ASSUME taker' # NoTaker
    PROVE  /\ restingBar' = Priority!After(OnBook', taker', nextSeq')
           /\ tradesBar' = trades' \o Priority!TradesOf(OnBook', taker')
           /\ nextSeqBar' = IF Priority!Rests(OnBook', taker') THEN nextSeq' + 1 ELSE nextSeq'
           /\ resultBar' = Verdict(OnBook', taker', tradesBar')
BY DEF restingBar, tradesBar, nextSeqBar, resultBar, Returned, Verdict

(* ... and between two calls, when it is the state itself.               *)
LEMMA BarsAtRest ==
    /\ taker = NoTaker => /\ restingBar = OnBook /\ tradesBar = trades
                          /\ nextSeqBar = nextSeq /\ resultBar = result
    /\ taker' = NoTaker => /\ restingBar' = OnBook' /\ tradesBar' = trades'
                           /\ nextSeqBar' = nextSeq' /\ resultBar' = result'
BY DEF restingBar, tradesBar, nextSeqBar, resultBar, Returned

\* The abstract state.
bars == <<restingBar, tradesBar, resultBar, nextSeqBar>>

(* An iteration of the loop that adds to trades_ what it takes from the  *)
(* trades still to come, and keeps the rest of the outcome, is no step   *)
(* of the specification.                                                 *)
LEMMA LoopKeepsOutcome ==
    ASSUME taker # NoTaker, taker' # NoTaker, UNCHANGED nextSeq,
           SameOutcome(OnBook, taker, OnBook', taker'),
           taker'.quantity = taker.quantity,
           trades \o Priority!TradesOf(OnBook, taker)
             = trades' \o Priority!TradesOf(OnBook', taker')
    PROVE  UNCHANGED bars
<1>1. restingBar' = restingBar
  BY BarsInCall, BarsInNextCall DEF SameOutcome
<1>2. tradesBar' = tradesBar
  BY BarsInCall, BarsInNextCall
<1>3. nextSeqBar' = nextSeqBar
  BY BarsInCall, BarsInNextCall DEF SameOutcome
<1>4. Verdict(OnBook', taker', tradesBar') = Verdict(OnBook, taker, tradesBar)
  BY <1>2 DEF SameOutcome, Verdict
<1>5. resultBar' = resultBar
  BY <1>4, BarsInCall, BarsInNextCall
<1> QED
  BY <1>1, <1>2, <1>3, <1>5 DEF bars

(* Cancelling the taker's own order is no step of the specification.     *)
LEMMA CancelRestingStutters ==
    ASSUME IInv, DepthInv, MeetsOwn, CancelResting
    PROVE  UNCHANGED bars
<1> DEFINE f == Card(order[Oldest])
<1>1. /\ taker # NoTaker /\ Marketable /\ OwnOrder(Oldest) /\ Stp = "CancelResting"
      /\ UNCHANGED <<nextSeq, trades, taker>>
      /\ order' = [order EXCEPT ![Oldest] = NoOrder]
  BY DEF MeetsOwn, CancelResting, RemoveOrder, Release
<1>2. Oldest \in InUse
  BY <1>1, OldestIsResting DEF IInv
<1>3. OnBook' = OnBook \ {f}
  BY <1>1, <1>2, OnBookWithout
<1>4. First(OnBook, taker, f) /\ Priority!Own(f, taker)
  BY <1>1, OldestIsFirst
<1>5. IsBook(OnBook) /\ IsTaker(taker) /\ taker.remaining > 0
  BY <1>1, OnBookIsBook, TakerIsTaker DEF Marketable
<1>6. /\ SameOutcome(OnBook, taker, OnBook', taker)
      /\ Priority!TradesOf(OnBook', taker) = Priority!TradesOf(OnBook, taker)
  <2> HIDE DEF f
  <2> QED
    BY <1>1, <1>3, <1>4, <1>5, OwnOrderCancelled
<1>7. taker' = taker /\ trades' = trades /\ taker' # NoTaker
  BY <1>1
<1> QED
  BY <1>1, <1>6, <1>7, LoopKeepsOutcome

(* Abandoning the taker returns what the specification returned: the     *)
(* rest of the outcome is no trade, no remainder.                        *)
LEMMA CancelAggressingStutters ==
    ASSUME IInv, DepthInv, MeetsOwn, CancelAggressing
    PROVE  UNCHANGED bars
<1> DEFINE f == Card(order[Oldest])
<1>1. /\ taker # NoTaker /\ Marketable /\ OwnOrder(Oldest) /\ Stp = "CancelAggressing"
      /\ UNCHANGED <<order, nextSeq, trades>> /\ taker' = NoTaker
      /\ result' = [status |-> "CancelledBySelfTrade",
                    filled |-> taker.quantity - taker.remaining, resting |-> 0,
                    trade_count |-> Len(trades)]
  BY DEF MeetsOwn, CancelAggressing, Returns, book
<1>2. First(OnBook, taker, f) /\ Priority!Own(f, taker)
  BY <1>1, OldestIsFirst
<1>3. IsBook(OnBook) /\ IsTaker(taker) /\ taker.remaining > 0
  BY <1>1, OnBookIsBook, TakerIsTaker DEF Marketable
<1>4. /\ Priority!Left(OnBook, taker) = taker.remaining
      /\ ~Priority!Rests(OnBook, taker)
      /\ Priority!StatusOf(OnBook, taker) = "CancelledBySelfTrade"
      /\ Priority!TradesOf(OnBook, taker) = <<>>
      /\ \A seq : Priority!After(OnBook, taker, seq) = OnBook
  <2> HIDE DEF f
  <2> QED
    BY <1>1, <1>2, <1>3, AggressorAbandoned
<1>5. OnBook' = OnBook
  BY <1>1 DEF OnBook, InUse
<1>6. tradesBar = trades
  BY <1>1, <1>4, BarsInCall DEF IInv, TypeOK
<1>7. resultBar = result'
  BY <1>1, <1>4, <1>6, BarsInCall DEF Verdict
<1> QED
  BY <1>1, <1>4, <1>5, <1>6, <1>7, BarsInCall, BarsAtRest DEF bars

(* A taker that is used up returns what the specification returned.      *)
LEMMA FullyFilledStutters ==
    ASSUME IInv, DepthInv, FullyFilled
    PROVE  UNCHANGED bars
<1>1. /\ taker # NoTaker /\ taker.remaining = 0
      /\ UNCHANGED <<order, nextSeq, trades>> /\ taker' = NoTaker
      /\ result' = [status |-> "FullyFilled", filled |-> taker.quantity, resting |-> 0,
                    trade_count |-> Len(trades)]
  BY DEF FullyFilled, Returns, book
<1>2. IsBook(OnBook) /\ IsTaker(taker) /\ taker.quantity \in Nat
  BY <1>1, OnBookIsBook, TakerIsTaker
<1>3. /\ Priority!Left(OnBook, taker) = 0
      /\ ~Priority!Rests(OnBook, taker)
      /\ Priority!StatusOf(OnBook, taker) = "FullyFilled"
      /\ Priority!TradesOf(OnBook, taker) = <<>>
      /\ \A seq : Priority!After(OnBook, taker, seq) = OnBook
  BY <1>1, <1>2, NothingLeftToTrade
<1>4. OnBook' = OnBook
  BY <1>1 DEF OnBook, InUse
<1>5. tradesBar = trades
  BY <1>1, <1>3, BarsInCall DEF IInv, TypeOK
<1>6. taker.quantity - 0 = taker.quantity
  BY <1>2
<1>7. resultBar = result'
  BY <1>1, <1>3, <1>5, <1>6, BarsInCall DEF Verdict
<1> QED
  BY <1>1, <1>3, <1>4, <1>5, <1>7, BarsInCall, BarsAtRest DEF bars

(* So does a taker that rests: the Order made of the remainder is the    *)
(* one the specification put on its book.                                *)
LEMMA RestStutters ==
    ASSUME IInv, DepthInv, NEW slot \in Slots, Rest(slot)
    PROVE  UNCHANGED bars
<1> DEFINE new == [id |-> taker.id, trader |-> taker.trader, side |-> taker.side,
                   price |-> taker.price, quantity |-> taker.remaining,
                   remaining |-> taker.remaining, sequence |-> nextSeq,
                   level |-> [side |-> taker.side, price |-> taker.price]]
           filled == taker.quantity - taker.remaining
<1>1. /\ taker # NoTaker /\ taker.remaining > 0 /\ ~Marketable
      /\ order[slot] = NoOrder /\ order' = [order EXCEPT ![slot] = new]
      /\ nextSeq' = nextSeq + 1 /\ trades' = trades /\ taker' = NoTaker
      /\ result' = [status |-> IF filled > 0 THEN "PartiallyFilled" ELSE "Rested",
                    filled |-> filled, resting |-> taker.remaining,
                    trade_count |-> Len(trades)]
  BY DEF Rest, Returns
<1>2. /\ IsBook(OnBook) /\ IsTaker(taker) /\ taker \in Taker
      /\ taker.quantity \in Nat /\ taker.remaining <= taker.quantity
  BY <1>1, OnBookIsBook, TakerIsTaker
<1>3. Priority!Contra(OnBook, taker) = {}
  BY <1>1, NothingMarketable
<1>4. /\ Priority!Left(OnBook, taker) = taker.remaining
      /\ Priority!Rests(OnBook, taker)
      /\ Priority!StatusOf(OnBook, taker) = IF taker.remaining < taker.quantity
                                            THEN "PartiallyFilled" ELSE "Rested"
      /\ Priority!TradesOf(OnBook, taker) = <<>>
      /\ \A seq : Priority!After(OnBook, taker, seq) =
             OnBook \cup {[id |-> taker.id, trader |-> taker.trader,
                           side |-> taker.side, price |-> taker.price,
                           remaining |-> taker.remaining, sequence |-> seq]}
  BY <1>1, <1>2, <1>3, NobodyToTradeWith
<1>5. new # NoOrder
  <2>1. new \in Order
    BY <1>1, <1>2, BookConstants DEF Order, Level, Taker, IInv, TypeOK
  <2> QED
    BY <2>1, BookConstants
<1>6. Card(new) = [id |-> taker.id, trader |-> taker.trader, side |-> taker.side,
                   price |-> taker.price, remaining |-> taker.remaining,
                   sequence |-> nextSeq]
  BY DEF Card
<1>7. OnBook' = OnBook \cup {Card(new)}
  <2> HIDE DEF new
  <2> QED
    BY <1>1, <1>5, OnBookWith
<1>8. restingBar = OnBook'
  BY <1>1, <1>4, <1>6, <1>7, BarsInCall
<1>9. tradesBar = trades
  BY <1>1, <1>4, BarsInCall DEF IInv, TypeOK
<1>10. Priority!StatusOf(OnBook, taker)
         = IF filled > 0 THEN "PartiallyFilled" ELSE "Rested"
  BY <1>2, <1>4 DEF IsTaker
<1>11. resultBar = result'
  <2> HIDE DEF filled
  <2>1. resultBar = Verdict(OnBook, taker, trades)
    BY <1>1, <1>9, BarsInCall
  <2> QED
    BY <1>1, <1>4, <1>10, <2>1 DEF Verdict, filled
<1>12. nextSeqBar = nextSeq'
  BY <1>1, <1>4, BarsInCall
<1> QED
  BY <1>1, <1>8, <1>9, <1>11, <1>12, BarsAtRest DEF bars

(* OnBookIsBook, in the form in which it holds of the next state too.    *)
LEMMA BookStaysBook == IInv /\ DepthInv => IsBook(OnBook)
BY OnBookIsBook

(* The book is a book after the step.                                    *)
LEMMA NextBookIsBook == IInv' /\ DepthInv' => IsBook(OnBook)'
BY BookStaysBook, PTL

(* A trade is no step of the specification: the trade was among the ones *)
(* it reported, and the maker is left with what it said.                 *)
LEMMA FillStutters ==
    ASSUME IInv, IInv', DepthInv, DepthInv', Fill
    PROVE  UNCHANGED bars
<1> DEFINE maker  == order[Oldest]
           traded == TradeSize(maker)
           f == Card(maker)
<1>1. /\ taker # NoTaker /\ Marketable /\ ~OwnOrder(Oldest) /\ taker.remaining > 0
      /\ nextSeq' = nextSeq
      /\ taker' = [taker EXCEPT !.remaining = taker.remaining - traded]
  BY DEF Fill, Marketable
<1>2. /\ Oldest \in InUse /\ maker \in Order
  BY <1>1, OldestIsResting DEF IInv
<1>3. /\ First(OnBook, taker, f) /\ ~Priority!Own(f, taker)
      /\ f.id = maker.id /\ f.trader = maker.trader /\ f.price = maker.price
      /\ f.remaining = maker.remaining
  BY <1>1, OldestIsFirst, CardIs
<1>4. IsBook(OnBook) /\ IsBook(OnBook')
  BY OnBookIsBook, NextBookIsBook
<1>5. IsTaker(taker) /\ taker \in Taker /\ maker.remaining \in Nat \ {0}
  BY <1>1, <1>2, TakerIsTaker DEF Order
<1>6. /\ traded = IF taker.remaining < f.remaining THEN taker.remaining ELSE f.remaining
      /\ traded \in Nat \ {0} /\ traded <= taker.remaining /\ traded <= f.remaining
  BY <1>1, <1>3, <1>5 DEF TradeSize, IsTaker
<1>7. Priority!Share(OnBook, taker, f) = traded
  BY <1>1, <1>3, <1>4, <1>5, <1>6, FirstIsHit DEF IsTaker
<1>8. trades' = Append(trades, TradeWith(OnBook, taker, f))
  <2>1. TradeWith(OnBook, taker, f) =
            [price |-> maker.price, quantity |-> traded,
             taker_id |-> taker.id, maker_id |-> maker.id,
             taker_trader |-> taker.trader, maker_trader |-> maker.trader,
             taker_side |-> taker.side]
    BY <1>3, <1>7 DEF TradeWith
  <2> QED
    BY <2>1 DEF Fill
<1>9. trades \in Seq(Trade)
  BY DEF IInv, TypeOK
<1>10. /\ SameCall(taker, taker') /\ taker'.remaining = taker.remaining - traded
       /\ IsTaker(taker') /\ taker' # NoTaker /\ taker'.quantity = taker.quantity
  <2>1. /\ taker'.id = taker.id /\ taker'.trader = taker.trader
        /\ taker'.side = taker.side /\ taker'.price = taker.price
        /\ taker'.quantity = taker.quantity
        /\ taker'.remaining = taker.remaining - traded
    <3> HIDE DEF traded
    <3> QED
      BY <1>1, <1>5 DEF Taker
  <2>2. taker.remaining - traded \in Nat
    BY <1>5, <1>6 DEF IsTaker
  <2>3. IsTaker(taker')
    <3> HIDE DEF traded
    <3> QED
      BY <1>5, <2>1, <2>2 DEF IsTaker
  <2>4. taker' # NoTaker
    <3> HIDE DEF traded
    <3>1. taker.remaining - traded \in 0..MaxQty
      BY <1>5, <1>6, <2>2, BookConstants DEF Taker, IsTaker
    <3>2. taker' \in Taker
      BY <1>1, <1>5, <3>1 DEF Taker
    <3> QED
      BY <3>2, BookConstants
  <2> QED
    BY <2>1, <2>3, <2>4 DEF SameCall
<1> HIDE DEF traded, f
<1>11. CASE traded = maker.remaining
  <2>1. order' = [order EXCEPT ![Oldest] = NoOrder]
    BY <1>11 DEF Fill, RemoveOrder, Release, traded
  <2>2. OnBook' = OnBook \ {Card(order[Oldest])}
    BY <1>2, <2>1, OnBookWithout
  <2>3. Without(OnBook, f, OnBook')
    BY <2>2 DEF Without, f
  <2>4. f.remaining <= taker.remaining /\ taker'.remaining = taker.remaining - f.remaining
    BY <1>3, <1>6, <1>10, <1>11
  <2>5. /\ SameOutcome(OnBook, taker, OnBook', taker')
        /\ trades \o Priority!TradesOf(OnBook, taker)
             = Append(trades, TradeWith(OnBook, taker, f))
               \o Priority!TradesOf(OnBook', taker')
    <3>1. /\ IsBook(OnBook) /\ IsTaker(taker) /\ taker.remaining > 0
          /\ First(OnBook, taker, f) /\ ~Priority!Own(f, taker)
          /\ IsTaker(taker') /\ SameCall(taker, taker') /\ UsesUp(taker, f, taker')
          /\ Without(OnBook, f, OnBook') /\ trades \in Seq(Trade)
      BY <1>1, <1>3, <1>4, <1>5, <1>9, <1>10, <2>3, <2>4 DEF UsesUp
    <3> QED
      BY <3>1, MakerFilled
  <2> QED
    BY <1>1, <1>8, <1>10, <2>5, LoopKeepsOutcome
<1>12. CASE traded # maker.remaining
  <2>1. order' = [order EXCEPT ![Oldest] = Reduced(maker, traded)]
    BY <1>12 DEF Fill, traded
  <2>2. InUse' = InUse
    <3>1. maker.remaining - traded \in 1..MaxQty
      BY <1>2, <1>3, <1>5, <1>6, <1>12, BookConstants DEF Order
    <3>2. Reduced(maker, traded) \in Order
      BY <1>2, <3>1 DEF Order, Reduced
    <3> QED
      BY <1>2, <2>1, <3>2, BookConstants DEF InUse, IInv, TypeOK
  <2>3. OnBook' = (OnBook \ {Card(order[Oldest])})
                  \cup {[Card(order[Oldest]) EXCEPT !.remaining = order[Oldest].remaining - traded]}
    BY <1>2, <2>1, <2>2, OnBookLowered
  <2>4. /\ traded = taker.remaining /\ taker.remaining < f.remaining
        /\ taker'.remaining = 0
    BY <1>3, <1>5, <1>6, <1>10, <1>12 DEF IsTaker
  <2>5. Lowers(OnBook, f, taker, OnBook')
    BY <1>3, <2>3, <2>4 DEF Lowers, f
  <2>6. /\ SameOutcome(OnBook, taker, OnBook', taker')
        /\ trades \o Priority!TradesOf(OnBook, taker)
             = Append(trades, TradeWith(OnBook, taker, f))
               \o Priority!TradesOf(OnBook', taker')
    <3>1. /\ IsBook(OnBook) /\ IsTaker(taker) /\ taker.remaining > 0
          /\ First(OnBook, taker, f) /\ ~Priority!Own(f, taker)
          /\ taker.remaining < f.remaining /\ IsTaker(taker') /\ SameCall(taker, taker')
          /\ taker'.remaining = 0 /\ IsBook(OnBook')
          /\ Lowers(OnBook, f, taker, OnBook') /\ trades \in Seq(Trade)
      BY <1>1, <1>3, <1>4, <1>5, <1>9, <1>10, <2>4, <2>5
    <3> QED
      BY <3>1, MakerReduced
  <2> QED
    BY <1>1, <1>8, <1>10, <2>6, LoopKeepsOutcome
<1> QED
  BY <1>11, <1>12

-----------------------------------------------------------------------------
(* The calls. *)

(* The trades of a call are a sequence, one per maker.                   *)
LEMMA TradesAreSequences ==
    ASSUME NEW B, IsBook(B), NEW t
    PROVE  /\ <<>> \o Priority!TradesOf(B, t) = Priority!TradesOf(B, t)
           /\ Len(Priority!TradesOf(B, t)) = Cardinality(Priority!Hit(B, t))
<1> DEFINE H == Priority!Hit(B, t)
           S == {TradeWith(B, t, m) : m \in H}
           z(k) == TradeWith(B, t, Maker(H, k))
<1>1. Cardinality(H) \in Nat /\ \A k \in 1..Cardinality(H) : z(k) \in S
  BY MakersAreHit
<1>2. Priority!TradesOf(B, t) = [k \in 1..Cardinality(H) |-> z(k)]
  BY TradesAre
<1>3. PICK r \in Nat : r = Cardinality(H)
  BY <1>1
<1> HIDE DEF z, S, H
<1>4. Priority!TradesOf(B, t) \in Seq(S) /\ Len(Priority!TradesOf(B, t)) = r
  BY <1>1, <1>2, <1>3
<1>5. Len(Priority!TradesOf(B, t)) = Cardinality(Priority!Hit(B, t))
  BY <1>3, <1>4 DEF H
<1> QED
  BY <1>4, <1>5

(* Between two calls an id is indexed exactly when the specification's   *)
(* book has an order of that id.                                         *)
LEMMA RestingById ==
    ASSUME IInv, taker = NoTaker, NEW id \in OrderIds
    PROVE  /\ Promise!Resting(id) <=> index[id] # NoSlot
           /\ index[id] # NoSlot => index[id] \in InUse /\ order[index[id]].id = id
<1>1. IndexSound /\ IndexComplete
  BY DEF IInv, BookInv, StructuresAgree
<1>2. index[id] # NoSlot => index[id] \in InUse /\ order[index[id]].id = id
  BY <1>1 DEF IndexSound
<1>3. restingBar = OnBook
  BY BarsAtRest
<1>4. ASSUME index[id] # NoSlot PROVE Promise!Resting(id)
  <2>1. Card(order[index[id]]) \in OnBook
    BY <1>2, <1>4, OnBookIs
  <2> QED
    BY <1>2, <1>3, <1>4, <2>1, CardIs DEF Promise!Resting
<1>5. ASSUME Promise!Resting(id) PROVE index[id] # NoSlot
  <2>1. PICK m \in OnBook : m.id = id
    BY <1>3, <1>5 DEF Promise!Resting
  <2>2. PICK slot \in InUse : m = Card(order[slot])
    BY <2>1, OnBookIs
  <2>3. order[slot].id = id
    BY <2>1, <2>2, CardIs
  <2>4. index[id] = slot /\ slot \in Slots
    BY <1>1, <2>3 DEF IndexComplete, InUse
  <2> QED
    BY <2>4, BookConstants
<1> QED
  BY <1>2, <1>4, <1>5

(* reject() refuses what the specification refuses.                      *)
LEMMA RejectRefines ==
    ASSUME IInv, NEW id \in OrderIds, NEW quantity \in 0..MaxQty, Reject(id, quantity)
    PROVE  Promise!Reject(id, quantity)
<1>1. /\ taker = NoTaker /\ taker' = NoTaker /\ (quantity = 0 \/ index[id] # NoSlot)
      /\ trades' = <<>> /\ order' = order /\ nextSeq' = nextSeq
      /\ result' = [status |-> "Rejected", filled |-> 0, resting |-> 0, trade_count |-> 0]
  BY DEF Reject, ClearTrades, Returns, book
<1>2. quantity = 0 \/ Promise!Resting(id)
  <2>1. Promise!Resting(id) <=> index[id] # NoSlot
    BY <1>1, RestingById
  <2> QED
    BY <1>1, <2>1
<1>3. OnBook' = OnBook
  BY <1>1 DEF OnBook, InUse
<1>4. /\ tradesBar' = <<>> /\ restingBar' = restingBar /\ nextSeqBar' = nextSeqBar
      /\ resultBar' = [status |-> "Rejected", filled |-> 0, resting |-> 0, trade_count |-> 0]
  BY <1>1, <1>3, BarsAtRest
<1> QED
  BY <1>2, <1>4 DEF Promise!Reject

(* A submit() that is accepted is the specification's single step: its   *)
(* outcome is decided here.                                              *)
LEMMA SubmitRefines ==
    ASSUME IInv, DepthInv, NEW id \in OrderIds, NEW trader \in Traders,
           NEW side \in Side, NEW price \in Price, NEW quantity \in 0..MaxQty,
           Submit(id, trader, side, price, quantity)
    PROVE  quantity \in 1..MaxQty /\ Promise!Submit(id, trader, side, price, quantity)
<1> DEFINE t == [id |-> id, trader |-> trader, side |-> side, price |-> price,
                 quantity |-> quantity, remaining |-> quantity]
<1>1. /\ taker = NoTaker /\ taker' = t /\ quantity > 0 /\ index[id] = NoSlot
      /\ trades' = <<>> /\ order' = order /\ nextSeq' = nextSeq
  BY DEF Submit, ClearTrades, book
<1>2. quantity \in 1..MaxQty
  BY <1>1, BookConstants
<1>3. taker' # NoTaker
  <2>1. t \in Taker
    BY <1>2, BookConstants DEF Taker
  <2> HIDE DEF t
  <2> QED
    BY <1>1, <2>1, BookConstants
<1>4. OnBook' = OnBook /\ t.quantity = quantity
  BY <1>1 DEF OnBook, InUse
<1>5. ~Promise!Resting(id)
  BY <1>1, RestingById
<1> HIDE DEF t
<1>6. restingBar = OnBook /\ nextSeqBar = nextSeq
  BY <1>1, BarsAtRest
<1>7. restingBar' = Promise!After(restingBar, t, nextSeqBar)
  BY <1>1, <1>3, <1>4, <1>6, BarsInNextCall, PromiseAfter
<1>8. IsBook(OnBook)
  BY OnBookIsBook
<1>9. tradesBar' = Priority!TradesOf(OnBook, t)
  <2>1. tradesBar' = <<>> \o Priority!TradesOf(OnBook, t)
    BY <1>1, <1>3, <1>4, BarsInNextCall
  <2> QED
    BY <1>8, <2>1, TradesAreSequences
<1>10. tradesBar' = Promise!TradesOf(restingBar, t)
  BY <1>6, <1>9, PromiseTrades
<1>11. nextSeqBar' = IF Promise!Rests(restingBar, t) THEN nextSeqBar + 1 ELSE nextSeqBar
  BY <1>1, <1>3, <1>4, <1>6, BarsInNextCall, PromiseLeft
<1>12. resultBar' = [status |-> Promise!StatusOf(restingBar, t),
                     filled |-> quantity - Promise!Left(restingBar, t),
                     resting |-> IF Promise!Rests(restingBar, t)
                                 THEN Promise!Left(restingBar, t) ELSE 0,
                     trade_count |-> Promise!Cardinality(Promise!Hit(restingBar, t))]
  <2>1. resultBar' = Verdict(OnBook, t, tradesBar')
    BY <1>1, <1>3, <1>4, BarsInNextCall
  <2>2. Len(tradesBar') = Promise!Cardinality(Promise!Hit(restingBar, t))
    BY <1>6, <1>8, <1>9, TradesAreSequences, PromiseTrades
  <2> QED
    BY <1>4, <1>6, <2>1, <2>2, PromiseLeft DEF Verdict
<1>13. Promise!Submit(id, trader, side, price, quantity)
  BY <1>1, <1>5, <1>7, <1>10, <1>11, <1>12 DEF Promise!Submit, t
<1> QED
  BY <1>2, <1>13

(* cancel() takes the order of that id off the book, or finds none.      *)
LEMMA CancelRefines ==
    ASSUME IInv, NEW id \in OrderIds, Cancel(id) \/ CancelMiss(id)
    PROVE  Promise!Cancel(id)
<1>1. /\ taker = NoTaker /\ taker' = NoTaker /\ nextSeq' = nextSeq /\ trades' = trades
      /\ result' = [status |-> IF index[id] # NoSlot THEN "Removed" ELSE "NotFound",
                    filled |-> 0, resting |-> 0, trade_count |-> 0]
  BY DEF Cancel, CancelMiss, Returns, book
<1>2. OnBook' = {m \in OnBook : m.id # id}
  <2>1. CASE index[id] # NoSlot
    <3> DEFINE slot == index[id]
    <3>1. slot \in InUse /\ order[slot].id = id
      BY <1>1, <2>1, RestingById
    <3>2. order' = [order EXCEPT ![slot] = NoOrder]
      BY <2>1 DEF Cancel, CancelMiss, RemoveOrder, Release
    <3>3. OnBook' = OnBook \ {Card(order[slot])}
      BY <3>1, <3>2, OnBookWithout
    <3>4. ASSUME NEW m \in OnBook PROVE m.id = id <=> m = Card(order[slot])
      <4>1. PICK s \in InUse : m = Card(order[s])
        BY OnBookIs
      <4>2. m.id = order[s].id /\ Card(order[slot]).id = id
        BY <3>1, <4>1, CardIs
      <4>3. order[s].id = order[slot].id => s = slot
        BY <3>1, CardsAreDistinct
      <4> QED
        BY <3>1, <4>1, <4>2, <4>3
    <3> QED
      BY <3>3, <3>4
  <2>2. CASE index[id] = NoSlot
    <3>1. order' = order
      BY <2>2 DEF Cancel, CancelMiss, book
    <3>2. OnBook' = OnBook
      BY <3>1 DEF OnBook, InUse
    <3>3. restingBar = OnBook /\ ~Promise!Resting(id)
      BY <1>1, <2>2, RestingById, BarsAtRest
    <3>4. \A m \in OnBook : m.id # id
      BY <3>3 DEF Promise!Resting
    <3> QED
      BY <3>2, <3>4
  <2> QED
    BY <2>1, <2>2
<1>3. Promise!Resting(id) <=> index[id] # NoSlot
  BY <1>1, RestingById
<1> QED
  BY <1>1, <1>2, <1>3, BarsAtRest DEF Promise!Cancel

(* Both start with an empty book.                                        *)
LEMMA InitRefines == Init => Promise!Init
<1> SUFFICES ASSUME Init PROVE Promise!Init
  OBVIOUS
<1>1. /\ taker = NoTaker /\ trades = <<>> /\ nextSeq = 1
      /\ result = [status |-> "None", filled |-> 0, resting |-> 0, trade_count |-> 0]
  BY DEF Init
<1>2. InUse = {}
  BY DEF Init, InUse
<1>3. OnBook = {}
  BY <1>2, OnBookIs
<1> QED
  BY <1>1, <1>3, BarsAtRest DEF Promise!Init

(* Every step of OrderBook is a step of PriceTimeBook or none.           *)
LEMMA NextRefines ==
    ASSUME IInv, IInv', DepthInv, DepthInv', [Next]_vars
    PROVE  [Promise!Next]_(Promise!vars)
<1>0. Promise!vars = bars /\ Promise!vars' = bars'
  BY DEF Promise!vars, bars
<1>1. ASSUME NEW id \in OrderIds, NEW quantity \in 0..MaxQty, Reject(id, quantity)
      PROVE  Promise!Next
  BY <1>1, RejectRefines DEF Promise!Next
<1>2. ASSUME NEW id \in OrderIds, NEW trader \in Traders, NEW side \in Side,
             NEW price \in Price, NEW quantity \in 0..MaxQty,
             Submit(id, trader, side, price, quantity)
      PROVE  Promise!Next
  <2>1. quantity \in 1..MaxQty /\ Promise!Submit(id, trader, side, price, quantity)
    BY <1>2, SubmitRefines
  <2>2. side \in Promise!Side /\ price \in MinPrice..MaxPrice
    BY DEF Promise!Side, Side, Price
  <2> QED
    BY <2>1, <2>2 DEF Promise!Next
<1>3. ASSUME NEW id \in OrderIds, Cancel(id) \/ CancelMiss(id)
      PROVE  Promise!Next
  <2>1. Promise!Cancel(id)
    BY <1>3, CancelRefines
  <2> QED
    BY <2>1 DEF Promise!Next
<1>4. ASSUME PreventSelfTrade PROVE UNCHANGED bars
  BY <1>4, CancelRestingStutters, CancelAggressingStutters DEF PreventSelfTrade
<1>5. ASSUME Fill PROVE UNCHANGED bars
  BY <1>5, FillStutters
<1>6. ASSUME FullyFilled PROVE UNCHANGED bars
  BY <1>6, FullyFilledStutters
<1>7. ASSUME NEW slot \in Slots, Rest(slot) PROVE UNCHANGED bars
  BY <1>7, RestStutters
<1>8. ASSUME UNCHANGED vars PROVE UNCHANGED bars
  <2>1. /\ order' = order /\ taker' = taker /\ trades' = trades
        /\ nextSeq' = nextSeq /\ result' = result
    BY <1>8 DEF vars, book
  <2>2. OnBook' = OnBook
    BY <2>1 DEF OnBook, InUse
  <2>3. CASE taker = NoTaker
    BY <2>1, <2>2, <2>3, BarsAtRest DEF bars
  <2>4. CASE taker # NoTaker
    <3>1. SameOutcome(OnBook, taker, OnBook', taker')
      BY <2>1, <2>2 DEF SameOutcome
    <3> QED
      BY <2>1, <2>2, <2>4, <3>1, LoopKeepsOutcome
  <2> QED
    BY <2>3, <2>4
<1>9. Call => Promise!Next
  BY <1>1, <1>2, <1>3 DEF Call
<1>10. Match => UNCHANGED bars
  BY <1>4, <1>5, <1>6, <1>7 DEF Match
<1> QED
  BY <1>0, <1>8, <1>9, <1>10 DEF Next

(* submit() and cancel() have the outcome the loop-free specification    *)
(* gives them: whatever the queues, partial fills, self-trades and       *)
(* emptied levels on the way, the trades, their order, the book and the  *)
(* result are those of price-time priority stated per order.             *)
THEOREM MatchingRefinesPriceTime == Spec => ImplementsPriceTimeBook
<1>1. Init => Promise!Init
  BY InitRefines
<1>2. IInv /\ IInv' /\ DepthInv /\ DepthInv' /\ [Next]_vars => [Promise!Next]_(Promise!vars)
  BY NextRefines
<1> QED
  BY <1>1, <1>2, BookIsSound, DepthNeverDrifts, PTL
  DEF Spec, ImplementsPriceTimeBook, Promise!Spec
================================================================================
