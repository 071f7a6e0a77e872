--------------------------- MODULE RingBufferProofs ---------------------------
(***************************************************************************)
(* Theorems about the queue for every capacity, index width and number of  *)
(* items: indices that wrap around any number of times, and loads that     *)
(* return any store the memory model allows.                               *)
(***************************************************************************)
EXTENDS RingBufferProps, SequenceTheorems, TLAPS

-----------------------------------------------------------------------------
(* Residues. *)

(* A remainder is determined by any representation of the number.          *)
LEMMA Residue ==
    ASSUME NEW r \in Nat \ {0}, NEW q \in Int, NEW k \in 0..(r - 1)
    PROVE  (q * r + k) % r = k
<1> DEFINE x == q * r + k
           d == x \div r
           m == x % r
<1>1. q * r \in Int /\ x \in Int
  OBVIOUS
<1>2. d \in Int /\ m \in 0..(r - 1) /\ x = d * r + m
  BY <1>1
<1>3. d = q
  <2>1. d * r \in Int /\ (q + 1) * r = q * r + r /\ (d + 1) * r = d * r + r
    BY <1>2
  <2>2. ASSUME d > q PROVE FALSE
    <3>1. d * r >= (q + 1) * r
      BY <1>2, <2>2
    <3> QED
      BY <1>1, <1>2, <2>1, <3>1
  <2>3. ASSUME d < q PROVE FALSE
    <3>1. q * r >= (d + 1) * r
      BY <1>2, <2>3
    <3> QED
      BY <1>1, <1>2, <2>1, <3>1
  <2> QED
    BY <1>2, <2>2, <2>3
<1> QED
  BY <1>1, <1>2, <1>3

(* Every number is a multiple of the divisor plus its remainder.           *)
LEMMA Quotient ==
    ASSUME NEW r \in Nat \ {0}, NEW x \in Int
    PROVE  /\ x % r \in 0..(r - 1)
           /\ \E q \in Int : x = q * r + (x % r)
<1>1. x \div r \in Int /\ x % r \in 0..(r - 1) /\ x = (x \div r) * r + (x % r)
  OBVIOUS
<1> QED
  BY <1>1

(* Two numbers that differ by a multiple of the divisor have one remainder. *)
LEMMA ShiftedResidue ==
    ASSUME NEW r \in Nat \ {0}, NEW x \in Int, NEW q \in Int
    PROVE  (q * r + x) % r = x % r
<1>1. PICK p \in Int : x = p * r + (x % r)
  BY Quotient
<1>2. x % r \in 0..(r - 1)
  BY Quotient
<1> DEFINE k == x % r
<1> HIDE DEF k
<1>3. q * r + x = (q + p) * r + k
  BY <1>1, <1>2 DEF k
<1>4. ((q + p) * r + k) % r = k
  BY <1>2, Residue DEF k
<1> QED
  BY <1>3, <1>4 DEF k

(* Numbers closer than the divisor with one remainder are equal; otherwise *)
(* they are at least the divisor apart.                                    *)
LEMMA SameResidue ==
    ASSUME NEW r \in Nat \ {0}, NEW a \in Int, NEW b \in Int, a % r = b % r, a < b
    PROVE  a + r <= b
<1>1. PICK p \in Int : a = p * r + (a % r)
  BY Quotient
<1>2. PICK q \in Int : b = q * r + (b % r)
  BY Quotient
<1>3. a % r \in 0..(r - 1)
  BY Quotient
<1> DEFINE k == a % r
<1>4. p * r \in Int /\ q * r \in Int /\ k \in Int /\ a = p * r + k /\ b = q * r + k
  BY <1>1, <1>2, <1>3
<1> HIDE DEF k
<1>5. q >= p + 1
  <2>1. ASSUME q <= p PROVE FALSE
    <3>1. q * r <= p * r
      BY <2>1
    <3> QED
      BY <1>4, <3>1
  <2> QED
    BY <2>1
<1>6. q * r >= (p + 1) * r /\ (p + 1) * r = p * r + r
  BY <1>5
<1> QED
  BY <1>4, <1>6

-----------------------------------------------------------------------------
(* Indices: size_t counters that wrap, masked to a slot. *)

(* An index is a count of operations modulo 2^Width.                       *)
Index(n) == n % Modulus

(* The slot of an index is the slot of the count it stands for, however    *)
(* often it has wrapped: the capacity divides the range.                   *)
LEMMA SlotOfIndex ==
    ASSUME NEW n \in Int
    PROVE  /\ SlotOf(Index(n)) = n % Capacity
           /\ n % Capacity \in Slot
<1>1. Capacity \in Nat \ {0} /\ Modulus \in Nat \ {0}
  BY PowersOfTwo
<1>2. PICK c \in 2..Modulus : Modulus = c * Capacity
  BY PowersOfTwo
<1>3. PICK q \in Int : n = q * Modulus + (n % Modulus)
  BY <1>1, Quotient
<1> DEFINE x == n % Modulus
<1>4. x \in Int
  BY <1>1
<1> HIDE DEF x
<1>5. q * Modulus = (q * c) * Capacity /\ q * c \in Int
  BY <1>1, <1>2, <1>3
<1>6. n = (q * c) * Capacity + x
  BY <1>3, <1>5 DEF x
<1>7. ((q * c) * Capacity + x) % Capacity = x % Capacity
  BY <1>1, <1>4, <1>5, ShiftedResidue
<1>8. n % Capacity \in 0..(Capacity - 1)
  BY <1>1, Quotient
<1> QED
  BY <1>6, <1>7, <1>8 DEF SlotOf, Index, Slot, x

(* Adding to an index adds to the count.                                   *)
LEMMA AdvanceIndex ==
    ASSUME NEW n \in Int, NEW k \in Int
    PROVE  (Index(n) + k) % Modulus = Index(n + k)
<1>1. Modulus \in Nat \ {0}
  BY PowersOfTwo
<1>2. PICK q \in Int : n = q * Modulus + (n % Modulus)
  BY <1>1, Quotient
<1> DEFINE x == n % Modulus
<1>3. x \in Int /\ x + k \in Int
  BY <1>1
<1> HIDE DEF x
<1>4. n + k = q * Modulus + (x + k)
  BY <1>1, <1>2, <1>3 DEF x
<1>5. (q * Modulus + (x + k)) % Modulus = (x + k) % Modulus
  BY <1>1, <1>3, ShiftedResidue
<1> QED
  BY <1>4, <1>5 DEF Index, x

(* The distance of two indices is the distance of their counts while that  *)
(* is less than the range.                                                 *)
LEMMA DistanceOfIndices ==
    ASSUME NEW a \in Int, NEW b \in Int, a - b \in 0..(Modulus - 1)
    PROVE  Distance(Index(a), Index(b)) = a - b
<1>1. Modulus \in Nat \ {0}
  BY PowersOfTwo
<1>2. PICK q \in Int : a = q * Modulus + (a % Modulus)
  BY <1>1, Quotient
<1>3. PICK p \in Int : b = p * Modulus + (b % Modulus)
  BY <1>1, Quotient
<1> DEFINE x == a % Modulus
           y == b % Modulus
<1>4. x \in Int /\ y \in Int
  BY <1>1
<1> HIDE DEF x, y
<1>5. /\ p - q \in Int /\ (p - q) * Modulus = p * Modulus - q * Modulus
      /\ p * Modulus \in Int /\ q * Modulus \in Int
  BY <1>1, <1>2, <1>3
<1>6. a = q * Modulus + x /\ b = p * Modulus + y
  BY <1>2, <1>3 DEF x, y
<1>7. x - y = (p - q) * Modulus + (a - b)
  BY <1>4, <1>5, <1>6
<1>8. ((p - q) * Modulus + (a - b)) % Modulus = a - b
  BY <1>1, <1>5, Residue
<1> QED
  BY <1>7, <1>8 DEF Distance, Index, x, y

-----------------------------------------------------------------------------
(* The inductive invariant. *)

Published == Len(tailStores) - 1      \* push() calls that have returned true
Retired   == Len(headStores) - 1      \* pop() calls that have returned true

(* The slot of the n-th item.                                              *)
Place(n) == (n - 1) % Capacity

(* The j-th store of an index is the count j - 1, and it is released with  *)
(* a view of exactly that many accesses.                                   *)
CountsUp(stores) ==
    \A j \in 1..Len(stores) : /\ stores[j].value = Index(j - 1)
                              /\ stores[j].view = j - 1

\* Each thread knows of the other what the store it has seen last tells it;
\* it acts only on what it knows, and so stays within Capacity of the other.
Coordinated ==
    /\ CountsUp(tailStores) /\ CountsUp(headStores)
    /\ wrote = Published + (IF producer.pc = "publish" THEN 1 ELSE 0)
    /\ took = Retired + (IF consumer.pc = "retire" THEN 1 ELSE 0)
    /\ producer.seen \in 1..Len(headStores) /\ producer.knows = producer.seen - 1
    /\ consumer.seen \in 1..Len(tailStores) /\ consumer.knows = consumer.seen - 1
    /\ wrote <= producer.knows + Capacity
    /\ producer.pc = "construct" => wrote < producer.knows + Capacity /\ wrote < Items
    /\ took <= consumer.knows
    /\ consumer.pc = "take" => took < consumer.knows
    /\ destroyed => producer.pc = "idle" /\ consumer.pc = "idle"

\* The items written and not yet taken are in their slots, and nothing else is.
Contents ==
    /\ \A n \in (took + 1)..wrote : slots[Place(n)].constructed = n
    /\ ~destroyed => \A n \in (took + 1)..wrote : slots[Place(n)].item = n
    /\ ~destroyed => \A i \in Slot : slots[i].item # Raw =>
           slots[i].item \in (took + 1)..wrote /\ Place(slots[i].item) = i
    /\ destroyed => \A i \in Slot : slots[i].item = Raw
    /\ \A i \in Slot : slots[i].destroyed # 0 =>
           slots[i].destroyed \in 1..took /\ Place(slots[i].destroyed) = i

Safe == TypeOK /\ Coordinated /\ Contents

(* The counts in order: each thread runs behind what the other has done    *)
(* and ahead of what the other knows.                                      *)
LEMMA Order ==
    ASSUME Safe
    PROVE  /\ Published \in Nat /\ Retired \in Nat /\ wrote \in Nat /\ took \in Nat
           /\ producer.knows \in Nat /\ consumer.knows \in Nat
           /\ Len(tailStores) = Published + 1 /\ Len(headStores) = Retired + 1
           /\ producer.knows <= Retired /\ Retired <= took /\ took <= consumer.knows
           /\ consumer.knows <= Published /\ Published <= wrote
           /\ wrote <= producer.knows + Capacity
<1>1. Len(tailStores) \in Nat \ {0} /\ Len(headStores) \in Nat \ {0}
  BY DEF Safe, TypeOK
<1>2. /\ wrote \in Nat /\ took \in Nat /\ producer.knows \in Nat /\ consumer.knows \in Nat
      /\ producer.seen \in Nat /\ consumer.seen \in Nat
  BY RingConstants DEF Safe, TypeOK
<1>3. /\ wrote = Published \/ wrote = Published + 1
      /\ took = Retired \/ took = Retired + 1
      /\ producer.seen <= Len(headStores) /\ producer.knows = producer.seen - 1
      /\ consumer.seen <= Len(tailStores) /\ consumer.knows = consumer.seen - 1
      /\ wrote <= producer.knows + Capacity /\ took <= consumer.knows
  BY <1>1 DEF Safe, Coordinated, Published, Retired
<1> QED
  BY <1>1, <1>2, <1>3, SMTT(30) DEF Published, Retired

(* The range of the indices has room for twice the capacity.               *)
LEMMA Room ==
    /\ Capacity \in Nat \ {0} /\ Capacity >= 2
    /\ Modulus \in Nat \ {0} /\ Modulus >= Capacity + 2
<1>1. PICK c \in 2..Modulus : Modulus = c * Capacity
  BY PowersOfTwo
<1>2. c * Capacity >= 2 * Capacity
  BY <1>1, PowersOfTwo
<1> QED
  BY <1>1, <1>2, PowersOfTwo

(* What the threads' own indices, and the ones they load, stand for.       *)
LEMMA Indices ==
    ASSUME Safe
    PROVE  /\ Tl = Index(Published) /\ Hd = Index(Retired)
           /\ \A j \in 1..Len(tailStores) : tailStores[j].value = Index(j - 1)
                                         /\ tailStores[j].view = j - 1
           /\ \A j \in 1..Len(headStores) : headStores[j].value = Index(j - 1)
                                         /\ headStores[j].view = j - 1
<1>1. Len(tailStores) \in 1..Len(tailStores) /\ Len(headStores) \in 1..Len(headStores)
  BY DEF Safe, TypeOK
<1> QED
  BY <1>1 DEF Safe, Coordinated, CountsUp, Published, Retired, Tl, Hd, Latest

(* The slots the two threads touch next.                                   *)
LEMMA OwnSlots ==
    ASSUME Safe
    PROVE  /\ SlotOf(Tl) = Place(Published + 1) /\ SlotOf(Tl) \in Slot
           /\ SlotOf(Hd) = Place(Retired + 1) /\ SlotOf(Hd) \in Slot
<1>1. Published \in Int /\ Retired \in Int /\ Published + 1 - 1 = Published
      /\ Retired + 1 - 1 = Retired
  BY Order
<1> QED
  BY <1>1, Indices, SlotOfIndex DEF Place

(* Two items that share a slot are a capacity apart.                       *)
LEMMA SharedSlot ==
    ASSUME NEW a \in Int, NEW b \in Int, Place(a) = Place(b), a < b
    PROVE  a + Capacity <= b
<1>1. (a - 1) + Capacity <= b - 1
  <2>1. a - 1 \in Int /\ b - 1 \in Int /\ a - 1 < b - 1 /\ (a - 1) % Capacity = (b - 1) % Capacity
    BY DEF Place
  <2> QED
    BY <2>1, SameResidue, Room
<1> QED
  BY <1>1, Room

(* What the destructor goes through when both threads are out of the       *)
(* queue is objects.                                                       *)
LEMMA InFlightHoldsObjects ==
    ASSUME Safe, ~destroyed, producer.pc = "idle", consumer.pc = "idle",
           NEW i \in InFlightSlots
    PROVE  slots[i].item # Raw
<1>1. wrote = Published /\ took = Retired
  BY Order DEF Safe, Coordinated
<1>2. Tl = Index(wrote) /\ Hd = Index(took) /\ wrote - took \in 0..(Modulus - 1)
      /\ wrote \in Int /\ took \in Int
  BY <1>1, Indices, Order, Room, SMTT(30)
<1>3. Distance(Tl, Hd) = wrote - took
  BY <1>2, DistanceOfIndices
<1>4. PICK k \in 0..(wrote - took - 1) : i = SlotOf((Hd + k) % Modulus)
  BY <1>3 DEF InFlightSlots
<1>5. /\ k \in Int /\ took + k \in Int /\ took + k + 1 - 1 = took + k
      /\ took + k + 1 \in (took + 1)..wrote
  BY <1>2, <1>4
<1>6. (Hd + k) % Modulus = Index(took + k)
  BY <1>2, <1>5, AdvanceIndex
<1>7. i = Place(took + k + 1)
  BY <1>4, <1>5, <1>6, SlotOfIndex DEF Place
<1>8. slots[i].item = took + k + 1
  BY <1>5, <1>7 DEF Safe, Contents
<1>9. took + k + 1 # Raw
  <2>1. took + k + 1 \in 1..Items
    BY <1>5, Order, RingConstants DEF Safe, TypeOK
  <2> QED
    BY <2>1, RingConstants
<1> QED
  BY <1>8, <1>9

(* The invariant implies the run's: a slot is raw, and its last destruction *)
(* known, when it is constructed in; it holds an object whose construction *)
(* is known when it is taken from.                                         *)
LEMMA SafeSuffices ==
    ASSUME Safe
    PROVE  NoDataRace /\ LifetimesPair
<1>1. ASSUME producer.pc = "construct"
      PROVE  slots[SlotOf(Tl)].destroyed <= producer.knows /\ slots[SlotOf(Tl)].item = Raw
  <2> DEFINE i == SlotOf(Tl)
  <2>1. i \in Slot /\ i = Place(wrote + 1) /\ wrote < producer.knows + Capacity /\ ~destroyed
    <3>1. wrote = Published + 0 /\ wrote < producer.knows + Capacity /\ ~destroyed
      BY <1>1 DEF Safe, Coordinated
    <3>2. wrote = Published
      BY <3>1, Order
    <3> QED
      BY <3>1, <3>2, OwnSlots
  <2> HIDE DEF i
  <2>2. slots[i].destroyed \in Nat
    BY <2>1 DEF Safe, TypeOK
  <2>3. ASSUME slots[i].destroyed # 0 PROVE slots[i].destroyed <= producer.knows
    <3>1. slots[i].destroyed \in 1..took /\ Place(slots[i].destroyed) = Place(wrote + 1)
      BY <2>1, <2>3 DEF Safe, Contents
    <3>2. slots[i].destroyed + Capacity <= wrote + 1
      BY <2>2, <3>1, Order, SharedSlot, SMTT(30)
    <3> QED
      BY <2>1, <2>2, <3>2, Order, Room, SMTT(30)
  <2>4. ASSUME slots[i].item # Raw PROVE FALSE
    <3>1. slots[i].item \in (took + 1)..wrote /\ Place(slots[i].item) = Place(wrote + 1)
      BY <2>1, <2>4 DEF Safe, Contents
    <3>2. PICK x \in Int : x = slots[i].item
      BY <3>1, Order, SMTT(30)
    <3>3. took + 1 <= x /\ x <= wrote /\ Place(x) = Place(wrote + 1)
      BY <3>1, <3>2, Order
    <3>4. x + Capacity <= wrote + 1
      BY <3>3, Order, SharedSlot
    <3>5. /\ producer.knows <= took /\ wrote < producer.knows + Capacity
          /\ took \in Int /\ wrote \in Int /\ producer.knows \in Int
      BY <2>1, Order
    <3> QED
      BY <3>3, <3>4, <3>5, Room
  <2>5. slots[i].destroyed <= producer.knows
    BY <2>2, <2>3, Order
  <2> QED
    BY <2>4, <2>5 DEF i
<1>2. ASSUME consumer.pc = "take"
      PROVE  slots[SlotOf(Hd)].constructed <= consumer.knows /\ slots[SlotOf(Hd)].item # Raw
  <2>1. took < consumer.knows /\ took = Retired /\ ~destroyed
    BY <1>2, Order DEF Safe, Coordinated
  <2>2. took + 1 \in (took + 1)..wrote
    BY <2>1, Order
  <2>3. slots[Place(took + 1)].constructed = took + 1 /\ slots[Place(took + 1)].item = took + 1
    BY <2>1, <2>2 DEF Safe, Contents
  <2>4. took + 1 # Raw
    <3>1. took + 1 \in 1..Items
      BY <2>2, Order, RingConstants DEF Safe, TypeOK
    <3> QED
      BY <3>1, RingConstants
  <2> QED
    BY <2>1, <2>3, <2>4, OwnSlots, Order
<1>3. destroyed => \A i \in Slot : slots[i].item = Raw
  BY DEF Safe, Contents
<1> QED
  BY <1>1, <1>2, <1>3, InFlightHoldsObjects DEF NoDataRace, LifetimesPair, Safe

-----------------------------------------------------------------------------
(* The steps. *)

(* A store of the next count keeps the index counting.                     *)
LEMMA StoreNext ==
    ASSUME NEW stores \in Seq(Store), stores # <<>>, CountsUp(stores),
           NEW view \in Nat, view = Len(stores)
    PROVE  LET more == Append(stores, [value |-> (Latest(stores).value + 1) % Modulus,
                                       view  |-> view])
           IN  more \in Seq(Store) /\ Len(more) = Len(stores) + 1 /\ CountsUp(more)
<1> DEFINE n == Len(stores)
           e == [value |-> (Latest(stores).value + 1) % Modulus, view |-> view]
           more == Append(stores, e)
<1>1. n \in Nat \ {0} /\ n \in 1..n
  OBVIOUS
<1>2. Latest(stores).value = Index(n - 1)
  BY <1>1 DEF CountsUp, Latest
<1>3. (Index(n - 1) + 1) % Modulus = Index(n)
  <2>1. n - 1 \in Int /\ n - 1 + 1 = n
    BY <1>1
  <2> QED
    BY <2>1, AdvanceIndex
<1>4. Index(n) \in 0..(Modulus - 1)
  <2>1. n \in Int /\ Modulus \in Nat \ {0}
    BY <1>1, Room
  <2> HIDE DEF n
  <2> QED
    BY <2>1, Quotient DEF Index
<1>5. e \in Store /\ e.value = Index(n) /\ e.view = n
  BY <1>2, <1>3, <1>4 DEF Store
<1> HIDE DEF e
<1>6. /\ more \in Seq(Store) /\ Len(more) = n + 1
      /\ \A j \in 1..n : more[j] = stores[j]
      /\ more[n + 1] = e
  BY <1>5
<1> HIDE DEF more
<1>7. CountsUp(more)
  <2> SUFFICES ASSUME NEW j \in 1..(n + 1)
               PROVE  more[j].value = Index(j - 1) /\ more[j].view = j - 1
    BY <1>6 DEF CountsUp
  <2>1. CASE j = n + 1
    BY <1>1, <1>5, <1>6, <2>1
  <2>2. CASE j # n + 1
    <3>1. j \in 1..n
      BY <1>1, <2>2
    <3> QED
      BY <1>6, <3>1 DEF CountsUp
  <2> QED
    BY <2>1, <2>2
<1> QED
  BY <1>6, <1>7 DEF more, e

(* A load of head_ in push(): the producer learns of what the store it     *)
(* reads was released with, and enters the slot only if it is free by that. *)
LEMMA HeadLoaded ==
    ASSUME Safe, NEW j, LoadHead(j), NEW pc \in {"idle", "construct"},
           producer' = [pc |-> pc, seen |-> j,
                        knows |-> Learn(producer.knows, headStores[j])],
           UNCHANGED <<tailStores, headStores, slots, consumer, wrote, took, destroyed>>,
           pc = "construct" => wrote < j - 1 + Capacity
    PROVE  Safe'
<1>1. /\ j \in producer.seen..Len(headStores) /\ producer.seen \in 1..Len(headStores)
      /\ producer.knows = producer.seen - 1 /\ Len(headStores) \in Nat
      /\ producer.pc = "idle" /\ ~destroyed /\ wrote < Items /\ producer.seen \in Nat
  BY DEF LoadHead, Safe, Coordinated, TypeOK
<1>2. /\ j \in 1..Len(headStores) /\ j \in Nat /\ j - 1 \in Nat
      /\ producer.knows <= j - 1 /\ headStores[j].view = j - 1
  <2>1. j \in 1..Len(headStores) /\ j \in Nat /\ j - 1 \in Nat /\ producer.knows <= j - 1
    BY <1>1
  <2> QED
    BY <2>1, Indices
<1>3. Learn(producer.knows, headStores[j]) = j - 1
  BY <1>1, <1>2 DEF Learn
<1>4. /\ producer'.pc = pc /\ producer'.seen = j /\ producer'.knows = j - 1
      /\ producer' \in [pc : {"idle", "construct", "publish"}, seen : Nat, knows : Nat]
  BY <1>2, <1>3
<1>5. TypeOK'
  BY <1>4 DEF Safe, TypeOK
<1>6. Coordinated'
  <2>1. CountsUp(tailStores)' /\ CountsUp(headStores)'
    BY DEF Safe, Coordinated, CountsUp
  <2>2. wrote' = Published' + (IF producer'.pc = "publish" THEN 1 ELSE 0)
    BY <1>1, <1>4 DEF Safe, Coordinated, Published
  <2>3. /\ took' = Retired' + (IF consumer'.pc = "retire" THEN 1 ELSE 0)
        /\ consumer'.seen \in 1..Len(tailStores') /\ consumer'.knows = consumer'.seen - 1
        /\ took' <= consumer'.knows /\ (consumer'.pc = "take" => took' < consumer'.knows)
    BY DEF Safe, Coordinated, Retired
  <2>4. wrote' <= producer'.knows + Capacity
    <3>1. /\ wrote <= producer.knows + Capacity /\ wrote \in Int
          /\ producer.knows \in Int /\ Capacity \in Int
      BY Order, Room
    <3>2. wrote <= (j - 1) + Capacity
      BY <1>2, <3>1
    <3> QED
      BY <1>4, <3>2
  <2>5. producer'.pc = "construct" => wrote' < producer'.knows + Capacity /\ wrote' < Items
    BY <1>1, <1>4
  <2> QED
    BY <1>1, <1>2, <1>4, <2>1, <2>2, <2>3, <2>4, <2>5 DEF Coordinated
<1>7. Contents'
  BY DEF Safe, Contents
<1> QED
  BY <1>5, <1>6, <1>7 DEF Safe

(* push(), up to the decision: full is told from free by indices that wrap. *)
LEMMA PushLoadKeeps ==
    ASSUME Safe, NEW j, PushFull(j) \/ PushRoom(j)
    PROVE  Safe'
<1>1. /\ LoadHead(j)
      /\ UNCHANGED <<tailStores, headStores, slots, consumer, wrote, took, destroyed>>
  BY DEF PushFull, PushRoom
<1>2. CASE PushFull(j)
  <2>1. producer' = [pc |-> "idle", seen |-> j,
                     knows |-> Learn(producer.knows, headStores[j])]
    BY <1>2 DEF PushFull, LoadHead, Safe, TypeOK
  <2> QED
    BY <1>1, <2>1, HeadLoaded
<1>3. CASE PushRoom(j)
  <2>1. producer' = [pc |-> "construct", seen |-> j,
                     knows |-> Learn(producer.knows, headStores[j])]
    BY <1>3 DEF PushRoom
  <2>2. /\ j \in 1..Len(headStores) /\ producer.knows <= j - 1 /\ j \in Nat
        /\ wrote = Published
    BY <1>1, Order, SMTT(30) DEF LoadHead, Safe, Coordinated, TypeOK
  <2>3. Distance((Tl + 1) % Modulus, headStores[j].value) = Published + 1 - (j - 1)
    <3>1. (Tl + 1) % Modulus = Index(Published + 1) /\ headStores[j].value = Index(j - 1)
      BY <2>2, Indices, Order, AdvanceIndex
    <3>2. /\ Published + 1 \in Int /\ j - 1 \in Int
          /\ Published + 1 - (j - 1) \in 0..(Modulus - 1)
      <4>1. /\ Published \in Int /\ j \in Int /\ Capacity \in Int /\ Modulus \in Int
            /\ Modulus >= Capacity + 2 /\ j - 1 <= Published
        BY <2>2, Order, Room, SMTT(30)
      <4>2. Published <= (j - 1) + Capacity
        <5>1. Published <= producer.knows + Capacity /\ producer.knows \in Int
          BY <2>2, Order
        <5> QED
          BY <2>2, <4>1, <5>1
      <4> QED
        BY <4>1, <4>2
    <3> DEFINE a == Published + 1
               b == j - 1
    <3>3. Distance(Index(a), Index(b)) = a - b
      <4>1. a \in Int /\ b \in Int /\ a - b \in 0..(Modulus - 1)
        BY <2>2, <3>2, Order, SMTT(30)
      <4> HIDE DEF a, b
      <4> QED
        BY <4>1, DistanceOfIndices
    <3> QED
      BY <2>2, <3>1, <3>3, Order
  <2>4. wrote < j - 1 + Capacity
    BY <1>3, <2>2, <2>3, Order, Room, SMTT(30) DEF PushRoom, IsFull
  <2> QED
    BY <1>1, <2>1, <2>4, HeadLoaded
<1> QED
  BY <1>2, <1>3

(* A load of tail_ in pop().                                               *)
LEMMA TailLoaded ==
    ASSUME Safe, NEW j, LoadTail(j), NEW pc \in {"idle", "take"},
           consumer' = [pc |-> pc, seen |-> j,
                        knows |-> Learn(consumer.knows, tailStores[j]),
                        out |-> consumer.out],
           UNCHANGED <<tailStores, headStores, slots, producer, wrote, took, destroyed>>,
           pc = "take" => took < j - 1
    PROVE  Safe'
<1>1. /\ j \in consumer.seen..Len(tailStores) /\ consumer.seen \in 1..Len(tailStores)
      /\ consumer.knows = consumer.seen - 1 /\ Len(tailStores) \in Nat
      /\ consumer.pc = "idle" /\ ~destroyed /\ consumer.seen \in Nat
      /\ consumer.out \in 0..Items
  BY DEF LoadTail, Safe, Coordinated, TypeOK
<1>2. /\ j \in 1..Len(tailStores) /\ j \in Nat /\ j - 1 \in Nat
      /\ consumer.knows <= j - 1 /\ tailStores[j].view = j - 1
  <2>1. j \in 1..Len(tailStores) /\ j \in Nat /\ j - 1 \in Nat /\ consumer.knows <= j - 1
    BY <1>1
  <2> QED
    BY <2>1, Indices
<1>3. Learn(consumer.knows, tailStores[j]) = j - 1
  BY <1>1, <1>2 DEF Learn
<1>4. /\ consumer'.pc = pc /\ consumer'.seen = j /\ consumer'.knows = j - 1
      /\ consumer' \in [pc : {"idle", "take", "retire"}, seen : Nat, knows : Nat,
                        out : 0..Items]
  BY <1>1, <1>2, <1>3
<1>5. TypeOK'
  BY <1>4 DEF Safe, TypeOK
<1>6. Coordinated'
  <2>1. CountsUp(tailStores)' /\ CountsUp(headStores)'
    BY DEF Safe, Coordinated, CountsUp
  <2>2. took' = Retired' + (IF consumer'.pc = "retire" THEN 1 ELSE 0)
    BY <1>1, <1>4 DEF Safe, Coordinated, Retired
  <2>3. /\ wrote' = Published' + (IF producer'.pc = "publish" THEN 1 ELSE 0)
        /\ producer'.seen \in 1..Len(headStores') /\ producer'.knows = producer'.seen - 1
        /\ wrote' <= producer'.knows + Capacity
        /\ producer'.pc = "construct" =>
               wrote' < producer'.knows + Capacity /\ wrote' < Items
    BY DEF Safe, Coordinated, Published
  <2>4. took' <= consumer'.knows
    BY <1>2, <1>4, Order, SMTT(30)
  <2> QED
    BY <1>1, <1>2, <1>4, <2>1, <2>2, <2>3, <2>4 DEF Coordinated
<1>7. Contents'
  BY DEF Safe, Contents
<1> QED
  BY <1>5, <1>6, <1>7 DEF Safe

(* pop(), up to the decision: an index that differs from the consumer's    *)
(* own is ahead of it, even if it is the smaller number.                   *)
LEMMA PopLoadKeeps ==
    ASSUME Safe, NEW j, PopEmpty(j) \/ PopFound(j)
    PROVE  Safe'
<1>1. /\ LoadTail(j)
      /\ UNCHANGED <<tailStores, headStores, slots, producer, wrote, took, destroyed>>
  BY DEF PopEmpty, PopFound
<1>2. CASE PopEmpty(j)
  <2>1. consumer' = [pc |-> "idle", seen |-> j,
                     knows |-> Learn(consumer.knows, tailStores[j]),
                     out |-> consumer.out]
    BY <1>2 DEF PopEmpty, LoadTail, Safe, TypeOK
  <2> QED
    BY <1>1, <2>1, TailLoaded
<1>3. CASE PopFound(j)
  <2>1. consumer' = [pc |-> "take", seen |-> j,
                     knows |-> Learn(consumer.knows, tailStores[j]),
                     out |-> consumer.out]
    BY <1>3 DEF PopFound, LoadTail, Safe, TypeOK
  <2>2. /\ j \in 1..Len(tailStores) /\ consumer.knows <= j - 1 /\ j \in Nat
        /\ took = Retired
    BY <1>1, Order, SMTT(30) DEF LoadTail, Safe, Coordinated, TypeOK
  <2>3. Hd # tailStores[j].value /\ tailStores[j].value = Index(j - 1) /\ Hd = Index(took)
    BY <1>3, <2>2, Indices DEF PopFound, IsEmpty
  <2>4. took < j - 1
    BY <2>2, <2>3, Order
  <2> QED
    BY <1>1, <2>1, <2>4, TailLoaded
<1> QED
  BY <1>2, <1>3

(* push() constructs in its slot: the item last written and the one about  *)
(* to be written never share a slot with an item still inside.             *)
LEMMA ConstructKeeps ==
    ASSUME Safe, Construct
    PROVE  Safe'
<1> DEFINE i == SlotOf(Tl)
           e == [slots[i] EXCEPT !.item = wrote + 1, !.constructed = wrote + 1]
<1>1. /\ producer.pc = "construct" /\ ~destroyed /\ wrote = Published
      /\ wrote < producer.knows + Capacity /\ wrote < Items
  BY Order DEF Construct, Safe, Coordinated
<1>2. i \in Slot /\ i = Place(wrote + 1)
  BY <1>1, OwnSlots
<1>3. /\ wrote' = wrote + 1 /\ slots' = [slots EXCEPT ![i] = e]
      /\ producer' = [producer EXCEPT !.pc = "publish"]
      /\ UNCHANGED <<tailStores, headStores, consumer, took, destroyed>>
  BY DEF Construct
<1> HIDE DEF i
<1>4. /\ e \in [item : (1..Items) \cup {Raw}, constructed : Nat, destroyed : Nat]
      /\ e.item = wrote + 1 /\ e.constructed = wrote + 1
      /\ e.destroyed = slots[i].destroyed /\ wrote + 1 \in 1..Items
  <2>1. slots[i] \in [item : (1..Items) \cup {Raw}, constructed : Nat, destroyed : Nat]
    BY <1>2 DEF Safe, TypeOK
  <2>2. wrote + 1 \in 1..Items /\ wrote + 1 \in Nat
    BY <1>1, Order, RingConstants
  <2> QED
    BY <2>1, <2>2
<1> HIDE DEF e
<1>5. /\ slots' \in [Slot -> [item : (1..Items) \cup {Raw}, constructed : Nat,
                              destroyed : Nat]]
      /\ slots'[i] = e
      /\ \A s \in Slot : s # i => slots'[s] = slots[s]
  BY <1>2, <1>3, <1>4 DEF Safe, TypeOK
<1>6. /\ producer' \in [pc : {"idle", "construct", "publish"}, seen : Nat, knows : Nat]
      /\ producer'.pc = "publish" /\ producer'.seen = producer.seen
      /\ producer'.knows = producer.knows
  BY <1>3 DEF Safe, TypeOK
<1>7. TypeOK'
  BY <1>1, <1>3, <1>4, <1>5, <1>6, RingConstants DEF Safe, TypeOK
<1>8. Coordinated'
  <2>1. CountsUp(tailStores)' /\ CountsUp(headStores)'
    BY <1>3 DEF Safe, Coordinated, CountsUp
  <2>2. Published' = Published /\ Retired' = Retired
    BY <1>3 DEF Published, Retired
  <2>3. wrote' <= producer'.knows + Capacity
    BY <1>1, <1>3, <1>6, Order, Room, SMTT(30)
  <2> QED
    BY <1>1, <1>3, <1>6, <2>1, <2>2, <2>3 DEF Safe, Coordinated
<1>9. ASSUME NEW n \in (took + 1)..wrote PROVE Place(n) \in Slot /\ Place(n) # i
  <2>1. n \in Int /\ n - 1 \in Int
    BY Order
  <2>2. Place(n) \in Slot
    BY <2>1, SlotOfIndex DEF Place
  <2>3. ASSUME Place(n) = i PROVE FALSE
    <3>1. n + Capacity <= wrote + 1
      BY <1>2, <2>1, <2>3, Order, SharedSlot
    <3> QED
      BY <1>1, <3>1, Order, Room, SMTT(30)
  <2> QED
    BY <2>2, <2>3
<1>10. Contents'
  <2>1. ASSUME NEW n \in (took' + 1)..wrote'
        PROVE  slots'[Place(n)].constructed = n /\ slots'[Place(n)].item = n
    <3>1. CASE n = wrote + 1
      BY <1>2, <1>4, <1>5, <3>1
    <3>2. CASE n # wrote + 1
      <4>1. n \in (took + 1)..wrote
        BY <1>3, <3>2, Order
      <4>2. slots'[Place(n)] = slots[Place(n)]
        BY <1>5, <1>9, <4>1
      <4> QED
        BY <1>1, <4>1, <4>2 DEF Safe, Contents
    <3> QED
      BY <3>1, <3>2
  <2>2. ASSUME NEW s \in Slot, slots'[s].item # Raw
        PROVE  slots'[s].item \in (took' + 1)..wrote' /\ Place(slots'[s].item) = s
    <3>1. CASE s = i
      BY <1>2, <1>3, <1>4, <1>5, <3>1, Order, SMTT(30)
    <3>2. CASE s # i
      <4>1. slots[s].item \in (took + 1)..wrote /\ Place(slots[s].item) = s
        BY <1>1, <1>5, <2>2, <3>2 DEF Safe, Contents
      <4> QED
        BY <1>3, <1>5, <3>2, <4>1, Order, SMTT(30)
    <3> QED
      BY <3>1, <3>2
  <2>3. \A s \in Slot : slots'[s].destroyed = slots[s].destroyed
    BY <1>4, <1>5
  <2> QED
    BY <1>1, <1>3, <2>1, <2>2, <2>3 DEF Safe, Contents
<1> QED
  BY <1>7, <1>8, <1>10 DEF Safe

(* push() publishes the index after the slot.                              *)
LEMMA PublishKeeps ==
    ASSUME Safe, Publish
    PROVE  Safe'
<1>1. /\ producer.pc = "publish" /\ ~destroyed /\ wrote = Published + 1
      /\ wrote = Len(tailStores)
  BY Order DEF Publish, Safe, Coordinated
<1>2. /\ tailStores' \in Seq(Store) /\ Len(tailStores') = Len(tailStores) + 1
      /\ CountsUp(tailStores')
  <2>1. /\ tailStores \in Seq(Store) /\ tailStores # <<>> /\ CountsUp(tailStores)
        /\ wrote \in Nat
    BY Order DEF Safe, TypeOK, Coordinated
  <2>2. tailStores' = Append(tailStores,
                             [value |-> (Latest(tailStores).value + 1) % Modulus,
                              view  |-> wrote])
    BY DEF Publish, ReleaseView, Tl
  <2> QED
    BY <1>1, <2>1, <2>2, StoreNext
<1>3. UNCHANGED <<headStores, slots, consumer, wrote, took, destroyed>>
  BY DEF Publish
<1>4. /\ producer' \in [pc : {"idle", "construct", "publish"}, seen : Nat, knows : Nat]
      /\ producer'.pc = "idle" /\ producer'.seen = producer.seen
      /\ producer'.knows = producer.knows
  BY DEF Publish, Safe, TypeOK
<1>5. TypeOK'
  <2>1. tailStores' # <<>>
    BY <1>1, <1>2, Order
  <2> QED
    BY <1>2, <1>3, <1>4, <2>1 DEF Safe, TypeOK
<1>6. Coordinated'
  <2>1. CountsUp(headStores)'
    BY <1>3 DEF Safe, Coordinated, CountsUp
  <2>2. Published' = Published + 1 /\ Retired' = Retired
    BY <1>2, <1>3, Order DEF Published, Retired
  <2>3. consumer'.seen \in 1..Len(tailStores')
    BY <1>2, <1>3, Order DEF Safe, Coordinated
  <2>4. wrote' = Published' + (IF producer'.pc = "publish" THEN 1 ELSE 0)
    BY <1>1, <1>3, <1>4, <2>2, Order
  <2> QED
    BY <1>1, <1>2, <1>3, <1>4, <2>1, <2>2, <2>3, <2>4 DEF Safe, Coordinated
<1>7. Contents'
  BY <1>3 DEF Safe, Contents
<1> QED
  BY <1>5, <1>6, <1>7 DEF Safe

(* pop() takes from its slot: no other item inside shares the slot.        *)
LEMMA TakeKeeps ==
    ASSUME Safe, Take
    PROVE  Safe' /\ consumer'.out = took + 1 /\ took' = took + 1
<1> DEFINE i == SlotOf(Hd)
           e == [slots[i] EXCEPT !.item = Raw, !.destroyed = took + 1]
<1>1. /\ consumer.pc = "take" /\ ~destroyed /\ took = Retired /\ took < consumer.knows
  BY Order DEF Take, Safe, Coordinated
<1>2. i \in Slot /\ i = Place(took + 1)
  BY <1>1, OwnSlots
<1>3. /\ took' = took + 1 /\ slots' = [slots EXCEPT ![i] = e]
      /\ consumer' = [consumer EXCEPT !.pc = "retire", !.out = slots[i].item]
      /\ UNCHANGED <<tailStores, headStores, producer, wrote, destroyed>>
  BY DEF Take
<1> HIDE DEF i
<1>4. took + 1 \in (took + 1)..wrote /\ took + 1 \in 1..Items /\ took + 1 # Raw
  <2>1. took \in Nat /\ wrote \in Nat /\ took < wrote
    BY <1>1, Order
  <2>2. wrote <= Items /\ Items \in Nat
    BY RingConstants DEF Safe, TypeOK
  <2>3. took + 1 \in (took + 1)..wrote /\ took + 1 \in 1..Items
    BY <2>1, <2>2
  <2> QED
    BY <2>3, RingConstants
<1>5. slots[i].item = took + 1
  BY <1>1, <1>2, <1>4 DEF Safe, Contents
<1>6. /\ e \in [item : (1..Items) \cup {Raw}, constructed : Nat, destroyed : Nat]
      /\ e.item = Raw /\ e.destroyed = took + 1 /\ e.constructed = slots[i].constructed
  <2>1. slots[i] \in [item : (1..Items) \cup {Raw}, constructed : Nat, destroyed : Nat]
    BY <1>2 DEF Safe, TypeOK
  <2>2. took + 1 \in Nat
    BY Order
  <2> QED
    BY <2>1, <2>2
<1> HIDE DEF e
<1>7. /\ slots' \in [Slot -> [item : (1..Items) \cup {Raw}, constructed : Nat,
                              destroyed : Nat]]
      /\ slots'[i] = e
      /\ \A s \in Slot : s # i => slots'[s] = slots[s]
  BY <1>2, <1>3, <1>6 DEF Safe, TypeOK
<1>8. /\ consumer' \in [pc : {"idle", "take", "retire"}, seen : Nat, knows : Nat,
                        out : 0..Items]
      /\ consumer'.pc = "retire" /\ consumer'.seen = consumer.seen
      /\ consumer'.knows = consumer.knows /\ consumer'.out = took + 1
  <2>1. consumer \in [pc : {"idle", "take", "retire"}, seen : Nat, knows : Nat,
                      out : 0..Items]
    BY DEF Safe, TypeOK
  <2>2. took + 1 \in 0..Items
    BY <1>4
  <2> QED
    BY <1>3, <1>5, <2>1, <2>2
<1>9. TypeOK'
  BY <1>3, <1>4, <1>7, <1>8, RingConstants DEF Safe, TypeOK
<1>10. Coordinated'
  <2>1. CountsUp(tailStores)' /\ CountsUp(headStores)'
    BY <1>3 DEF Safe, Coordinated, CountsUp
  <2>2. Published' = Published /\ Retired' = Retired
    BY <1>3 DEF Published, Retired
  <2>3. took' <= consumer'.knows /\ took' = Retired' + 1
    BY <1>1, <1>3, <1>8, <2>2, Order
  <2> QED
    BY <1>1, <1>3, <1>8, <2>1, <2>2, <2>3 DEF Safe, Coordinated
<1>11. Contents'
  <2>1. ASSUME NEW n \in (took' + 1)..wrote'
        PROVE  slots'[Place(n)].constructed = n /\ slots'[Place(n)].item = n
    <3>1. n \in (took + 1)..wrote /\ n > took + 1 /\ n \in Int /\ n - 1 \in Int
      BY <1>3, Order, SMTT(30)
    <3>2. Place(n) \in Slot
      BY <3>1, SlotOfIndex DEF Place
    <3>3. ASSUME Place(n) = i PROVE FALSE
      <4>1. took + 1 + Capacity <= n
        BY <1>2, <3>1, <3>3, Order, SharedSlot
      <4> QED
        BY <3>1, <4>1, Order, Room, SMTT(30)
    <3>4. slots'[Place(n)] = slots[Place(n)]
      BY <1>7, <3>2, <3>3
    <3> QED
      BY <1>1, <3>1, <3>4 DEF Safe, Contents
  <2>2. ASSUME NEW s \in Slot, slots'[s].item # Raw
        PROVE  slots'[s].item \in (took' + 1)..wrote' /\ Place(slots'[s].item) = s
    <3>1. s # i
      BY <1>6, <1>7, <2>2
    <3>2. slots[s].item \in (took + 1)..wrote /\ Place(slots[s].item) = s
      BY <1>1, <1>7, <2>2, <3>1 DEF Safe, Contents
    <3>3. slots[s].item # took + 1
      BY <1>2, <3>1, <3>2
    <3> QED
      BY <1>3, <1>7, <3>1, <3>2, <3>3, Order, SMTT(30)
  <2>3. ASSUME NEW s \in Slot, slots'[s].destroyed # 0
        PROVE  slots'[s].destroyed \in 1..took' /\ Place(slots'[s].destroyed) = s
    <3>1. CASE s = i
      BY <1>2, <1>3, <1>6, <1>7, <3>1, Order
    <3>2. CASE s # i
      <4>1. slots[s].destroyed \in 1..took /\ Place(slots[s].destroyed) = s
        BY <1>7, <2>3, <3>2 DEF Safe, Contents
      <4> QED
        BY <1>3, <1>7, <3>2, <4>1, Order, SMTT(30)
    <3> QED
      BY <3>1, <3>2
  <2> QED
    BY <1>1, <1>3, <2>1, <2>2, <2>3 DEF Contents
<1> QED
  BY <1>3, <1>8, <1>9, <1>10, <1>11 DEF Safe

(* pop() releases the slot after it has destroyed the object.              *)
LEMMA RetireKeeps ==
    ASSUME Safe, Retire
    PROVE  Safe'
<1>1. /\ consumer.pc = "retire" /\ ~destroyed /\ took = Retired + 1
      /\ took = Len(headStores)
  BY Order DEF Retire, Safe, Coordinated
<1>2. /\ headStores' \in Seq(Store) /\ Len(headStores') = Len(headStores) + 1
      /\ CountsUp(headStores')
  <2>1. /\ headStores \in Seq(Store) /\ headStores # <<>> /\ CountsUp(headStores)
        /\ took \in Nat
    BY Order DEF Safe, TypeOK, Coordinated
  <2>2. headStores' = Append(headStores,
                             [value |-> (Latest(headStores).value + 1) % Modulus,
                              view  |-> took])
    BY DEF Retire, ReleaseView, Hd
  <2> QED
    BY <1>1, <2>1, <2>2, StoreNext
<1>3. UNCHANGED <<tailStores, slots, producer, wrote, took, destroyed>>
  BY DEF Retire
<1>4. /\ consumer' \in [pc : {"idle", "take", "retire"}, seen : Nat, knows : Nat,
                        out : 0..Items]
      /\ consumer'.pc = "idle" /\ consumer'.seen = consumer.seen
      /\ consumer'.knows = consumer.knows /\ consumer'.out = consumer.out
  BY DEF Retire, Safe, TypeOK
<1>5. TypeOK'
  <2>1. headStores' # <<>>
    BY <1>1, <1>2, Order
  <2> QED
    BY <1>2, <1>3, <1>4, <2>1 DEF Safe, TypeOK
<1>6. Coordinated'
  <2>1. CountsUp(tailStores)'
    BY <1>3 DEF Safe, Coordinated, CountsUp
  <2>2. Retired' = Retired + 1 /\ Published' = Published
    BY <1>2, <1>3, Order DEF Published, Retired
  <2>3. producer'.seen \in 1..Len(headStores')
    BY <1>2, <1>3, Order, SMTT(30) DEF Safe, Coordinated
  <2>4. took' = Retired' + (IF consumer'.pc = "retire" THEN 1 ELSE 0)
    BY <1>1, <1>3, <1>4, <2>2, Order
  <2> QED
    BY <1>1, <1>2, <1>3, <1>4, <2>1, <2>2, <2>3, <2>4 DEF Safe, Coordinated
<1>7. Contents'
  BY <1>3 DEF Safe, Contents
<1> QED
  BY <1>5, <1>6, <1>7 DEF Safe

(* The destructor finds every object still inside, from head_ to tail_.    *)
LEMMA DestroyKeeps ==
    ASSUME Safe, Destroy
    PROVE  Safe'
<1>1. /\ producer.pc = "idle" /\ consumer.pc = "idle" /\ ~destroyed
      /\ wrote = Published /\ took = Retired
  BY Order DEF Destroy, Safe, Coordinated
<1>2. /\ destroyed' = TRUE
      /\ slots' = [i \in Slot |->
                      IF i \in InFlightSlots THEN [slots[i] EXCEPT !.item = Raw] ELSE slots[i]]
      /\ UNCHANGED <<tailStores, headStores, producer, consumer, wrote, took>>
  BY DEF Destroy
<1>3. ASSUME NEW i \in Slot, slots[i].item # Raw PROVE i \in InFlightSlots
  <2>1. slots[i].item \in (took + 1)..wrote /\ Place(slots[i].item) = i
    BY <1>1, <1>3 DEF Safe, Contents
  <2> DEFINE k == slots[i].item - 1 - took
  <2>2. k \in 0..(wrote - took - 1) /\ took + k = slots[i].item - 1
    BY <2>1, Order, SMTT(30)
  <2>3. Distance(Tl, Hd) = wrote - took
    <3>1. wrote \in Int /\ took \in Int /\ wrote - took \in 0..(Modulus - 1)
      <4>1. /\ wrote \in Int /\ took \in Int /\ took <= wrote /\ wrote <= took + Capacity
        BY Order, Room, SMTT(30)
      <4> QED
        BY <4>1, Room
    <3>2. Distance(Index(wrote), Index(took)) = wrote - took
      BY <3>1, DistanceOfIndices
    <3> QED
      BY <1>1, <3>2, Indices
  <2>4. SlotOf((Hd + k) % Modulus) = i
    <3>1. took \in Int /\ k \in Int /\ took + k \in Int
      BY <2>2, Order, SMTT(30)
    <3> HIDE DEF k
    <3>2. (Index(took) + k) % Modulus = Index(took + k)
      BY <3>1, AdvanceIndex
    <3>3. SlotOf(Index(took + k)) = (took + k) % Capacity
      BY <3>1, SlotOfIndex
    <3> QED
      BY <1>1, <2>1, <2>2, <3>2, <3>3, Indices DEF Place
  <2> HIDE DEF k
  <2> QED
    BY <2>2, <2>3, <2>4 DEF InFlightSlots
<1>4. \A i \in Slot : /\ slots'[i] \in [item : (1..Items) \cup {Raw}, constructed : Nat,
                                        destroyed : Nat]
                      /\ slots'[i].item = Raw
                      /\ slots'[i].constructed = slots[i].constructed
                      /\ slots'[i].destroyed = slots[i].destroyed
  <2> SUFFICES ASSUME NEW i \in Slot
               PROVE  /\ slots'[i] \in [item : (1..Items) \cup {Raw}, constructed : Nat,
                                        destroyed : Nat]
                      /\ slots'[i].item = Raw
                      /\ slots'[i].constructed = slots[i].constructed
                      /\ slots'[i].destroyed = slots[i].destroyed
    OBVIOUS
  <2>1. slots[i] \in [item : (1..Items) \cup {Raw}, constructed : Nat, destroyed : Nat]
    BY DEF Safe, TypeOK
  <2>2. slots'[i] = IF i \in InFlightSlots THEN [slots[i] EXCEPT !.item = Raw] ELSE slots[i]
    BY <1>2
  <2>3. CASE i \in InFlightSlots
    BY <2>1, <2>2, <2>3
  <2>4. CASE i \notin InFlightSlots
    BY <1>3, <2>1, <2>2, <2>4
  <2> QED
    BY <2>3, <2>4
<1>5. TypeOK'
  <2>1. slots' \in [Slot -> [item : (1..Items) \cup {Raw}, constructed : Nat,
                             destroyed : Nat]]
    BY <1>2, <1>4
  <2> QED
    BY <1>2, <2>1 DEF Safe, TypeOK
<1>6. Coordinated'
  <2>1. CountsUp(tailStores)' /\ CountsUp(headStores)'
    BY <1>2 DEF Safe, Coordinated, CountsUp
  <2>2. Published' = Published /\ Retired' = Retired
    BY <1>2 DEF Published, Retired
  <2> QED
    BY <1>1, <1>2, <2>1, <2>2 DEF Safe, Coordinated
<1>7. Contents'
  <2>1. ASSUME NEW n \in (took' + 1)..wrote' PROVE slots'[Place(n)].constructed = n
    <3>1. n \in (took + 1)..wrote /\ n - 1 \in Int
      BY <1>2, Order
    <3>2. Place(n) \in Slot
      BY <3>1, SlotOfIndex DEF Place
    <3> QED
      BY <1>4, <3>1, <3>2 DEF Safe, Contents
  <2>2. ASSUME NEW s \in Slot, slots'[s].destroyed # 0
        PROVE  slots'[s].destroyed \in 1..took' /\ Place(slots'[s].destroyed) = s
    BY <1>2, <1>4, <2>2 DEF Safe, Contents
  <2> QED
    BY <1>2, <1>4, <2>1, <2>2 DEF Contents
<1> QED
  BY <1>5, <1>6, <1>7 DEF Safe

-----------------------------------------------------------------------------
(* The theorems. *)

(* Safe is inductive.                                                      *)
THEOREM RingIsSafe == Spec => []Safe
<1>1. Init => Safe
  <2> SUFFICES ASSUME Init PROVE Safe
    OBVIOUS
  <2> DEFINE zero == [value |-> 0, view |-> 0]
  <2>1. zero \in Store /\ Index(0) = 0
    <3>1. 0 % Modulus = 0 /\ 0 \in 0..(Modulus - 1)
      BY Room
    <3> QED
      BY <3>1 DEF Store, Index
  <2>2. /\ <<zero>> \in Seq(Store) /\ Len(<<zero>>) = 1 /\ <<zero>>[1] = zero
        /\ <<zero>> # <<>>
    BY <2>1
  <2>3. TypeOK
    <3>1. tailStores = <<zero>> /\ headStores = <<zero>>
      BY DEF Init
    <3>2. slots \in [Slot -> [item : (1..Items) \cup {Raw}, constructed : Nat,
                              destroyed : Nat]]
      BY DEF Init
    <3>3. 0 \in 0..Items
      BY RingConstants
    <3>4. /\ wrote = 0 /\ took = 0 /\ destroyed \in BOOLEAN
          /\ producer \in [pc : {"idle", "construct", "publish"}, seen : Nat, knows : Nat]
          /\ consumer \in [pc : {"idle", "take", "retire"}, seen : Nat, knows : Nat,
                           out : 0..Items]
      BY <3>3 DEF Init
    <3> QED
      BY <2>2, <3>1, <3>2, <3>3, <3>4 DEF TypeOK
  <2>4. CountsUp(<<zero>>)
    <3> SUFFICES ASSUME NEW j \in 1..1
                 PROVE  <<zero>>[j].value = Index(j - 1) /\ <<zero>>[j].view = j - 1
      BY <2>2 DEF CountsUp
    <3>1. j = 1
      OBVIOUS
    <3> QED
      BY <2>1, <3>1
  <2>5. Coordinated
    BY <2>2, <2>4, Room DEF Init, Coordinated, Published, Retired
  <2>6. Contents
    BY DEF Init, Contents
  <2> QED
    BY <2>3, <2>5, <2>6 DEF Safe
<1>2. Safe /\ [Next]_vars => Safe'
  <2> SUFFICES ASSUME Safe, [Next]_vars PROVE Safe'
    OBVIOUS
  <2>1. CASE UNCHANGED vars
    BY <2>1 DEF vars, Safe, TypeOK, Coordinated, CountsUp, Contents, Published, Retired
  <2>2. CASE Producer
    BY <2>2, PushLoadKeeps, ConstructKeeps, PublishKeeps DEF Producer
  <2>3. CASE Consumer
    BY <2>3, PopLoadKeeps, TakeKeeps, RetireKeeps DEF Consumer
  <2>4. CASE Destroy
    BY <2>4, DestroyKeeps
  <2> QED
    BY <2>1, <2>2, <2>3, <2>4 DEF Next
<1> QED
  BY <1>1, <1>2, PTL DEF Spec

(* The release and acquire pairs are enough, whatever old value a load     *)
(* returns: neither thread touches a slot without having learnt of the     *)
(* other's last access to it.                                              *)
THEOREM RaceFree == Spec => []NoDataRace
<1>1. Safe => NoDataRace
  BY SafeSuffices
<1> QED
  BY <1>1, RingIsSafe, PTL

(* Construction and destruction pair up in every slot, and the destructor  *)
(* destroys what is in flight and nothing else, and leaves nothing behind. *)
THEOREM LifetimesHold == Spec => []LifetimesPair
<1>1. Safe => LifetimesPair
  BY SafeSuffices
<1> QED
  BY <1>1, RingIsSafe, PTL

-----------------------------------------------------------------------------
(* The queue is a FIFO. *)

(* The numbers after a up to b.                                            *)
Span(a, b) == [k \in 1..(b - a) |-> a + k]

QueueIsSpan == Queue = IF destroyed THEN <<>> ELSE Span(took, Published)

(* What the indices and slots hold is the items published and not yet      *)
(* taken, in order.                                                        *)
LEMMA QueueHolds == Safe => QueueIsSpan
<1> SUFFICES ASSUME Safe, ~destroyed PROVE Queue = Span(took, Published)
  BY DEF QueueIsSpan, Queue
<1>1. First = Index(took)
  <2>1. CASE consumer.pc = "retire"
    <3>1. took = Retired + 1 /\ Retired \in Int
      BY <2>1, Order DEF Safe, Coordinated
    <3> QED
      BY <2>1, <3>1, Indices, AdvanceIndex DEF First
  <2>2. CASE consumer.pc # "retire"
    BY <2>2, Order, Indices DEF First, Safe, Coordinated
  <2> QED
    BY <2>1, <2>2
<1>2. Distance(Tl, First) = Published - took
  <2>1. Published \in Int /\ took \in Int /\ Published - took \in 0..(Modulus - 1)
    BY Order, Room, SMTT(30)
  <2>2. Distance(Index(Published), Index(took)) = Published - took
    BY <2>1, DistanceOfIndices
  <2> QED
    BY <1>1, <2>2, Indices
<1>3. ASSUME NEW k \in 1..(Published - took)
      PROVE  slots[SlotOf((First + k - 1) % Modulus)].item = took + k
  <2>1. /\ took \in Int /\ k - 1 \in Int /\ took + (k - 1) \in Int
        /\ took + k - 1 = took + (k - 1) /\ took + k \in (took + 1)..wrote
    BY Order, SMTT(30)
  <2>2. Index(took) \in Int
    BY <2>1, Room, Quotient DEF Index
  <2>3. First + k - 1 = Index(took) + (k - 1)
    BY <1>1, <2>2
  <2>4. (Index(took) + (k - 1)) % Modulus = Index(took + (k - 1))
    BY <2>1, AdvanceIndex
  <2>5. SlotOf(Index(took + (k - 1))) = Place(took + k)
    BY <2>1, SlotOfIndex DEF Place
  <2> QED
    BY <2>1, <2>3, <2>4, <2>5 DEF Safe, Contents
<1> QED
  BY <1>2, <1>3 DEF Queue, Span

(* A span grows at one end and shrinks at the other.                       *)
LEMMA SpanGrows ==
    ASSUME NEW a \in Nat, NEW b \in Nat, a <= b
    PROVE  /\ Span(a, b) \in Seq(Nat) /\ Len(Span(a, b)) = b - a
           /\ Span(a, b + 1) = Append(Span(a, b), b + 1)
<1> DEFINE s == Span(a, b)
           t == Span(a, b + 1)
           u == Append(s, b + 1)
<1>1. /\ s \in Seq(Nat) /\ Len(s) = b - a /\ b - a \in Nat
      /\ \A k \in 1..(b - a) : s[k] = a + k
  BY DEF Span
<1>2. /\ t \in Seq(Nat) /\ Len(t) = b - a + 1
      /\ \A k \in 1..(b - a + 1) : t[k] = a + k
  BY DEF Span
<1> HIDE DEF s, t
<1>3. /\ u \in Seq(Nat) /\ Len(u) = b - a + 1
      /\ \A k \in 1..(b - a) : u[k] = s[k]
      /\ u[b - a + 1] = b + 1
  BY <1>1
<1> HIDE DEF u
<1>4. \A k \in 1..(b - a + 1) : u[k] = a + k
  <2> SUFFICES ASSUME NEW k \in 1..(b - a + 1) PROVE u[k] = a + k
    OBVIOUS
  <2>1. CASE k = b - a + 1
    BY <1>1, <1>3, <2>1
  <2>2. CASE k # b - a + 1
    <3>1. k \in 1..(b - a)
      BY <1>1, <2>2
    <3> QED
      BY <1>1, <1>3, <3>1
  <2> QED
    BY <2>1, <2>2
<1>5. t = u
  BY <1>2, <1>3, <1>4, SeqEqual, SMTT(30)
<1> QED
  BY <1>1, <1>5 DEF s, t, u

LEMMA SpanShrinks ==
    ASSUME NEW a \in Nat, NEW b \in Nat, a < b
    PROVE  /\ Span(a, b) # <<>> /\ Head(Span(a, b)) = a + 1
           /\ Span(a + 1, b) = Tail(Span(a, b))
<1> DEFINE s == Span(a, b)
           t == Span(a + 1, b)
           u == Tail(s)
<1>1. /\ s \in Seq(Nat) /\ Len(s) = b - a /\ b - a \in Nat \ {0}
      /\ \A k \in 1..(b - a) : s[k] = a + k
  BY DEF Span
<1>2. /\ t \in Seq(Nat) /\ Len(t) = b - a - 1
      /\ \A k \in 1..(b - a - 1) : t[k] = a + 1 + k
  BY DEF Span
<1> HIDE DEF s, t
<1>3. /\ s # <<>> /\ Head(s) = s[1] /\ 1 \in 1..(b - a)
      /\ u \in Seq(Nat) /\ Len(u) = b - a - 1
      /\ \A k \in 1..(b - a - 1) : u[k] = s[k + 1]
  BY <1>1
<1> HIDE DEF u
<1>4. \A k \in 1..(b - a - 1) : u[k] = a + 1 + k
  <2> SUFFICES ASSUME NEW k \in 1..(b - a - 1) PROVE u[k] = a + 1 + k
    OBVIOUS
  <2>1. k + 1 \in 1..(b - a) /\ a + (k + 1) = a + 1 + k
    BY <1>1
  <2> QED
    BY <1>1, <1>3, <2>1
<1>5. t = u
  BY <1>2, <1>3, <1>4, SeqEqual
<1> QED
  BY <1>1, <1>3, <1>5 DEF s, t, u

(* Every step of the two threads is a Put, a Get, a Close or a stutter of  *)
(* the FIFO: an item enters by the store to tail_, and leaves when it is   *)
(* moved out, before the store to head_.                                   *)
LEMMA StepIsFifoStep ==
    ASSUME Safe, Safe', QueueIsSpan, QueueIsSpan', [Next]_vars
    PROVE  [Fifo!Put \/ Fifo!Get \/ Fifo!Close]_(Fifo!vars)
<1> USE DEF QueueIsSpan
<1>1. /\ Published \in Nat /\ took \in Nat /\ took <= Published
  BY Order
<1>2. ASSUME UNCHANGED <<tailStores, took, destroyed>>, consumer'.out = consumer.out
      PROVE  UNCHANGED Fifo!vars
  BY <1>2 DEF Fifo!vars, Published
<1>3. CASE UNCHANGED vars
  BY <1>2, <1>3 DEF vars
<1>4. CASE \E j \in 1..Len(headStores) : PushFull(j) \/ PushRoom(j)
  BY <1>2, <1>4 DEF PushFull, PushRoom
<1>5. CASE Construct
  BY <1>2, <1>5 DEF Construct
<1>6. CASE Publish
  <2>1. /\ producer.pc = "publish" /\ ~destroyed /\ ~destroyed' /\ took' = took
        /\ consumer' = consumer /\ wrote = Published + 1
    BY <1>6, Order DEF Publish, Safe, Coordinated
  <2>2. Len(tailStores') = Len(tailStores) + 1 /\ Published' = Published + 1
    BY <1>6, Order DEF Publish, Published, Safe, TypeOK
  <2>3. Queue = Span(took, Published) /\ Queue' = Span(took, Published + 1)
    BY <2>1, <2>2
  <2>4. Queue' = Append(Queue, Published + 1) /\ Len(Queue) = Published - took
    BY <1>1, <2>3, SpanGrows
  <2>5. Published - took < Capacity
    BY <2>1, Order, Room
  <2> QED
    BY <2>1, <2>2, <2>4, <2>5 DEF Fifo!Put, Published
<1>7. CASE \E j \in 1..Len(tailStores) : PopEmpty(j) \/ PopFound(j)
  <2>1. /\ consumer'.out = consumer.out
        /\ UNCHANGED <<tailStores, took, destroyed>>
    BY <1>7 DEF PopEmpty, PopFound, Safe, TypeOK
  <2> QED
    BY <1>2, <2>1
<1>8. CASE Take
  <2>1. /\ ~destroyed /\ ~destroyed' /\ tailStores' = tailStores /\ took < Published
    BY <1>8, Order DEF Take, Safe, Coordinated
  <2>2. took' = took + 1 /\ consumer'.out = took + 1
    BY <1>8, TakeKeeps
  <2>3. Queue = Span(took, Published) /\ Queue' = Span(took + 1, Published)
    BY <2>1, <2>2 DEF Published
  <2>4. Queue # <<>> /\ Head(Queue) = took + 1 /\ Queue' = Tail(Queue)
    BY <1>1, <2>1, <2>3, SpanShrinks
  <2> QED
    BY <2>1, <2>2, <2>4 DEF Fifo!Get
<1>9. CASE Retire
  <2>1. consumer'.out = consumer.out
    BY <1>9 DEF Retire, Safe, TypeOK
  <2> QED
    BY <1>2, <1>9, <2>1 DEF Retire
<1>10. CASE Destroy
  <2>1. ~destroyed /\ destroyed' /\ tailStores' = tailStores /\ consumer' = consumer
    BY <1>10 DEF Destroy
  <2> QED
    BY <2>1 DEF Fifo!Close
<1> QED
  BY <1>3, <1>4, <1>5, <1>6, <1>7, <1>8, <1>9, <1>10 DEF Next, Producer, Consumer

(* The lock-free queue implements the bounded FIFO the engine is built on: *)
(* every item once, in order, at most Capacity inside, for indices of any  *)
(* width and however often they wrap.                                      *)
THEOREM RingImplementsFifo == Spec => ImplementsFifo
<1>1. Init => Fifo!Init
  <2> SUFFICES ASSUME Init PROVE Fifo!Init
    OBVIOUS
  <2>1. /\ Len(tailStores) = 1 /\ Tl = 0 /\ First = 0 /\ ~destroyed /\ consumer.out = 0
    BY DEF Init, Tl, Hd, First, Latest
  <2>2. Distance(0, 0) = 0
    BY Room DEF Distance
  <2>3. Queue = <<>>
    BY <2>1, <2>2 DEF Queue
  <2> QED
    BY <2>1, <2>3 DEF Fifo!Init
<1>2. Safe /\ Safe' /\ QueueIsSpan /\ QueueIsSpan' /\ [Next]_vars
          => [Fifo!Put \/ Fifo!Get \/ Fifo!Close]_(Fifo!vars)
  BY StepIsFifoStep
<1> QED
  BY <1>1, <1>2, RingIsSafe, QueueHolds, PTL DEF Spec, ImplementsFifo, Fifo!Spec
=============================================================================
