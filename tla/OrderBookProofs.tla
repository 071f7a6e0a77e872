--------------------------- MODULE OrderBookProofs ---------------------------
(***************************************************************************)
(* Theorems about OrderBook for every value of its constants.              *)
(***************************************************************************)
EXTENDS OrderBookProps, WellFoundedInduction, FiniteSetTheorems, SequenceTheorems,
        TLAPS

(* Best() finds a price: a side of the book that has a level has a most    *)
(* aggressive one, which is what begin() of the side's tree returns.       *)
LEMMA BestExists ==
    ASSUME NEW side \in Side, NEW keys \in SUBSET Price, keys # {}
    PROVE  \E p \in keys : \A q \in keys : ~Better(side, q, p)
<1> DEFINE Rank(p) == IF side = "Buy" THEN MaxPrice - p ELSE p - MinPrice
           Ranks   == {Rank(p) : p \in keys}
<1>1. \A p \in keys : p \in Int /\ MinPrice <= p /\ p <= MaxPrice
  BY BookConstants DEF Price
<1>2. \A p \in keys : Rank(p) \in Nat
  BY <1>1, BookConstants
<1>3. Ranks \subseteq Nat /\ Ranks # {}
  BY <1>2
<1> HIDE DEF Rank
<1>4. PICK r \in Ranks : \A s \in Ranks : <<s, r>> \notin OpToRel(<, Nat)
  BY <1>3, NatLessThanWellFounded, WFMin
<1>5. PICK p \in keys : r = Rank(p)
  OBVIOUS
<1>6. ASSUME NEW q \in keys, Better(side, q, p) PROVE FALSE
  <2>1. Rank(q) < Rank(p)
    BY <1>1, <1>6, BookConstants DEF Better, Rank
  <2>2. <<Rank(q), Rank(p)>> \in OpToRel(<, Nat)
    BY <1>2, <2>1 DEF OpToRel
  <2> QED
    BY <1>4, <1>5, <2>2
<1> QED
  BY <1>6

(* Best() of a side that has a level is one of its levels, and no level of *)
(* that side is more aggressive.                                           *)
LEMMA BestIsBest ==
    ASSUME TypeOK, NEW side \in Side, levels[side] # {}
    PROVE  /\ Best(side) \in levels[side]
           /\ \A q \in levels[side] : ~Better(side, q, Best(side))
<1>1. levels[side] \in SUBSET Price
  BY DEF TypeOK
<1>2. \E p \in levels[side] : \A q \in levels[side] : ~Better(side, q, p)
  BY <1>1, BestExists
<1> QED
  BY <1>2 DEF Best

(* PriceLevel::unlink takes exactly one order out of the list and keeps    *)
(* the others in their order.                                              *)
LEMMA UnlinkSplices ==
    ASSUME NEW S, NEW orders \in Seq(S), NEW k \in DOMAIN orders,
           \A i, j \in DOMAIN orders : orders[i] = orders[j] => i = j,
           NEW rest, rest = Unlink(orders, orders[k])
    PROVE  /\ rest \in Seq(S)
           /\ Len(rest) = Len(orders) - 1
           /\ \A i \in 1..(Len(orders) - 1) :
                  rest[i] = IF i < k THEN orders[i] ELSE orders[i + 1]
<1> DEFINE pos == CHOOSE i \in DOMAIN orders : orders[i] = orders[k]
<1>1. pos = k
  OBVIOUS
<1>2. Unlink(orders, orders[k]) = RemoveAt(orders, k)
  BY <1>1 DEF Unlink
<1>3. k \in 1..Len(orders) /\ Len(orders) \in Nat
  OBVIOUS
<1> DEFINE front == SubSeq(orders, 1, k - 1)
           back  == SubSeq(orders, k + 1, Len(orders))
<1>4. /\ front \in Seq(S) /\ Len(front) = k - 1
      /\ \A i \in 1..(k - 1) : front[i] = orders[i]
  BY <1>3
<1>5. /\ back \in Seq(S) /\ Len(back) = Len(orders) - k
      /\ \A i \in 1..(Len(orders) - k) : back[i] = orders[k + i]
  BY <1>3
<1>6. RemoveAt(orders, k) = front \o back
  BY DEF RemoveAt
<1> HIDE DEF front, back
<1>7. /\ front \o back \in Seq(S)
      /\ Len(front \o back) = Len(orders) - 1
  BY <1>3, <1>4, <1>5
<1>8. \A i \in 1..(Len(orders) - 1) :
          (front \o back)[i] = IF i < k THEN orders[i] ELSE orders[i + 1]
  BY <1>3, <1>4, <1>5, SMTT(30)
<1> QED
  BY <1>2, <1>6, <1>7, <1>8

(* What the callers of unlink need: nothing else is lost, nothing appears,  *)
(* and the relative order of what stays is the relative order it had.       *)
LEMMA UnlinkKeepsOrder ==
    ASSUME NEW S, NEW orders \in Seq(S), NEW k \in DOMAIN orders,
           \A i, j \in DOMAIN orders : orders[i] = orders[j] => i = j,
           NEW rest, rest = Unlink(orders, orders[k])
    PROVE  /\ rest \in Seq(S)
           /\ \A i \in DOMAIN rest :
                  \E a \in DOMAIN orders : rest[i] = orders[a] /\ a # k
           /\ \A i, j \in DOMAIN rest : i < j =>
                  \E a, b \in DOMAIN orders :
                      a < b /\ rest[i] = orders[a] /\ rest[j] = orders[b]
           /\ \A a \in DOMAIN orders : a # k =>
                  \E i \in DOMAIN rest : rest[i] = orders[a]
<1> DEFINE n         == Len(orders)
           Origin(i) == IF i < k THEN i ELSE i + 1
<1>1. /\ rest \in Seq(S)
      /\ Len(rest) = n - 1
      /\ \A i \in 1..(n - 1) :
             rest[i] = IF i < k THEN orders[i] ELSE orders[i + 1]
  BY UnlinkSplices
<1>2. /\ k \in 1..n /\ n \in Nat
      /\ DOMAIN rest = 1..(n - 1) /\ DOMAIN orders = 1..n
  BY <1>1
<1> HIDE DEF n
<1>3. \A i \in DOMAIN rest :
          Origin(i) \in DOMAIN orders /\ rest[i] = orders[Origin(i)] /\ Origin(i) # k
  <2> SUFFICES ASSUME NEW i \in 1..(n - 1)
               PROVE  /\ Origin(i) \in 1..n /\ Origin(i) # k
                      /\ rest[i] = orders[Origin(i)]
    BY <1>2
  <2>1. rest[i] = IF i < k THEN orders[i] ELSE orders[i + 1]
    BY <1>1
  <2>2. CASE i < k
    BY <1>2, <2>1, <2>2
  <2>3. CASE ~(i < k)
    BY <1>2, <2>1, <2>3
  <2> QED
    BY <2>2, <2>3
<1>4. \A i, j \in DOMAIN rest : i < j => Origin(i) < Origin(j)
  BY <1>2
<1>5. ASSUME NEW a \in DOMAIN orders, a # k
      PROVE  \E i \in DOMAIN rest : rest[i] = orders[a]
  <2> DEFINE i == IF a < k THEN a ELSE a - 1
  <2>1. i \in 1..(n - 1) /\ Origin(i) = a
    BY <1>2, <1>5
  <2> QED
    BY <1>2, <1>3, <2>1
<1> HIDE DEF Origin
<1> QED
  BY <1>1, <1>3, <1>4, <1>5

-----------------------------------------------------------------------------
(* Taking one resting order off the book. *)

(* A queue lists no order twice. *)
LEMMA QueuesAreInjective ==
    ASSUME BookTypeOK, QueueSound, TimePriority,
           NEW side \in Side, NEW price \in Price,
           NEW i \in DOMAIN queue[side][price], NEW j \in DOMAIN queue[side][price],
           queue[side][price][i] = queue[side][price][j]
    PROVE  i = j
<1> DEFINE q == queue[side][price]
<1>1. q \in Seq(Slots)
  BY DEF BookTypeOK
<1>2. i \in Int /\ j \in Int
  BY <1>1
<1>3. q[i] \in InUse
  BY DEF QueueSound
<1>4. order[q[i]].sequence \in Int
  BY <1>3 DEF BookTypeOK, InUse, Order
<1>5. ~(order[q[i]].sequence < order[q[i]].sequence)
  BY <1>4
<1>6. ~(i < j) /\ ~(j < i)
  BY <1>5 DEF TimePriority
<1> QED
  BY <1>2, <1>6

(* What a queue lists is an order in use, of the queue's side and price.    *)
LEMMA QueueSoundAt ==
    ASSUME QueueSound, NEW s \in Side, NEW p \in Price, NEW k \in DOMAIN queue[s][p]
    PROVE  /\ queue[s][p][k] \in InUse
           /\ order[queue[s][p][k]].side = s
           /\ order[queue[s][p][k]].price = p
           /\ order[queue[s][p][k]].level = [side |-> s, price |-> p]
BY DEF QueueSound

(* An order in use is in the level its back-pointer names, once.           *)
LEMMA InUseIsQueued ==
    ASSUME BookTypeOK, QueueSound, QueueComplete, NEW slot \in InUse
    PROVE  /\ order[slot] \in Order
           /\ order[slot].level = [side |-> order[slot].side, price |-> order[slot].price]
           /\ order[slot].side \in Side /\ order[slot].price \in Price
           /\ \E k \in DOMAIN queue[order[slot].side][order[slot].price] :
                  queue[order[slot].side][order[slot].price][k] = slot
<1>1. order[slot] \in Order
  BY DEF BookTypeOK, InUse
<1>2. order[slot].side \in Side /\ order[slot].price \in Price
  BY <1>1 DEF Order
<1>3. PICK k \in DOMAIN queue[order[slot].side][order[slot].price] :
          queue[order[slot].side][order[slot].price][k] = slot
  BY DEF QueueComplete
<1>4. order[slot].level = [side |-> order[slot].side, price |-> order[slot].price]
  BY <1>2, <1>3 DEF QueueSound
<1> QED
  BY <1>1, <1>2, <1>3, <1>4

(* RemoveOrder takes the order off its level, the index and the pool, and  *)
(* every part of the book invariant survives.                              *)
LEMMA RemoveKeepsBook ==
    ASSUME BookTypeOK, BookInv, NEW slot \in InUse, UNCHANGED nextSeq,
           RemoveOrder(slot, order[slot].id, order[slot].level)
    PROVE  /\ BookTypeOK' /\ BookInv'
           /\ index' = [index EXCEPT ![order[slot].id] = NoSlot]
<1> DEFINE side  == order[slot].side
           price == order[slot].price
           old   == queue[side][price]
           rest  == Unlink(old, slot)
<1> USE DEF BookInv, StructuresAgree
<1>1. /\ order[slot] \in Order /\ side \in Side /\ price \in Price
      /\ order[slot].level = [side |-> side, price |-> price]
      /\ order[slot].id \in OrderIds /\ slot \in Slots
  BY InUseIsQueued DEF Order, InUse
<1>2. PICK k \in DOMAIN old : old[k] = slot
  BY InUseIsQueued
<1>3. \A i, j \in DOMAIN old : old[i] = old[j] => i = j
  BY <1>1, QueuesAreInjective
<1>4. old \in Seq(Slots)
  BY <1>1 DEF BookTypeOK
<1>5. /\ rest \in Seq(Slots)
      /\ \A i \in DOMAIN rest :
             \E a \in DOMAIN old : rest[i] = old[a] /\ a # k
      /\ \A i, j \in DOMAIN rest : i < j =>
             \E a, b \in DOMAIN old :
                 a < b /\ rest[i] = old[a] /\ rest[j] = old[b]
      /\ \A a \in DOMAIN old : a # k =>
             \E i \in DOMAIN rest : rest[i] = old[a]
  <2> HIDE DEF old
  <2> QED
    BY <1>2, <1>3, <1>4, UnlinkKeepsOrder
<1> HIDE DEF rest
<1>6. /\ queue'  = [queue EXCEPT ![side][price] = rest]
      /\ levels' = [levels EXCEPT ![side] = KeysAfter(@, price, rest)]
      /\ index'  = [index EXCEPT ![order[slot].id] = NoSlot]
      /\ order'  = [order EXCEPT ![slot] = NoOrder]
  BY <1>1 DEF RemoveOrder, Release, rest
<1>7. /\ \A s \in Side, p \in Price :
             queue'[s][p] = IF s = side /\ p = price THEN rest ELSE queue[s][p]
      /\ \A s \in Slots : order'[s] = IF s = slot THEN NoOrder ELSE order[s]
      /\ \A id \in OrderIds :
             index'[id] = IF id = order[slot].id THEN NoSlot ELSE index[id]
      /\ InUse' = InUse \ {slot}
  BY <1>1, <1>6, SMTT(30) DEF BookTypeOK, InUse
<1>8. BookTypeOK'
  <2>1. KeysAfter(levels[side], price, rest) \in SUBSET Price
    BY <1>1 DEF BookTypeOK, KeysAfter
  <2> QED
    BY <1>1, <1>5, <1>6, <2>1 DEF BookTypeOK
<1>9. IndexSound'
  BY <1>1, <1>7 DEF IndexSound, BookTypeOK
<1>10. IndexComplete'
  <2>1. \A s \in InUse : order[s].id \in OrderIds /\ s \in Slots
    BY DEF BookTypeOK, InUse, Order
  <2> SUFFICES ASSUME NEW s \in InUse' PROVE index'[order'[s].id] = s
    BY DEF IndexComplete
  <2>2. s \in InUse /\ s # slot /\ order'[s] = order[s] /\ order[s].id \in OrderIds
    BY <1>7, <2>1
  <2>3. index[order[s].id] = s /\ index[order[slot].id] = slot
    BY <2>2 DEF IndexComplete
  <2>4. order[s].id # order[slot].id
    BY <2>2, <2>3
  <2> QED
    BY <1>7, <2>2, <2>3, <2>4
<1>11. \A i \in DOMAIN rest : rest[i] # slot /\ \E a \in DOMAIN old : rest[i] = old[a]
  <2> SUFFICES ASSUME NEW i \in DOMAIN rest
               PROVE  rest[i] # slot /\ \E a \in DOMAIN old : rest[i] = old[a]
    OBVIOUS
  <2>1. PICK a \in DOMAIN old : rest[i] = old[a] /\ a # k
    BY <1>5
  <2>2. old[a] # old[k]
    BY <1>3, <2>1
  <2> QED
    BY <1>2, <2>1, <2>2
<1>12. \A s \in InUse' : order'[s] = order[s] /\ s \in InUse
  BY <1>7 DEF InUse
<1>13. QueueSound'
  <2> SUFFICES ASSUME NEW s \in Side, NEW p \in Price, NEW i \in DOMAIN queue'[s][p]
               PROVE  /\ queue'[s][p][i] \in InUse'
                      /\ order'[queue'[s][p][i]].side = s
                      /\ order'[queue'[s][p][i]].price = p
                      /\ order'[queue'[s][p][i]].level = [side |-> s, price |-> p]
    BY ZenonT(30) DEF QueueSound
  <2>1. CASE s = side /\ p = price
    <3>1. queue'[s][p] = rest
      BY <1>7, <2>1
    <3>2. PICK a \in DOMAIN old : rest[i] = old[a] /\ rest[i] # slot
      BY <1>11, <3>1, SMTT(30)
    <3>3. /\ old[a] \in InUse
          /\ order[old[a]].side = side
          /\ order[old[a]].price = price
          /\ order[old[a]].level = [side |-> side, price |-> price]
      <4>1. side \in Side /\ price \in Price /\ QueueSound
        BY <1>1
      <4> HIDE DEF side, price
      <4> QED
        BY <4>1, QueueSoundAt
    <3>4. old[a] \in InUse'
      BY <1>7, <3>2, <3>3
    <3>5. queue'[s][p][i] = old[a] /\ order'[old[a]] = order[old[a]]
      BY <1>12, <3>1, <3>2, <3>4
    <3> QED
      BY <2>1, <3>3, <3>4, <3>5
  <2>2. CASE ~(s = side /\ p = price)
    <3>1. queue'[s][p] = queue[s][p]
      BY <1>7, <2>2
    <3>2. /\ queue[s][p][i] \in InUse
          /\ order[queue[s][p][i]].side = s
          /\ order[queue[s][p][i]].price = p
          /\ order[queue[s][p][i]].level = [side |-> s, price |-> p]
      BY <3>1 DEF QueueSound
    <3>3. queue[s][p][i] # slot
      BY <2>2, <3>2
    <3>4. queue[s][p][i] \in InUse'
      BY <1>7, <3>2, <3>3
    <3> QED
      BY <1>12, <3>1, <3>2, <3>4
  <2> QED
    BY <2>1, <2>2
<1>14. QueueComplete'
  <2> SUFFICES ASSUME NEW s \in InUse'
               PROVE  \E i \in DOMAIN queue'[order[s].side][order[s].price] :
                          queue'[order[s].side][order[s].price][i] = s
    BY <1>12 DEF QueueComplete
  <2>1. s \in InUse /\ s # slot
    BY <1>7
  <2>2. /\ order[s].side \in Side /\ order[s].price \in Price
        /\ \E j \in DOMAIN queue[order[s].side][order[s].price] :
               queue[order[s].side][order[s].price][j] = s
    BY <2>1, InUseIsQueued
  <2>3. CASE order[s].side = side /\ order[s].price = price
    <3>1. PICK j \in DOMAIN old : old[j] = s
      BY <2>2, <2>3
    <3>2. \E i \in DOMAIN rest : rest[i] = s
      BY <1>2, <1>5, <2>1, <3>1
    <3> QED
      BY <1>7, <2>2, <2>3, <3>2
  <2>4. CASE ~(order[s].side = side /\ order[s].price = price)
    BY <1>7, <2>2, <2>4
  <2> QED
    BY <2>3, <2>4
<1>15. NoEmptyLevel'
  <2> SUFFICES ASSUME NEW s \in Side, NEW p \in Price
               PROVE  p \in levels'[s] <=> queue'[s][p] # <<>>
    BY DEF NoEmptyLevel
  <2>1. p \in levels[s] <=> queue[s][p] # <<>>
    BY DEF NoEmptyLevel
  <2>2. levels'[s] = IF s = side THEN KeysAfter(levels[s], price, rest) ELSE levels[s]
    BY <1>1, <1>6 DEF BookTypeOK
  <2>3. old # <<>>
    BY <1>2, <1>4
  <2> QED
    BY <1>7, <2>1, <2>2, <2>3 DEF KeysAfter
<1>16. TimePriority'
  <2> SUFFICES ASSUME NEW s \in Side, NEW p \in Price,
                      NEW i \in DOMAIN queue'[s][p], NEW j \in DOMAIN queue'[s][p],
                      i < j
               PROVE  order'[queue'[s][p][i]].sequence < order'[queue'[s][p][j]].sequence
    BY DEF TimePriority
  <2>1. queue'[s][p][i] \in InUse' /\ queue'[s][p][j] \in InUse'
    BY <1>13 DEF QueueSound
  <2>2. SUFFICES order[queue'[s][p][i]].sequence < order[queue'[s][p][j]].sequence
    BY <1>12, <2>1
  <2>3. CASE s = side /\ p = price
    <3>1. queue'[s][p] = rest
      BY <1>7, <2>3, SMTT(30)
    <3>2. PICK a \in DOMAIN old, b \in DOMAIN old :
              a < b /\ rest[i] = old[a] /\ rest[j] = old[b]
      <4>1. i \in DOMAIN rest /\ j \in DOMAIN rest /\ i < j
        BY <3>1
      <4> QED
        BY <1>5, <4>1
    <3>3. order[old[a]].sequence < order[old[b]].sequence
      BY <1>1, <3>2 DEF TimePriority
    <3> QED
      BY <3>1, <3>2, <3>3
  <2>4. CASE ~(s = side /\ p = price)
    BY <1>7, <2>4 DEF TimePriority
  <2> QED
    BY <2>3, <2>4
<1>17. SequenceFresh'
  BY <1>12 DEF SequenceFresh
<1>18. NotCrossed'
  <2>1. \A s \in Side : levels'[s] \subseteq levels[s]
    BY <1>1, <1>6 DEF BookTypeOK, KeysAfter
  <2> QED
    BY <2>1 DEF NotCrossed, Side
<1> QED
  BY <1>6, <1>8, <1>9, <1>10, <1>13, <1>14, <1>15, <1>16, <1>17, <1>18

-----------------------------------------------------------------------------
(* The steps of submit() and cancel(). *)

(* A step that leaves the book alone keeps what is true of the book. *)
LEMMA SameBook ==
    ASSUME BookTypeOK, BookInv, UNCHANGED book
    PROVE  BookTypeOK' /\ BookInv'
<1>1. /\ levels' = levels /\ queue' = queue /\ order' = order
      /\ index' = index /\ nextSeq' = nextSeq
  BY DEF book
<1>2. BookTypeOK'
  BY <1>1 DEF BookTypeOK
<1>3. StructuresAgree'
  <2>1. InUse' = InUse
    BY <1>1 DEF InUse
  <2>2. IndexSound' /\ IndexComplete'
    BY <1>1, <2>1 DEF BookInv, StructuresAgree, IndexSound, IndexComplete
  <2>3. QueueSound' /\ QueueComplete'
    BY <1>1, <2>1 DEF BookInv, StructuresAgree, QueueSound, QueueComplete
  <2> QED
    BY <2>2, <2>3 DEF StructuresAgree
<1>4. NoEmptyLevel' /\ TimePriority' /\ SequenceFresh' /\ NotCrossed'
  BY <1>1 DEF BookInv, NoEmptyLevel, TimePriority, SequenceFresh, NotCrossed, InUse
<1> QED
  BY <1>2, <1>3, <1>4 DEF BookInv

(* The level the taker faces has a key and a front order, which is in use  *)
(* and points back at that level: match() dereferences nothing stale.      *)
LEMMA OldestIsResting ==
    ASSUME TypeOK, BookInv, taker # NoTaker, Marketable
    PROVE  /\ taker \in Taker
           /\ Facing \in Level
           /\ Facing.side = Opposite(taker.side)
           /\ Facing.price \in levels[Facing.side]
           /\ Oldest \in InUse
           /\ order[Oldest] \in Order
           /\ order[Oldest].level = Facing
           /\ order[Oldest].side = Facing.side
           /\ order[Oldest].price = Facing.price
           /\ queue[Facing.side][Facing.price] # <<>>
<1>1. taker \in Taker /\ taker.side \in Side /\ Opposite(taker.side) \in Side
  BY DEF TypeOK, Taker, Opposite, Side
<1>2. Facing.side = Opposite(taker.side) /\ Facing.price \in levels[Facing.side]
  BY <1>1, BestIsBest DEF Facing, Marketable
<1>3. Facing \in Level
  BY <1>1, <1>2 DEF Facing, Level, TypeOK
<1>4. Facing.side \in Side /\ Facing.price \in Price
  BY <1>3 DEF Level
<1> DEFINE q == queue[Facing.side][Facing.price]
<1>5. q \in Seq(Slots) /\ q # <<>>
  BY <1>2, <1>4 DEF TypeOK, BookInv, NoEmptyLevel
<1>6. Oldest = q[1] /\ 1 \in DOMAIN q
  BY <1>5 DEF Oldest
<1>7. /\ Oldest \in InUse
      /\ order[Oldest].side = Facing.side /\ order[Oldest].price = Facing.price
      /\ order[Oldest].level = [side |-> Facing.side, price |-> Facing.price]
  BY <1>4, <1>6 DEF BookInv, StructuresAgree, QueueSound
<1>8. order[Oldest] \in Order
  BY <1>7 DEF TypeOK, InUse
<1>9. Facing = [side |-> Facing.side, price |-> Facing.price]
  BY DEF Facing
<1> QED
  BY <1>1, <1>2, <1>3, <1>5, <1>7, <1>8, <1>9

(* CancelResting: self-trade prevention removes the front order.           *)
LEMMA CancelRestingKeeps ==
    ASSUME IInv, MeetsOwn, CancelResting
    PROVE  IInv'
<1> USE DEF IInv
<1>1. /\ taker \in Taker /\ Facing \in Level /\ Oldest \in InUse
      /\ order[Oldest] \in Order /\ order[Oldest].level = Facing
  BY OldestIsResting DEF MeetsOwn
<1>2. BookTypeOK
  BY DEF TypeOK, BookTypeOK
<1>3. /\ BookTypeOK' /\ BookInv'
      /\ index' = [index EXCEPT ![order[Oldest].id] = NoSlot]
  BY <1>1, <1>2, RemoveKeepsBook DEF CancelResting
<1>4. total' \in [Side -> [Price -> Int]]
  <2>1. order[Oldest].remaining \in Int
    BY <1>1 DEF Order
  <2>2. \A side \in Side, price \in Price : total[side][price] \in Int
    BY DEF TypeOK
  <2> QED
    BY <1>1, <2>1, <2>2 DEF CancelResting, Deduct, Level, TypeOK
<1>5. live' \in Int
  BY DEF CancelResting, RemoveOrder, Release, TypeOK
<1>6. taker' = taker /\ trades' = trades /\ result' = result
  BY DEF CancelResting
<1>7. TypeOK'
  BY <1>3, <1>4, <1>5, <1>6 DEF TypeOK, BookTypeOK
<1>8. TakerInv'
  <2>1. taker.id \in OrderIds /\ order[Oldest].id \in OrderIds
    BY <1>1 DEF Taker, Order
  <2> QED
    BY <1>2, <1>3, <1>6, <2>1 DEF TakerInv, BookTypeOK
<1> QED
  BY <1>3, <1>7, <1>8

(* Cancel: a resting order named by its id leaves the book.                *)
LEMMA CancelKeeps ==
    ASSUME IInv, NEW id \in OrderIds, Cancel(id)
    PROVE  IInv'
<1> DEFINE slot == index[id]
<1> USE DEF IInv
<1>1. BookTypeOK
  BY DEF TypeOK, BookTypeOK
<1>2. slot \in InUse /\ order[slot].id = id
  BY DEF Cancel, BookInv, StructuresAgree, IndexSound
<1>3. order[slot] \in Order /\ order[slot].level \in Level
  BY <1>2 DEF TypeOK, InUse, Order
<1>4. BookTypeOK' /\ BookInv'
  BY <1>1, <1>2, RemoveKeepsBook, SMTT(30) DEF Cancel
<1>5. total' \in [Side -> [Price -> Int]]
  <2>1. order[slot].remaining \in Int
    BY <1>3 DEF Order
  <2>2. \A side \in Side, price \in Price : total[side][price] \in Int
    BY DEF TypeOK
  <2> QED
    <3>1. total' = [total EXCEPT ![order[slot].level.side][order[slot].level.price] =
                        total[order[slot].level.side][order[slot].level.price]
                            - order[slot].remaining]
      BY DEF Cancel, Deduct
    <3>2. /\ order[slot].level.side \in Side /\ order[slot].level.price \in Price
          /\ total \in [Side -> [Price -> Int]]
      BY <1>3 DEF Level, TypeOK
    <3> DEFINE s == order[slot].level.side
               p == order[slot].level.price
    <3>3. total[s][p] - order[slot].remaining \in Int
      BY <2>1, <2>2, <3>2
    <3>4. PICK rest : rest = total[s][p] - order[slot].remaining
      OBVIOUS
    <3>5. total' = [total EXCEPT ![s][p] = rest] /\ rest \in Int
      BY <3>1, <3>3, <3>4
    <3>6. s \in Side /\ p \in Price
      BY <3>2
    <3> HIDE DEF s, p, slot
    <3> QED
      BY <3>2, <3>5, <3>6
<1>6. live' \in Int
  <2>1. live' = live - 1 /\ live \in Int
    BY DEF Cancel, RemoveOrder, Release, TypeOK
  <2> QED
    BY <2>1, SMTT(30)
<1>7. taker' = NoTaker /\ trades' = trades /\ taker = NoTaker
  BY DEF Cancel
<1>8. result' \in Result
  BY BookConstants DEF Cancel, Returns, Result, SubmitStatus
<1>9. TypeOK'
  BY <1>4, <1>5, <1>6, <1>7, <1>8 DEF TypeOK, BookTypeOK
<1> QED
  BY <1>4, <1>7, <1>9 DEF TakerInv

(* A fill that leaves the maker resting changes nothing but its remaining  *)
(* quantity, so the book invariant survives.                               *)
LEMMA ReduceKeepsBook ==
    ASSUME BookTypeOK, BookInv, NEW slot \in InUse,
           NEW traded \in Int, 0 < traded, traded < order[slot].remaining,
           order' = [order EXCEPT ![slot] = Reduced(order[slot], traded)],
           UNCHANGED <<levels, queue, index, nextSeq>>
    PROVE  BookTypeOK' /\ BookInv'
<1>1. slot \in Slots /\ order[slot] \in Order
  BY DEF BookTypeOK, InUse
<1>2. /\ order[slot].remaining \in 1..MaxQty
      /\ order[slot].remaining - traded \in 1..MaxQty
  BY <1>1, BookConstants DEF Order
<1>3. Reduced(order[slot], traded) \in Order
  BY <1>1, <1>2 DEF Order, Reduced
<1>4. BookTypeOK'
  BY <1>1, <1>3 DEF BookTypeOK
<1>5. InUse' = InUse
  BY <1>1, <1>3, BookConstants DEF InUse, BookTypeOK
<1>6. \A s \in InUse : /\ order'[s].id = order[s].id
                       /\ order'[s].side = order[s].side
                       /\ order'[s].price = order[s].price
                       /\ order'[s].level = order[s].level
                       /\ order'[s].sequence = order[s].sequence
  <2> SUFFICES ASSUME NEW s \in InUse
               PROVE  /\ order'[s].id = order[s].id
                      /\ order'[s].side = order[s].side
                      /\ order'[s].price = order[s].price
                      /\ order'[s].level = order[s].level
                      /\ order'[s].sequence = order[s].sequence
    OBVIOUS
  <2>1. order'[s] = IF s = slot THEN Reduced(order[slot], traded) ELSE order[s]
    BY <1>1 DEF BookTypeOK, InUse
  <2> QED
    BY <1>1, <2>1 DEF Reduced, Order
<1>7. IndexSound' /\ IndexComplete'
  BY <1>5, <1>6 DEF BookInv, StructuresAgree, IndexSound, IndexComplete
<1>8. QueueSound'
  <2>1. ASSUME NEW s \in Side, NEW p \in Price, NEW i \in DOMAIN queue'[s][p]
        PROVE  /\ queue'[s][p][i] \in InUse'
               /\ order'[queue'[s][p][i]].side = s
               /\ order'[queue'[s][p][i]].price = p
               /\ order'[queue'[s][p][i]].level = [side |-> s, price |-> p]
    <3>1. queue' = queue
      OBVIOUS
    <3>2. /\ queue[s][p][i] \in InUse
          /\ order[queue[s][p][i]].side = s
          /\ order[queue[s][p][i]].price = p
          /\ order[queue[s][p][i]].level = [side |-> s, price |-> p]
      BY <3>1 DEF BookInv, StructuresAgree, QueueSound
    <3> QED
      BY <1>5, <1>6, <3>1, <3>2
  <2> QED
    BY <2>1 DEF QueueSound
<1>9. QueueComplete'
  BY <1>5, <1>6 DEF BookInv, StructuresAgree, QueueComplete
<1>10. TimePriority'
  BY <1>6 DEF BookInv, StructuresAgree, QueueSound, TimePriority
<1>11. NoEmptyLevel' /\ NotCrossed'
  BY DEF BookInv, NoEmptyLevel, NotCrossed
<1>12. SequenceFresh'
  BY <1>5, <1>6 DEF BookInv, SequenceFresh
<1> QED
  BY <1>4, <1>7, <1>8, <1>9, <1>10, <1>11, <1>12 DEF BookInv, StructuresAgree

(* Fill: one trade with the front order of the best level.                 *)
LEMMA FillKeeps ==
    ASSUME IInv, Fill
    PROVE  IInv'
<1> DEFINE maker  == order[Oldest]
           traded == TradeSize(maker)
<1> USE DEF IInv
<1>1. /\ taker \in Taker /\ Facing \in Level /\ Oldest \in InUse
      /\ maker \in Order /\ maker.level = Facing
  BY OldestIsResting DEF Fill
<1>2. BookTypeOK
  BY DEF TypeOK, BookTypeOK
<1>3. /\ taker.remaining \in 1..MaxQty /\ taker.quantity \in 1..MaxQty
      /\ maker.remaining \in 1..MaxQty
  BY <1>1, BookConstants DEF Fill, Marketable, Taker, Order
<1>4. /\ traded \in 1..MaxQty
      /\ traded <= taker.remaining /\ traded <= maker.remaining
  BY <1>3, BookConstants DEF TradeSize
<1> HIDE DEF traded
<1>5. BookTypeOK' /\ BookInv' /\ TakerInv' /\ live' \in Int
  <2>1. taker' = [taker EXCEPT !.remaining = @ - traded] /\ nextSeq' = nextSeq
    BY DEF Fill, traded
  <2>2. /\ taker'.id = taker.id /\ taker'.quantity = taker.quantity
        /\ taker'.remaining <= taker'.quantity
    BY <1>1, <1>3, <1>4, <2>1 DEF Taker, TakerInv, Fill
  <2>3. taker.id \in OrderIds /\ maker.id \in OrderIds /\ index[taker.id] = NoSlot
    BY <1>1 DEF Taker, Order, TakerInv, Fill
  <2>4. CASE traded = maker.remaining
    <3>1. RemoveOrder(Oldest, maker.id, maker.level)
      BY <1>1, <2>4 DEF Fill, traded
    <3>2. /\ BookTypeOK' /\ BookInv'
          /\ index' = [index EXCEPT ![maker.id] = NoSlot]
      BY <1>1, <1>2, <2>1, <3>1, RemoveKeepsBook
    <3>3. live' \in Int
      BY <3>1 DEF RemoveOrder, Release, TypeOK
    <3>4. index'[taker.id] = NoSlot
      BY <1>2, <2>3, <3>2 DEF BookTypeOK
    <3> QED
      BY <2>2, <3>2, <3>3, <3>4 DEF TakerInv
  <2>5. CASE traded # maker.remaining
    <3>1. /\ order' = [order EXCEPT ![Oldest] = Reduced(maker, traded)]
          /\ UNCHANGED <<levels, queue, live, index>>
      BY <2>5 DEF Fill, traded
    <3>2. traded \in Int /\ 0 < traded /\ traded < maker.remaining
      BY <1>3, <1>4, <2>5
    <3>3. BookTypeOK' /\ BookInv'
      BY <1>1, <1>2, <2>1, <3>1, <3>2, ReduceKeepsBook
    <3> QED
      BY <2>2, <2>3, <3>1, <3>3 DEF TakerInv, TypeOK
  <2> QED
    BY <2>4, <2>5
<1>6. total' \in [Side -> [Price -> Int]]
  <2>1. \A side \in Side, price \in Price : total[side][price] \in Int
    BY DEF TypeOK
  <2> QED
    BY <1>1, <1>4, <2>1 DEF Fill, Deduct, Level, TypeOK, traded
<1>7. trades' \in Seq(Trade)
  <2> DEFINE trade == [price |-> maker.price, quantity |-> traded,
                       taker_id |-> taker.id, maker_id |-> maker.id,
                       taker_trader |-> taker.trader, maker_trader |-> maker.trader,
                       taker_side |-> taker.side]
  <2>1. trade \in Trade
    BY <1>1, <1>4 DEF Trade, Order, Taker
  <2>2. trades' = Append(trades, trade)
    BY DEF Fill, traded
  <2> QED
    BY <2>1, <2>2 DEF TypeOK
<1>8. taker' \in Taker
  <2>1. taker' = [taker EXCEPT !.remaining = @ - traded]
    BY DEF Fill, traded
  <2>2. taker.remaining - traded \in 0..MaxQty
    BY <1>3, <1>4, BookConstants
  <2> QED
    BY <1>1, <2>1, <2>2 DEF Taker
<1>9. TypeOK'
  <2>1. result' = result
    BY DEF Fill
  <2> QED
    BY <1>5, <1>6, <1>7, <1>8, <2>1 DEF TypeOK, BookTypeOK
<1> QED
  BY <1>5, <1>9

(* Rest: the remainder of the taker becomes the youngest order of its      *)
(* level.  The book stays uncrossed because match() ended on a best price  *)
(* that does not cross.                                                    *)
LEMMA RestKeeps ==
    ASSUME IInv, NEW slot \in Slots, Rest(slot)
    PROVE  IInv'
<1> DEFINE side   == taker.side
           price  == taker.price
           behind == IF price \in levels[side] THEN queue[side][price] ELSE <<>>
           new    == [id |-> taker.id, trader |-> taker.trader, side |-> side,
                      price |-> price, quantity |-> taker.remaining,
                      remaining |-> taker.remaining, sequence |-> nextSeq,
                      level |-> [side |-> side, price |-> price]]
<1> USE DEF IInv, BookInv, StructuresAgree
<1>1. /\ taker \in Taker /\ side \in Side /\ price \in Price
      /\ taker.id \in OrderIds /\ index[taker.id] = NoSlot
      /\ taker.remaining \in 1..MaxQty /\ taker.quantity \in 1..MaxQty
      /\ taker.remaining <= taker.quantity
  <2>1. taker # NoTaker /\ taker.remaining > 0
    BY DEF Rest
  <2>2. taker \in Taker
    BY <2>1 DEF TypeOK
  <2> QED
    BY <2>1, <2>2, BookConstants DEF Taker, TakerInv
<1>2. new \in Order /\ slot \notin InUse /\ order[slot] = NoOrder
  <2>1. [side |-> side, price |-> price] \in Level
    BY <1>1 DEF Level
  <2>2. taker.trader \in Traders /\ nextSeq \in Nat \ {0}
    BY <1>1 DEF Taker, TypeOK
  <2>3. new \in Order
    BY <1>1, <2>1, <2>2 DEF Order
  <2> QED
    BY <2>3 DEF Rest, InUse
<1>3. behind = queue[side][price] /\ behind \in Seq(Slots)
  BY <1>1 DEF NoEmptyLevel, TypeOK
<1>4. /\ order'  = [order EXCEPT ![slot] = new]
      /\ queue'  = [queue EXCEPT ![side][price] = Append(behind, slot)]
      /\ levels' = [levels EXCEPT ![side] = @ \cup {price}]
      /\ index'  = [index EXCEPT ![taker.id] = slot]
      /\ nextSeq' = nextSeq + 1
  BY DEF Rest, Enqueue
<1> HIDE DEF behind
<1>5. /\ \A s \in Slots : order'[s] = IF s = slot THEN new ELSE order[s]
      /\ \A s \in Side, p \in Price :
             queue'[s][p] = IF s = side /\ p = price
                            THEN Append(behind, slot) ELSE queue[s][p]
      /\ \A s \in Side :
             levels'[s] = IF s = side THEN levels[s] \cup {price} ELSE levels[s]
      /\ \A id \in OrderIds :
             index'[id] = IF id = taker.id THEN slot ELSE index[id]
  BY <1>1, <1>4 DEF TypeOK
<1>6. BookTypeOK'
  BY <1>1, <1>2, <1>3, <1>4 DEF TypeOK, BookTypeOK
<1>7. /\ InUse' = InUse \cup {slot} /\ order'[slot] = new
      /\ \A s \in InUse : s # slot /\ order'[s] = order[s]
  BY <1>2, <1>5, BookConstants DEF InUse
<1>8. /\ new.id = taker.id /\ new.side = side /\ new.price = price
      /\ new.sequence = nextSeq /\ new.level = [side |-> side, price |-> price]
  OBVIOUS
<1>9. \A s \in InUse : /\ order[s].id \in OrderIds /\ order[s].id # taker.id
                       /\ order[s].sequence \in Int
  BY <1>1, BookConstants, SMTT(30) DEF IndexComplete, TypeOK, InUse, Order
<1> HIDE DEF new
<1>10. IndexSound'
  BY <1>1, <1>5, <1>7, <1>8 DEF IndexSound
<1>11. IndexComplete'
  BY <1>1, <1>5, <1>7, <1>8, <1>9 DEF IndexComplete
<1>12. ASSUME NEW s \in Side, NEW p \in Price
       PROVE  /\ \A i \in DOMAIN queue[s][p] :
                     i \in DOMAIN queue'[s][p] /\ queue'[s][p][i] = queue[s][p][i]
              /\ \A i \in DOMAIN queue'[s][p] :
                     \/ i \in DOMAIN queue[s][p]
                     \/ /\ s = side /\ p = price /\ queue'[s][p][i] = slot
                        /\ i = Len(queue[s][p]) + 1
  <2>1. CASE s = side /\ p = price
    <3>1. queue'[s][p] = Append(behind, slot) /\ queue[s][p] = behind
      BY <1>3, <1>5, <2>1
    <3>2. /\ DOMAIN behind = 1..Len(behind) /\ Len(behind) \in Nat
          /\ DOMAIN Append(behind, slot) = 1..(Len(behind) + 1)
          /\ \A i \in 1..Len(behind) : Append(behind, slot)[i] = behind[i]
          /\ Append(behind, slot)[Len(behind) + 1] = slot
      <4>1. behind \in Seq(Slots) /\ slot \in Slots
        BY <1>3
      <4> QED
        BY <4>1, AppendProperties
    <3>3. /\ DOMAIN queue[s][p] = 1..Len(behind) /\ DOMAIN queue'[s][p] = 1..(Len(behind) + 1)
          /\ \A i \in 1..Len(behind) : queue'[s][p][i] = queue[s][p][i]
          /\ queue'[s][p][Len(behind) + 1] = slot
      BY <3>1, <3>2
    <3>4. \A i \in 1..(Len(behind) + 1) : i \in 1..Len(behind) \/ i = Len(behind) + 1
      BY <3>2
    <3>5. \A i \in 1..Len(behind) : i \in 1..(Len(behind) + 1)
      BY <3>2
    <3> QED
      BY <2>1, <3>1, <3>3, <3>4, <3>5
  <2>2. CASE ~(s = side /\ p = price)
    <3>1. queue'[s][p] = queue[s][p]
      BY <1>5, <2>2
    <3> QED
      BY <3>1
  <2> QED
    BY <2>1, <2>2
<1>13. QueueSound'
  <2> SUFFICES ASSUME NEW s \in Side, NEW p \in Price, NEW i \in DOMAIN queue'[s][p]
               PROVE  /\ queue'[s][p][i] \in InUse'
                      /\ order'[queue'[s][p][i]].side = s
                      /\ order'[queue'[s][p][i]].price = p
                      /\ order'[queue'[s][p][i]].level = [side |-> s, price |-> p]
    BY DEF QueueSound
  <2>1. \/ /\ s = side /\ p = price /\ queue'[s][p][i] = slot
        \/ /\ i \in DOMAIN queue[s][p] /\ queue'[s][p][i] = queue[s][p][i]
    BY <1>12
  <2>2. CASE i \in DOMAIN queue[s][p] /\ queue'[s][p][i] = queue[s][p][i]
    <3>1. /\ queue[s][p][i] \in InUse
          /\ order[queue[s][p][i]].side = s
          /\ order[queue[s][p][i]].price = p
          /\ order[queue[s][p][i]].level = [side |-> s, price |-> p]
      BY <2>2 DEF QueueSound
    <3> QED
      BY <1>7, <2>2, <3>1
  <2> QED
    BY <1>7, <1>8, <2>1, <2>2
<1>14. QueueComplete'
  <2> SUFFICES ASSUME NEW s \in InUse'
               PROVE  \E i \in DOMAIN queue'[order'[s].side][order'[s].price] :
                          queue'[order'[s].side][order'[s].price][i] = s
    BY DEF QueueComplete
  <2>1. CASE s = slot
    <3>1. queue'[side][price] = Append(behind, slot)
      BY <1>1, <1>5
    <3>2. /\ Len(behind) + 1 \in DOMAIN Append(behind, slot)
          /\ Append(behind, slot)[Len(behind) + 1] = slot
      BY <1>3, SMTT(30)
    <3> QED
      BY <1>7, <1>8, <2>1, <3>1, <3>2, SMTT(30)
  <2>2. CASE s # slot
    <3>1. s \in InUse /\ order'[s] = order[s]
      BY <1>7, <2>2
    <3>2. order[s].side \in Side /\ order[s].price \in Price
      BY <3>1 DEF TypeOK, InUse, Order
    <3>3. PICK i \in DOMAIN queue[order[s].side][order[s].price] :
              queue[order[s].side][order[s].price][i] = s
      BY <3>1 DEF QueueComplete
    <3>4. /\ i \in DOMAIN queue'[order[s].side][order[s].price]
          /\ queue'[order[s].side][order[s].price][i] = s
      BY <1>12, <3>2, <3>3
    <3> QED
      BY <3>1, <3>4
  <2> QED
    BY <2>1, <2>2
<1>15. NoEmptyLevel'
  <2> SUFFICES ASSUME NEW s \in Side, NEW p \in Price
               PROVE  p \in levels'[s] <=> queue'[s][p] # <<>>
    BY DEF NoEmptyLevel
  <2>1. p \in levels[s] <=> queue[s][p] # <<>>
    BY DEF NoEmptyLevel
  <2>2. Append(behind, slot) # <<>>
    BY <1>3
  <2>3. CASE s = side /\ p = price
    BY <1>5, <2>2, <2>3
  <2>4. CASE ~(s = side /\ p = price)
    <3>1. queue'[s][p] = queue[s][p]
      BY <1>5, <2>4
    <3>2. p \in levels'[s] <=> p \in levels[s]
      <4>1. levels'[s] = IF s = side THEN levels[s] \cup {price} ELSE levels[s]
        BY <1>5
      <4>2. CASE s = side
        BY <2>4, <4>1, <4>2
      <4>3. CASE s # side
        BY <4>1, <4>3
      <4> QED
        BY <4>2, <4>3
    <3> QED
      BY <2>1, <3>1, <3>2
  <2> QED
    BY <2>3, <2>4
<1>16. SequenceFresh'
  <2>1. nextSeq \in Nat
    BY DEF TypeOK
  <2> QED
    BY <1>4, <1>7, <1>8, <1>9, <2>1 DEF SequenceFresh
<1>17. TimePriority'
  <2> SUFFICES ASSUME NEW s \in Side, NEW p \in Price,
                      NEW i \in DOMAIN queue'[s][p], NEW j \in DOMAIN queue'[s][p],
                      i < j
               PROVE  order'[queue'[s][p][i]].sequence < order'[queue'[s][p][j]].sequence
    BY DEF TimePriority
  <2>1. /\ i \in DOMAIN queue[s][p] /\ queue'[s][p][i] = queue[s][p][i]
        /\ \/ j \in DOMAIN queue[s][p] /\ queue'[s][p][j] = queue[s][p][j]
           \/ queue'[s][p][j] = slot
    <3>1. i \in DOMAIN queue[s][p]
      <4>1. j \in DOMAIN queue[s][p] \/ j = Len(queue[s][p]) + 1
        BY <1>12
      <4>2. queue[s][p] \in Seq(Slots) /\ queue'[s][p] \in Seq(Slots)
        BY <1>6 DEF TypeOK, BookTypeOK
      <4>3. i \in DOMAIN queue[s][p] \/ i = Len(queue[s][p]) + 1
        BY <1>12
      <4> QED
        BY <4>1, <4>2, <4>3
    <3> QED
      BY <1>12, <3>1
  <2>2. queue[s][p][i] \in InUse
    BY <2>1 DEF QueueSound
  <2>3. CASE queue'[s][p][j] = slot
    BY <1>7, <1>8, <2>1, <2>2, <2>3 DEF SequenceFresh
  <2>4. CASE j \in DOMAIN queue[s][p] /\ queue'[s][p][j] = queue[s][p][j]
    <3>1. queue[s][p][j] \in InUse
      BY <2>4 DEF QueueSound
    <3>2. order[queue[s][p][i]].sequence < order[queue[s][p][j]].sequence
      BY <2>1, <2>4 DEF TimePriority
    <3> QED
      BY <1>7, <2>1, <2>2, <2>4, <3>1, <3>2
  <2> QED
    BY <2>1, <2>3, <2>4
<1>18. NotCrossed'
  <2> DEFINE opp == Opposite(side)
  <2>1. opp \in Side /\ opp # side
    BY <1>1 DEF Opposite, Side
  <2>2. ASSUME NEW q \in levels[opp]
        PROVE  ~Crosses(side, price, q)
    <3>1. ~Crosses(side, price, Best(opp))
      BY <1>1, <2>2, BookConstants DEF Rest, Marketable
    <3>2. ~Better(opp, q, Best(opp)) /\ Best(opp) \in Price /\ q \in Price
      BY <2>1, <2>2, BestIsBest DEF TypeOK
    <3> QED
      BY <1>1, <3>1, <3>2, BookConstants DEF Better, Crosses, Opposite, Side, Price
  <2>3. levels'[side] = levels[side] \cup {price} /\ levels'[opp] = levels[opp]
    BY <1>1, <1>5, <2>1
  <2>4. \A s \in Side : levels[s] \subseteq Price
    BY DEF TypeOK
  <2> QED
    BY <1>1, <2>2, <2>3, <2>4, BookConstants
       DEF NotCrossed, Crosses, Opposite, Side, Price
<1>19. TypeOK'
  <2>1. total' \in [Side -> [Price -> Int]]
    <3>1. QuantityAt(side, price) \in Int
      BY <1>1 DEF QuantityAt, TypeOK
    <3> QED
      BY <1>1, <3>1 DEF Rest, TypeOK
  <2>2. taker.quantity - taker.remaining \in 0..MaxQty /\ taker.remaining \in 0..MaxQty
    BY <1>1, BookConstants
  <2>3. result' \in Result
    BY <2>2 DEF Rest, Returns, Result, SubmitStatus, TypeOK
  <2>4. live' \in Int /\ trades' = trades /\ taker' = NoTaker
    BY DEF Rest, TypeOK
  <2> QED
    BY <1>6, <2>1, <2>3, <2>4 DEF TypeOK, BookTypeOK
<1>20. TakerInv'
  BY DEF Rest, TakerInv
<1> QED
  BY <1>10, <1>11, <1>13, <1>14, <1>15, <1>16, <1>17, <1>18, <1>19, <1>20

(* Submit: the arguments become the taker's locals.                        *)
LEMMA SubmitKeeps ==
    ASSUME IInv, NEW id \in OrderIds, NEW trader \in Traders, NEW side \in Side,
           NEW price \in Price, NEW quantity \in 0..MaxQty,
           Submit(id, trader, side, price, quantity)
    PROVE  IInv'
<1> USE DEF IInv
<1>1. /\ taker' = [id |-> id, trader |-> trader, side |-> side, price |-> price,
                   quantity |-> quantity, remaining |-> quantity]
      /\ quantity > 0 /\ index[id] = NoSlot /\ trades' = <<>>
      /\ UNCHANGED book /\ result' = result
  BY DEF Submit, ClearTrades
<1>2. taker' \in Taker
  <2>1. quantity \in 1..MaxQty
    BY <1>1, BookConstants
  <2> QED
    BY <1>1, <2>1 DEF Taker
<1>3. BookTypeOK' /\ BookInv'
  BY <1>1, SameBook DEF TypeOK, BookTypeOK
<1>4. TypeOK'
  BY <1>1, <1>2, <1>3 DEF TypeOK, BookTypeOK, book
<1>5. TakerInv'
  <2>1. taker'.id = id /\ taker'.remaining = quantity /\ taker'.quantity = quantity
    BY <1>1
  <2> QED
    BY <1>1, <2>1, BookConstants DEF TakerInv, book
<1> QED
  BY <1>3, <1>4, <1>5

(* A step that only returns: the book is left alone and no taker remains.  *)
LEMMA ReturnKeeps ==
    ASSUME IInv, UNCHANGED book, taker' = NoTaker, trades' \in Seq(Trade),
           result' \in Result
    PROVE  IInv'
<1>1. BookTypeOK' /\ BookInv'
  BY SameBook DEF IInv, TypeOK, BookTypeOK
<1>2. TypeOK'
  BY <1>1 DEF IInv, TypeOK, BookTypeOK, book
<1> QED
  BY <1>1, <1>2 DEF IInv, TakerInv

LEMMA InitIInv == Init => IInv
<1> SUFFICES ASSUME Init PROVE IInv
  OBVIOUS
<1> USE BookConstants DEF Init
<1>1. TypeOK
  BY DEF TypeOK, Result, SubmitStatus
<1>2. InUse = {}
  BY DEF InUse
<1>3. /\ \A side \in Side, price \in Price : queue[side][price] = <<>>
      /\ \A side \in Side : levels[side] = {}
      /\ \A id \in OrderIds : index[id] = NoSlot
  OBVIOUS
<1>4. StructuresAgree
  BY <1>2, <1>3 DEF StructuresAgree, IndexSound, IndexComplete, QueueSound, QueueComplete
<1>5. NoEmptyLevel /\ TimePriority
  BY <1>3 DEF NoEmptyLevel, TimePriority
<1>6. SequenceFresh
  BY <1>2 DEF SequenceFresh
<1>7. NotCrossed
  BY <1>3 DEF NotCrossed, Side
<1> QED
  BY <1>1, <1>4, <1>5, <1>6, <1>7 DEF IInv, BookInv, TakerInv

LEMMA NextIInv == IInv /\ [Next]_vars => IInv'
<1> SUFFICES ASSUME IInv, [Next]_vars PROVE IInv'
  OBVIOUS
<1>0. trades \in Seq(Trade) /\ result \in Result
  BY DEF IInv, TypeOK
<1>1. ASSUME NEW id \in OrderIds, NEW quantity \in 0..MaxQty, Reject(id, quantity)
      PROVE  IInv'
  <2>1. result' \in Result /\ trades' \in Seq(Trade)
    BY <1>1, BookConstants DEF Reject, ClearTrades, Returns, Result, SubmitStatus
  <2> QED
    BY <1>1, <2>1, ReturnKeeps DEF Reject
<1>2. ASSUME NEW id \in OrderIds, NEW trader \in Traders, NEW side \in Side,
             NEW price \in Price, NEW quantity \in 0..MaxQty,
             Submit(id, trader, side, price, quantity)
      PROVE  IInv'
  BY <1>2, SubmitKeeps
<1>3. ASSUME NEW id \in OrderIds, Cancel(id)
      PROVE  IInv'
  BY <1>3, CancelKeeps
<1>4. ASSUME NEW id \in OrderIds, CancelMiss(id)
      PROVE  IInv'
  <2>1. result' \in Result /\ trades' \in Seq(Trade)
    BY <1>0, <1>4, BookConstants DEF CancelMiss, Returns, Result, SubmitStatus
  <2> QED
    BY <1>4, <2>1, ReturnKeeps DEF CancelMiss
<1>5. CASE MeetsOwn /\ CancelResting
  BY <1>5, CancelRestingKeeps
<1>6. ASSUME (MeetsOwn /\ CancelAggressing) \/ FullyFilled
      PROVE  IInv'
  <2>1. /\ UNCHANGED <<book, trades>> /\ taker' = NoTaker
        /\ \/ Returns("CancelledBySelfTrade", taker.quantity - taker.remaining, 0, Len(trades))
           \/ Returns("FullyFilled", taker.quantity, 0, Len(trades))
    BY <1>6 DEF CancelAggressing, FullyFilled
  <2>2. taker \in Taker /\ taker.remaining <= taker.quantity
    BY <1>6 DEF MeetsOwn, FullyFilled, IInv, TypeOK, TakerInv
  <2>3. /\ taker.quantity - taker.remaining \in 0..MaxQty
        /\ taker.quantity \in 0..MaxQty /\ 0 \in 0..MaxQty /\ Len(trades) \in Nat
    BY <1>0, <2>2, BookConstants DEF Taker
  <2>4. result' \in Result
    BY <2>1, <2>3 DEF Returns, Result, SubmitStatus
  <2> QED
    BY <1>0, <2>1, <2>4, ReturnKeeps
<1>7. CASE Fill
  BY <1>7, FillKeeps
<1>8. ASSUME NEW slot \in Slots, Rest(slot)
      PROVE  IInv'
  BY <1>8, RestKeeps
<1>9. CASE UNCHANGED vars
  <2>1. BookTypeOK' /\ BookInv'
    BY <1>9, SameBook DEF vars, IInv, TypeOK, BookTypeOK
  <2> QED
    BY <1>9, <2>1 DEF vars, book, IInv, TypeOK, TakerInv
<1> QED
  BY <1>1, <1>2, <1>3, <1>4, <1>5, <1>6, <1>7, <1>8, <1>9
  DEF Next, Call, Match, PreventSelfTrade

-----------------------------------------------------------------------------
(* The theorems. *)

(* The inductive invariant holds of every behaviour of OrderBook.          *)
THEOREM BookIsSound == Spec => []IInv
<1>1. Init => IInv
  BY InitIInv
<1>2. IInv /\ [Next]_vars => IInv'
  BY NextIInv
<1> QED
  BY <1>1, <1>2, PTL DEF Spec

(* Every variable of the book keeps its type, for any ids, traders, price  *)
(* range, quantity range, pool and self-trade policy.                      *)
THEOREM TypeCorrect == Spec => []TypeOK
<1>1. IInv => TypeOK
  BY DEF IInv
<1> QED
  BY <1>1, BookIsSound, PTL

(* The book is never crossed: whatever is submitted and cancelled, every   *)
(* bid level is below every ask level, between calls and inside them.      *)
THEOREM NeverCrossed == Spec => []NotCrossed
<1>1. IInv => NotCrossed
  BY DEF IInv, BookInv
<1> QED
  BY <1>1, BookIsSound, PTL

(* The id index, the level queues with their back-pointers and the pool    *)
(* always hold the same orders: nothing dangles and nothing is forgotten.  *)
THEOREM IndexQueuesPoolAgree == Spec => []StructuresAgree
<1>1. IInv => StructuresAgree
  BY DEF IInv, BookInv
<1> QED
  BY <1>1, BookIsSound, PTL

(* Every queue is in arrival order, through partial fills and cancels.     *)
THEOREM QueuesAreFifo == Spec => []TimePriority
<1>1. IInv => TimePriority
  BY DEF IInv, BookInv
<1> QED
  BY <1>1, BookIsSound, PTL

(* The price trees have a key exactly for the prices with a resting order, *)
(* so the matching loop never takes the front of an empty level.           *)
THEOREM NoLevelIsEmpty == Spec => []NoEmptyLevel
<1>1. IInv => NoEmptyLevel
  BY DEF IInv, BookInv
<1> QED
  BY <1>1, BookIsSound, PTL

-----------------------------------------------------------------------------
(* What the steps do to one resting order. *)

(* Only the order a step removes leaves its slot.                          *)
LEMMA RemoveTouchesOne ==
    ASSUME BookTypeOK, NEW slot \in InUse, NEW id, NEW lv, RemoveOrder(slot, id, lv),
           NEW other \in InUse, order'[other] # order[other]
    PROVE  other = slot /\ order'[other] = NoOrder
BY DEF RemoveOrder, Release, BookTypeOK, InUse

(* An order changes in a step that adds a trade only if it is the front    *)
(* order of the best opposite level.                                       *)
LEMMA TradeHitsOldest ==
    ASSUME IInv, Next, Len(trades') > Len(trades),
           NEW slot \in InUse, order'[slot] # order[slot]
    PROVE  Fill /\ slot = Oldest
<1>1. Len(trades) \in Nat
  BY DEF IInv, TypeOK
<1>2. trades' # <<>> /\ trades' # trades
  BY <1>1
<1>3. Fill
  BY <1>2 DEF Next, Call, Match, Reject, Submit, ClearTrades, Cancel, CancelMiss,
              PreventSelfTrade, CancelResting, CancelAggressing, FullyFilled, Rest
<1>4. Oldest \in InUse /\ BookTypeOK
  BY <1>3, OldestIsResting DEF Fill, IInv, TypeOK, BookTypeOK
<1>5. CASE RemoveOrder(Oldest, order[Oldest].id, Facing)
  BY <1>3, <1>4, <1>5, RemoveTouchesOne
<1>6. CASE order' = [order EXCEPT ![Oldest] = Reduced(order[Oldest], TradeSize(order[Oldest]))]
  BY <1>3, <1>4, <1>6 DEF BookTypeOK, InUse
<1> QED
  BY <1>3, <1>5, <1>6 DEF Fill

(* Strict price-time priority: the order a trade lowers has no order of    *)
(* its side ahead of it, in price or, at its price, in time.               *)
THEOREM TradesFollowPriceTime == Spec => PriceTimeOrder
<1>1. ASSUME IInv, [Next]_vars
      PROVE  [BestTradesFirst]_vars
  <2> SUFFICES ASSUME Next, NEW slot \in InUse, Len(trades') > Len(trades),
                      order'[slot] # order[slot],
                      NEW other \in InUse, order[other].side = order[slot].side
               PROVE  ~AheadOf(order[other], order[slot])
    BY <1>1 DEF BestTradesFirst
  <2>1. Fill /\ slot = Oldest
    BY <1>1, TradeHitsOldest
  <2> DEFINE side == Facing.side
             best == Facing.price
             q    == queue[side][best]
  <2>2. /\ side \in Side /\ side = Opposite(taker.side) /\ best \in levels[side]
        /\ best \in Price /\ taker.side \in Side
        /\ order[slot].side = side /\ order[slot].price = best
    BY <1>1, <2>1, OldestIsResting DEF Fill, IInv, Level, Taker
  <2>3. best = Best(side)
    BY <2>2 DEF Facing
  <2>4. \A p \in levels[side] : ~Better(side, p, best)
    BY <1>1, <2>2, <2>3, BestIsBest DEF IInv
  <2>5. /\ order[other] \in Order
        /\ \E k \in DOMAIN queue[side][order[other].price] :
               queue[side][order[other].price][k] = other
    <3>1. BookTypeOK /\ QueueSound /\ QueueComplete
      BY <1>1 DEF IInv, TypeOK, BookTypeOK, BookInv, StructuresAgree
    <3>2. order[other].side = side
      BY <2>2
    <3>3. /\ order[other] \in Order
          /\ \E k \in DOMAIN queue[order[other].side][order[other].price] :
                 queue[order[other].side][order[other].price][k] = other
      BY <3>1, InUseIsQueued
    <3> QED
      BY <3>2, <3>3
  <2>6. order[other].price \in Price /\ order[other].sequence \in Int
    BY <2>5 DEF Order
  <2>7. order[other].price \in levels[side]
    <3>1. queue[side][order[other].price] \in Seq(Slots)
      BY <1>1, <2>2, <2>6 DEF IInv, TypeOK
    <3>2. queue[side][order[other].price] # <<>>
      BY <2>5, <3>1
    <3> QED
      BY <1>1, <2>2, <2>6, <3>2 DEF IInv, BookInv, NoEmptyLevel
  <2>8. ~Better(order[other].side, order[other].price, order[slot].price)
    BY <2>2, <2>4, <2>7
  <2>9. ASSUME order[other].price = order[slot].price
        PROVE  ~(order[other].sequence < order[slot].sequence)
    <3>1. q \in Seq(Slots)
      BY <1>1, <2>2 DEF IInv, TypeOK
    <3>2. PICK k \in DOMAIN q : q[k] = other
      BY <2>2, <2>5, <2>9
    <3>3. 1 \in DOMAIN q /\ slot = q[1] /\ k \in Nat /\ k >= 1
      BY <2>1, <3>1, <3>2, SMTT(30) DEF Oldest
    <3>4. CASE k = 1
      BY <2>6, <3>2, <3>3, <3>4
    <3>5. CASE k > 1
      <4>1. order[slot].sequence < order[other].sequence
        BY <1>1, <2>2, <3>2, <3>3, <3>5 DEF IInv, BookInv, TimePriority
      <4>2. order[slot].sequence \in Int
        BY <1>1 DEF IInv, TypeOK, InUse, Order
      <4> QED
        BY <2>6, <4>1, <4>2
    <3>6. k = 1 \/ k > 1
      BY <3>3
    <3> QED
      BY <3>4, <3>5, <3>6
  <2> QED
    BY <2>8, <2>9 DEF AheadOf
<1> QED
  BY <1>1, BookIsSound, PTL DEF Spec, PriceTimeOrder

(* No trade has the same trader on both sides unless the policy is None.   *)
THEOREM SelfTradeIsPrevented == Spec => []NoSelfTrade
<1>1. Init => NoSelfTrade
  BY DEF Init, NoSelfTrade
<1>2. ASSUME IInv, NoSelfTrade, [Next]_vars
      PROVE  NoSelfTrade'
  <2>1. trades' = <<>> => NoSelfTrade'
    BY DEF NoSelfTrade
  <2>2. trades' = trades => NoSelfTrade'
    BY <1>2 DEF NoSelfTrade
  <2>3. ASSUME Fill PROVE NoSelfTrade'
    <3> DEFINE trade == [price |-> order[Oldest].price,
                         quantity |-> TradeSize(order[Oldest]),
                         taker_id |-> taker.id, maker_id |-> order[Oldest].id,
                         taker_trader |-> taker.trader,
                         maker_trader |-> order[Oldest].trader,
                         taker_side |-> taker.side]
    <3>1. trades' = Append(trades, trade) /\ ~OwnOrder(Oldest)
      BY <2>3 DEF Fill
    <3>2. Stp # "None" => trade.taker_trader # trade.maker_trader
      BY <3>1 DEF OwnOrder
    <3> HIDE DEF trade
    <3>3. trades \in Seq(Trade)
      BY <1>2 DEF IInv, TypeOK
    <3>4. \A k \in DOMAIN trades' :
              \/ k \in DOMAIN trades /\ trades'[k] = trades[k]
              \/ trades'[k] = trade
      BY <3>1, <3>3
    <3> QED
      BY <1>2, <3>2, <3>4 DEF NoSelfTrade
  <2>4. Call => trades' = <<>> \/ trades' = trades
    BY DEF Call, Reject, Submit, ClearTrades, Cancel, CancelMiss
  <2>5. Match => trades' = trades \/ Fill
    BY DEF Match, PreventSelfTrade, CancelResting, CancelAggressing, FullyFilled, Rest
  <2> QED
    BY <1>2, <2>1, <2>2, <2>3, <2>4, <2>5 DEF Next, vars
<1> QED
  BY <1>1, <1>2, BookIsSound, PTL DEF Spec

-----------------------------------------------------------------------------
(* The pool leaks nothing. *)

Indexed == {id \in OrderIds : index[id] # NoSlot}

PoolInv == IsFiniteSet(Indexed) /\ NoLeak

(* Removing an order takes one id out of the index and one off live_.      *)
LEMMA RemoveKeepsCount ==
    ASSUME BookTypeOK, IndexSound, IndexComplete, PoolInv, NEW slot \in InUse,
           NEW lv, RemoveOrder(slot, order[slot].id, lv)
    PROVE  PoolInv'
<1> DEFINE id == order[slot].id
<1>1. slot \in Slots /\ id \in OrderIds /\ index[id] = slot
  BY DEF BookTypeOK, InUse, Order, IndexComplete
<1>2. index' = [index EXCEPT ![id] = NoSlot] /\ live' = live - 1
  BY DEF RemoveOrder, Release
<1>3. id \in Indexed
  BY <1>1, BookConstants DEF Indexed
<1>4. Indexed' = Indexed \ {id}
  BY <1>1, <1>2 DEF Indexed, BookTypeOK
<1>5. IsFiniteSet(Indexed') /\ Cardinality(Indexed') = Cardinality(Indexed) - 1
  BY <1>3, <1>4, FS_RemoveElement DEF PoolInv
<1> QED
  BY <1>2, <1>5 DEF PoolInv, NoLeak, Indexed

(* live_count() is order_count() at every step: every Order the pool hands *)
(* out is released exactly once, when it leaves the book.                  *)
THEOREM PoolNeverLeaks == Spec => []NoLeak
<1>1. Init => PoolInv
  <2> SUFFICES ASSUME Init PROVE PoolInv
    OBVIOUS
  <2>1. Indexed = {}
    BY DEF Init, Indexed
  <2>2. live = 0
    BY DEF Init
  <2> QED
    BY <2>1, <2>2, FS_EmptySet DEF PoolInv, NoLeak, Indexed
<1>2. ASSUME IInv, PoolInv, [Next]_vars
      PROVE  PoolInv'
  <2>1. BookTypeOK /\ IndexSound /\ IndexComplete
    BY <1>2 DEF IInv, TypeOK, BookTypeOK, BookInv, StructuresAgree
  <2>2. ASSUME index' = index, live' = live PROVE PoolInv'
    <3>1. Indexed' = Indexed
      BY <2>2 DEF Indexed
    <3> QED
      BY <1>2, <2>2, <3>1 DEF PoolInv, NoLeak, Indexed
  <2>3. CASE UNCHANGED book
    BY <2>2, <2>3 DEF book
  <2>4. CASE MeetsOwn /\ CancelResting
    <3>1. Oldest \in InUse
      BY <1>2, <2>4, OldestIsResting DEF MeetsOwn, IInv
    <3> QED
      BY <1>2, <2>1, <2>4, <3>1, RemoveKeepsCount DEF CancelResting
  <2>5. CASE Fill
    <3>1. Oldest \in InUse
      BY <1>2, <2>5, OldestIsResting DEF Fill, IInv
    <3>2. CASE RemoveOrder(Oldest, order[Oldest].id, Facing)
      BY <1>2, <2>1, <3>1, <3>2, RemoveKeepsCount
    <3>3. CASE UNCHANGED <<live, index>>
      BY <2>2, <3>3
    <3> QED
      BY <2>5, <3>2, <3>3 DEF Fill
  <2>6. ASSUME NEW id \in OrderIds, Cancel(id) PROVE PoolInv'
    <3>1. index[id] \in InUse /\ order[index[id]].id = id
      BY <2>1, <2>6 DEF Cancel, IndexSound
    <3> QED
      BY <1>2, <2>1, <2>6, <3>1, RemoveKeepsCount DEF Cancel
  <2>7. ASSUME NEW slot \in Slots, Rest(slot) PROVE PoolInv'
    <3>1. taker.id \in OrderIds /\ index[taker.id] = NoSlot
      BY <1>2, <2>7 DEF Rest, IInv, TypeOK, Taker, TakerInv
    <3>2. index' = [index EXCEPT ![taker.id] = slot] /\ live' = live + 1
      BY <2>7 DEF Rest
    <3>3. Indexed' = Indexed \cup {taker.id} /\ taker.id \notin Indexed
      BY <2>1, <2>7, <3>1, <3>2, BookConstants DEF Indexed, BookTypeOK
    <3>4. IsFiniteSet(Indexed') /\ Cardinality(Indexed') = Cardinality(Indexed) + 1
      BY <1>2, <3>3, FS_AddElement DEF PoolInv
    <3> QED
      BY <1>2, <3>2, <3>4 DEF PoolInv, NoLeak, Indexed
  <2>8. \/ UNCHANGED book \/ (MeetsOwn /\ CancelResting) \/ Fill
        \/ \E id \in OrderIds : Cancel(id)
        \/ \E slot \in Slots : Rest(slot)
    BY <1>2 DEF Next, Call, Match, PreventSelfTrade, Reject, Submit, CancelMiss,
                CancelAggressing, FullyFilled, vars
  <2> QED
    BY <2>3, <2>4, <2>5, <2>6, <2>7, <2>8
<1>3. PoolInv => NoLeak
  BY DEF PoolInv
<1> QED
  BY <1>1, <1>2, <1>3, BookIsSound, PTL DEF Spec

-----------------------------------------------------------------------------
(* Resting orders keep their place. *)

(* Between the step that rests an order and the step that removes it only  *)
(* trades touch it, each lowering its remaining quantity by its own size.  *)
THEOREM RestingOrdersKeepTheirPlace == Spec => PlaceIsKept
<1>1. ASSUME IInv, [Next]_vars
      PROVE  [KeepsPlace]_vars
  <2> SUFFICES ASSUME Next, NEW slot \in InUse, order'[slot] # NoOrder
               PROVE  /\ order'[slot] = [order[slot] EXCEPT
                                              !.remaining = order'[slot].remaining]
                      /\ order'[slot].remaining # order[slot].remaining =>
                             /\ Len(trades') = Len(trades) + 1
                             /\ order'[slot].remaining
                                  = order[slot].remaining - trades'[Len(trades')].quantity
    BY <1>1 DEF KeepsPlace
  <2>1. BookTypeOK /\ order[slot] \in Order /\ slot \in Slots
    BY <1>1 DEF IInv, TypeOK, BookTypeOK, InUse
  <2>2. order[slot] = [order[slot] EXCEPT !.remaining = order[slot].remaining]
    BY <2>1 DEF Order
  <2>3. CASE order'[slot] = order[slot]
    BY <2>2, <2>3
  <2>4. CASE Fill
    <3> DEFINE maker  == order[Oldest]
               traded == TradeSize(maker)
    <3>1. Oldest \in InUse
      BY <1>1, <2>4, OldestIsResting DEF Fill, IInv
    <3>2. CASE RemoveOrder(Oldest, maker.id, Facing)
      BY <2>1, <2>3, <3>1, <3>2, RemoveTouchesOne
    <3>3. CASE order' = [order EXCEPT ![Oldest] = Reduced(maker, traded)]
      <4>1. CASE slot # Oldest
        BY <2>1, <2>3, <3>3, <4>1 DEF BookTypeOK
      <4>2. CASE slot = Oldest
        <5>1. order'[slot] = [order[slot] EXCEPT !.remaining = @ - traded]
          BY <2>1, <3>3, <4>2 DEF BookTypeOK, Reduced
        <5>2. order'[slot].remaining = order[slot].remaining - traded
          BY <2>1, <5>1 DEF Order
        <5>3. order'[slot] = [order[slot] EXCEPT !.remaining = order'[slot].remaining]
          BY <2>1, <5>1, <5>2 DEF Order
        <5>4. /\ Len(trades') = Len(trades) + 1
              /\ trades'[Len(trades')].quantity = traded
          BY <1>1, <2>4 DEF Fill, IInv, TypeOK
        <5> QED
          BY <5>2, <5>3, <5>4
      <4> QED
        BY <4>1, <4>2
    <3> QED
      BY <2>4, <3>2, <3>3 DEF Fill
  <2>5. CASE MeetsOwn /\ CancelResting
    <3>1. Oldest \in InUse
      BY <1>1, <2>5, OldestIsResting DEF MeetsOwn, IInv
    <3> QED
      BY <2>1, <2>3, <2>5, <3>1, RemoveTouchesOne DEF CancelResting
  <2>6. ASSUME NEW id \in OrderIds, Cancel(id) PROVE order'[slot] = order[slot]
    <3>1. index[id] \in InUse
      BY <1>1, <2>6 DEF Cancel, IInv, BookInv, StructuresAgree, IndexSound
    <3> QED
      BY <2>1, <2>6, <3>1, RemoveTouchesOne DEF Cancel
  <2>7. ASSUME NEW s \in Slots, Rest(s) PROVE order'[slot] = order[slot]
    BY <2>1, <2>7 DEF Rest, BookTypeOK, InUse
  <2>8. \/ UNCHANGED book \/ (MeetsOwn /\ CancelResting) \/ Fill
        \/ \E id \in OrderIds : Cancel(id)
        \/ \E s \in Slots : Rest(s)
    BY DEF Next, Call, Match, PreventSelfTrade, Reject, Submit, CancelMiss,
           CancelAggressing, FullyFilled
  <2> QED
    BY <2>3, <2>4, <2>5, <2>6, <2>7, <2>8 DEF book
<1> QED
  BY <1>1, BookIsSound, PTL DEF Spec, PlaceIsKept
==============================================================================
