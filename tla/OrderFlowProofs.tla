--------------------------- MODULE OrderFlowProofs ---------------------------
(***************************************************************************)
(* Theorems about a book driven by the generator, for every configuration  *)
(* of the generator and of the book.                                       *)
(***************************************************************************)
EXTENDS OrderFlow, OrderBookRefinementProofs

-----------------------------------------------------------------------------
(* The inductive invariant. *)

\* The orders on the book and the one being matched, by id.
OpenIds == {order[slot].id : slot \in InUse} \cup {t.id : t \in {taker} \ {NoTaker}}

\* The generator draws ids for cancels from those it has used for submits.
DrawsKnownIds == ToSet(live_ids) \subseteq OrderIds

FlowInv == IInv /\ DrawsKnownIds /\ OrdersAreValid /\ TracksOpenOrders

-----------------------------------------------------------------------------
(* The generator. *)

(* The mid never falls below a tick, and an order's price neither, however *)
(* far its offset reaches; nor does it leave the book's range.             *)
LEMMA PricesAreInRange ==
    ASSUME mid \in tick..MaxMid, NEW m \in RandomWalk, m <= MaxMid,
           NEW side, NEW offset \in 0..depth_levels, NEW marketable
    PROVE  /\ m \in tick..MaxMid
           /\ PriceAt(m, side, offset, marketable) \in Price
           /\ PriceAt(m, side, offset, marketable) >= tick
<1>1. tick \in Nat \ {0} /\ MaxMid \in Nat /\ depth_levels \in Nat
  BY GeneratorConfig
<1>2. /\ MinPrice \in Int /\ MaxPrice \in Int /\ MinPrice <= tick
      /\ MaxMid + depth_levels * tick <= MaxPrice
  BY BookConstants, FlowConstants
<1>3. m \in tick..MaxMid
  BY <1>1 DEF RandomWalk, AtLeastATick
<1> DEFINE reach == offset * tick
           most  == depth_levels * tick
<1>4. reach \in Nat /\ most \in Nat /\ reach <= most
  BY <1>1
<1> HIDE DEF reach, most
<1>5. AtLeastATick(m + reach) \in tick..MaxPrice /\ AtLeastATick(m - reach) \in tick..MaxPrice
  BY <1>1, <1>2, <1>3, <1>4 DEF AtLeastATick, most
<1>6. PriceAt(m, side, offset, marketable) \in {AtLeastATick(m + reach), AtLeastATick(m - reach)}
  BY DEF PriceAt, reach
<1>7. PriceAt(m, side, offset, marketable) \in tick..MaxPrice
  BY <1>5, <1>6
<1> QED
  BY <1>1, <1>2, <1>3, <1>7 DEF Price

(* Swap-and-pop takes out exactly the id drawn: the rest stay, once each.  *)
LEMMA SwapAndPopTakesOne ==
    ASSUME NEW S, live_ids \in Seq(S), IsInjective(live_ids),
           NEW idx \in DOMAIN live_ids, SwapAndPop(idx)
    PROVE  /\ live_ids' \in Seq(S)
           /\ ToSet(live_ids') = ToSet(live_ids) \ {live_ids[idx]}
           /\ IsInjective(live_ids')
<1> DEFINE n       == Len(live_ids)
           swapped == [live_ids EXCEPT ![idx] = live_ids[n]]
<1>1. /\ n \in Nat \ {0} /\ n \in 1..n /\ idx \in 1..n /\ DOMAIN live_ids = 1..n
      /\ \A k \in 1..n : live_ids[k] \in S
  OBVIOUS
<1>2. /\ swapped \in Seq(S) /\ Len(swapped) = n
      /\ \A k \in 1..n : swapped[k] = IF k = idx THEN live_ids[n] ELSE live_ids[k]
  BY <1>1
<1>3. live_ids' = SubSeq(swapped, 1, n - 1)
  BY <1>2 DEF SwapAndPop, Front, Last
<1> HIDE DEF swapped
<1>4. /\ live_ids' \in Seq(S) /\ DOMAIN live_ids' = 1..(n - 1)
      /\ \A k \in 1..(n - 1) : live_ids'[k] = swapped[k]
  BY <1>1, <1>2, <1>3
<1>5. \A k \in 1..(n - 1) : live_ids'[k] = IF k = idx THEN live_ids[n] ELSE live_ids[k]
  BY <1>1, <1>2, <1>4
<1> HIDE DEF n
<1>6. \A j, k \in 1..n : live_ids[j] = live_ids[k] => j = k
  BY <1>1 DEF IsInjective
<1>7. IsInjective(live_ids')
  <2> SUFFICES ASSUME NEW j \in 1..(n - 1), NEW k \in 1..(n - 1), live_ids'[j] = live_ids'[k]
               PROVE  j = k
    BY <1>4 DEF IsInjective
  <2>1. j \in 1..n /\ k \in 1..n /\ j # n /\ k # n
    BY <1>1
  <2> QED
    BY <1>1, <1>5, <1>6, <2>1
<1>8. ASSUME NEW x \in ToSet(live_ids') PROVE x \in ToSet(live_ids) /\ x # live_ids[idx]
  <2>1. PICK k \in 1..(n - 1) : x = live_ids'[k]
    BY <1>4 DEF ToSet
  <2>2. k \in 1..n /\ k # n
    BY <1>1
  <2> QED
    BY <1>1, <1>5, <1>6, <2>1, <2>2 DEF ToSet
<1>9. ASSUME NEW x \in ToSet(live_ids), x # live_ids[idx] PROVE x \in ToSet(live_ids')
  <2>1. PICK k \in 1..n : x = live_ids[k]
    BY <1>1 DEF ToSet
  <2>2. CASE k = n
    <3>1. idx \in 1..(n - 1)
      BY <1>1, <1>9, <2>1, <2>2
    <3>2. live_ids'[idx] = x
      BY <1>5, <2>1, <2>2, <3>1
    <3> QED
      BY <1>4, <3>1, <3>2 DEF ToSet
  <2>3. CASE k # n
    <3>1. k \in 1..(n - 1) /\ k # idx
      BY <1>1, <1>9, <2>1, <2>3
    <3>2. live_ids'[k] = x
      BY <1>5, <2>1, <3>1
    <3> QED
      BY <1>4, <3>1, <3>2 DEF ToSet
  <2> QED
    BY <2>2, <2>3
<1>10. ToSet(live_ids') = ToSet(live_ids) \ {live_ids[idx]}
  BY <1>8, <1>9
<1> QED
  BY <1>4, <1>7, <1>10

(* A new id is remembered beside the others.                               *)
LEMMA AppendRemembers ==
    ASSUME NEW S, NEW s \in Seq(S), NEW e \in S, IsInjective(s), e \notin ToSet(s)
    PROVE  /\ Append(s, e) \in Seq(S)
           /\ ToSet(Append(s, e)) = ToSet(s) \cup {e}
           /\ IsInjective(Append(s, e))
<1> DEFINE n == Len(s)
           t == Append(s, e)
<1>1. /\ n \in Nat /\ t \in Seq(S) /\ DOMAIN t = 1..(n + 1) /\ DOMAIN s = 1..n
      /\ \A k \in 1..n : t[k] = s[k]
      /\ t[n + 1] = e
  OBVIOUS
<1> HIDE DEF n, t
<1>2. \A k \in 1..(n + 1) : k \in 1..n \/ k = n + 1
  BY <1>1
<1>3. \A k \in 1..n : s[k] # e
  BY <1>1 DEF ToSet
<1>4. IsInjective(t)
  <2> SUFFICES ASSUME NEW j \in 1..(n + 1), NEW k \in 1..(n + 1), t[j] = t[k]
               PROVE  j = k
    BY <1>1 DEF IsInjective
  <2> QED
    BY <1>1, <1>2, <1>3 DEF IsInjective
<1>5. ToSet(t) = ToSet(s) \cup {e}
  <2>1. n + 1 \in 1..(n + 1) /\ \A k \in 1..n : k \in 1..(n + 1)
    BY <1>1
  <2> QED
    BY <1>1, <1>2, <2>1 DEF ToSet
<1> QED
  BY <1>1, <1>4, <1>5 DEF t

-----------------------------------------------------------------------------
(* The book, seen through the ids that are open. *)

(* Removing an order leaves the ids of the others open.                    *)
LEMMA RemoveCloses ==
    ASSUME BookTypeOK, NEW slot \in InUse, NEW id, NEW lv, RemoveOrder(slot, id, lv)
    PROVE  {order'[s].id : s \in InUse'} \subseteq {order[s].id : s \in InUse \ {slot}}
<1>1. \A s \in Slots : order'[s] = IF s = slot THEN NoOrder ELSE order[s]
  BY DEF RemoveOrder, Release, BookTypeOK, InUse
<1> QED
  BY <1>1 DEF InUse

(* Matching opens no id but the taker's, which was open already.           *)
LEMMA MatchOpensNothing ==
    ASSUME IInv, Match
    PROVE  /\ OpenIds' \subseteq OpenIds
           /\ result.status # "Rejected" => result'.status # "Rejected"
           /\ taker' # NoTaker => taker'.price = taker.price
           /\ taker # NoTaker
<1> USE DEF IInv
<1>1. taker # NoTaker /\ taker \in Taker /\ BookTypeOK
  BY DEF Match, PreventSelfTrade, MeetsOwn, Fill, FullyFilled, Rest, TypeOK, BookTypeOK
<1>2. CASE MeetsOwn /\ CancelResting
  <2>1. Oldest \in InUse
    BY <1>2, OldestIsResting DEF MeetsOwn
  <2>2. taker' = taker /\ result' = result /\ RemoveOrder(Oldest, order[Oldest].id, Facing)
    BY <1>2 DEF CancelResting
  <2>3. {order'[s].id : s \in InUse'} \subseteq {order[s].id : s \in InUse}
    BY <1>1, <2>1, <2>2, RemoveCloses
  <2> QED
    BY <1>1, <2>2, <2>3 DEF OpenIds
<1>3. CASE (MeetsOwn /\ CancelAggressing) \/ FullyFilled
  BY <1>1, <1>3 DEF CancelAggressing, FullyFilled, Returns, book, OpenIds, InUse
<1>4. CASE Fill
  <2>1. Oldest \in InUse /\ order[Oldest] \in Order
    BY <1>4, OldestIsResting DEF Fill
  <2>2. /\ result' = result /\ taker' \in Taker \cup {NoTaker} /\ taker' # NoTaker
        /\ taker'.id = taker.id /\ taker'.price = taker.price
    <3>1. /\ result' = result
          /\ taker' = [taker EXCEPT !.remaining = @ - TradeSize(order[Oldest])]
      BY <1>4 DEF Fill
    <3>2. IInv'
      BY <1>4, FillKeeps
    <3>3. taker' \in Taker \cup {NoTaker} /\ taker'.id = taker.id /\ taker'.price = taker.price
      BY <1>1, <3>1, <3>2 DEF Taker, TypeOK
    <3>4. taker' # NoTaker
      <4>1. /\ taker.remaining \in 0..MaxQty /\ order[Oldest].remaining \in 1..MaxQty
            /\ MaxQty \in Nat
        BY <1>1, <2>1, BookConstants DEF Taker, Order
      <4>2. taker.remaining - TradeSize(order[Oldest]) \in 0..MaxQty
        BY <4>1 DEF TradeSize
      <4>3. taker' \in Taker
        BY <1>1, <3>1, <4>2 DEF Taker
      <4> QED
        BY <4>3, BookConstants
    <3> QED
      BY <3>1, <3>3, <3>4
  <2>3. {order'[s].id : s \in InUse'} \subseteq {order[s].id : s \in InUse}
    <3>1. CASE RemoveOrder(Oldest, order[Oldest].id, Facing)
      BY <1>1, <2>1, <3>1, RemoveCloses
    <3>2. CASE order' = [order EXCEPT ![Oldest] =
                             Reduced(order[Oldest], TradeSize(order[Oldest]))]
      <4>1. Reduced(order[Oldest], TradeSize(order[Oldest])).id = order[Oldest].id
        BY <2>1 DEF Reduced, Order
      <4>2. \A s \in Slots : s # Oldest => order'[s] = order[s]
        BY <1>1, <3>2 DEF BookTypeOK
      <4>3. Oldest \in Slots
        BY <2>1 DEF InUse
      <4>4. order'[Oldest].id = order[Oldest].id
        BY <1>1, <3>2, <4>1, <4>3 DEF BookTypeOK
      <4> QED
        BY <2>1, <4>2, <4>4 DEF InUse
    <3> QED
      BY <1>4, <3>1, <3>2 DEF Fill
  <2> QED
    BY <1>1, <2>2, <2>3 DEF OpenIds
<1>5. CASE \E slot \in Slots : Rest(slot)
  <2>1. PICK slot \in Slots : Rest(slot)
    BY <1>5
  <2>2. /\ \A s \in Slots : s # slot => order'[s] = order[s]
        /\ order'[slot].id = taker.id
        /\ taker' = NoTaker
    BY <1>1, <2>1 DEF Rest, BookTypeOK
  <2>3. result'.status # "Rejected"
    BY <2>1 DEF Rest, Returns
  <2> QED
    BY <1>1, <2>2, <2>3 DEF OpenIds, InUse
<1> QED
  BY <1>2, <1>3, <1>4, <1>5 DEF Match, PreventSelfTrade

-----------------------------------------------------------------------------
(* The steps. *)

(* A submit: its id is new to the book, so it is never refused, and it is  *)
(* remembered from then on.                                                *)
LEMMA FeedSubmitKeeps ==
    ASSUME FlowInv, NEW m \in RandomWalk, NEW side \in Side, NEW trader \in Traders,
           NEW qty \in DrawQuantity, NEW offset \in 0..depth_levels,
           NEW marketable \in BOOLEAN,
           FeedSubmit(m, side, trader, qty, offset, marketable)
    PROVE  FlowInv'
<1> DEFINE price == PriceAt(m, side, offset, marketable)
<1>1. /\ mid \in tick..MaxMid /\ next_id \in Nat \ {0} /\ next_id \in OrderIds
      /\ live_ids \in Seq(1..(next_id - 1)) /\ m <= MaxMid
  BY DEF FlowInv, OrdersAreValid, GeneratorTypeOK, FeedSubmit, MakeSubmit
<1>2. m \in tick..MaxMid /\ price \in Price /\ price >= tick
  BY <1>1, PricesAreInRange
<1>3. qty \in 0..MaxQty /\ qty > 0
  BY BookConstants, GeneratorConfig, FlowConstants DEF DrawQuantity
<1>4. next_id \notin ToSet(live_ids)
  BY <1>1 DEF ToSet
<1>5. index[next_id] = NoSlot
  <2>1. ASSUME index[next_id] # NoSlot PROVE FALSE
    <3>1. index[next_id] \in InUse /\ order[index[next_id]].id = next_id
      BY <1>1, <2>1 DEF FlowInv, IInv, BookInv, StructuresAgree, IndexSound
    <3>2. next_id \in ToSet(live_ids)
      BY <3>1 DEF FlowInv, TracksOpenOrders
    <3> QED
      BY <1>4, <3>2
  <2> QED
    BY <2>1
<1>6. Submit(next_id, trader, side, price, qty)
  BY <1>3, <1>5 DEF FeedSubmit, Reject
<1> HIDE DEF price
<1>7. IInv'
  BY <1>1, <1>2, <1>3, <1>6, SubmitKeeps DEF FlowInv
<1>8. /\ mid' = m /\ next_id' = next_id + 1 /\ live_ids' = Append(live_ids, next_id)
  BY DEF FeedSubmit, MakeSubmit
<1>9. /\ live_ids' \in Seq(1..(next_id' - 1))
      /\ ToSet(live_ids') = ToSet(live_ids) \cup {next_id}
      /\ IsInjective(live_ids')
  <2>1. live_ids \in Seq(1..next_id) /\ next_id \in 1..next_id
    BY <1>1
  <2>2. /\ Append(live_ids, next_id) \in Seq(1..next_id)
        /\ ToSet(Append(live_ids, next_id)) = ToSet(live_ids) \cup {next_id}
        /\ IsInjective(Append(live_ids, next_id))
    BY <1>4, <2>1, AppendRemembers DEF FlowInv, TracksOpenOrders
  <2>3. next_id' - 1 = next_id
    BY <1>1, <1>8
  <2> QED
    BY <1>8, <2>2, <2>3
<1>10. /\ taker'.id = next_id /\ taker'.price = price /\ order' = order /\ result' = result
  BY <1>6 DEF Submit, book
<1>11. OpenIds' \subseteq OpenIds \cup {next_id}
  BY <1>10 DEF OpenIds, InUse
<1>12. TracksOpenOrders'
  BY <1>9, <1>11 DEF FlowInv, TracksOpenOrders, OpenIds
<1>13. OrdersAreValid'
  BY <1>1, <1>2, <1>8, <1>9, <1>10 DEF FlowInv, OrdersAreValid, GeneratorTypeOK
<1>14. DrawsKnownIds'
  BY <1>1, <1>9 DEF FlowInv, DrawsKnownIds
<1> QED
  BY <1>7, <1>12, <1>13, <1>14 DEF FlowInv

(* A cancel: the id is forgotten, and no longer on the book.               *)
LEMMA FeedCancelKeeps ==
    ASSUME FlowInv, NEW idx \in DOMAIN live_ids, FeedCancel(idx)
    PROVE  FlowInv'
<1> DEFINE id == live_ids[idx]
<1>1. /\ live_ids \in Seq(1..(next_id - 1)) /\ IsInjective(live_ids)
      /\ SwapAndPop(idx) /\ mid' = mid /\ next_id' = next_id
  BY DEF FlowInv, OrdersAreValid, GeneratorTypeOK, TracksOpenOrders, FeedCancel, MakeCancel
<1>2. /\ live_ids' \in Seq(1..(next_id - 1))
      /\ ToSet(live_ids') = ToSet(live_ids) \ {id}
      /\ IsInjective(live_ids')
  BY <1>1, SwapAndPopTakesOne
<1>3. id \in OrderIds
  BY DEF FlowInv, DrawsKnownIds, ToSet
<1>4. Cancel(id) \/ CancelMiss(id)
  BY DEF FeedCancel
<1> HIDE DEF id
<1>5. IInv'
  <2>1. [Next]_vars
    BY <1>3, <1>4 DEF Next, Call
  <2> QED
    BY <2>1, NextIInv DEF FlowInv
<1>6. taker = NoTaker /\ taker' = NoTaker /\ result'.status # "Rejected"
  BY <1>4 DEF Cancel, CancelMiss, Returns
<1>7. {order'[s].id : s \in InUse'} \subseteq {order[s].id : s \in InUse} \ {id}
  <2>1. \A s \in InUse : index[order[s].id] = s
    BY DEF FlowInv, IInv, BookInv, StructuresAgree, IndexComplete
  <2>2. CASE Cancel(id)
    <3>1. BookTypeOK /\ index[id] \in InUse
      BY <1>3, <2>2 DEF FlowInv, IInv, TypeOK, BookTypeOK, BookInv, StructuresAgree,
                        IndexSound, Cancel
    <3>2. RemoveOrder(index[id], id, order[index[id]].level)
      BY <2>2 DEF Cancel
    <3>3. {order'[s].id : s \in InUse'} \subseteq {order[s].id : s \in InUse \ {index[id]}}
      BY <3>1, <3>2, RemoveCloses
    <3> QED
      BY <2>1, <3>3
  <2>3. CASE CancelMiss(id)
    <3>1. order' = order /\ index[id] = NoSlot /\ NoSlot \notin InUse
      BY <2>3, BookConstants DEF CancelMiss, book, InUse
    <3> QED
      BY <2>1, <3>1 DEF InUse
  <2> QED
    BY <1>4, <2>2, <2>3
<1>8. TracksOpenOrders'
  BY <1>2, <1>6, <1>7 DEF FlowInv, TracksOpenOrders
<1>9. OrdersAreValid'
  BY <1>1, <1>2, <1>6 DEF FlowInv, OrdersAreValid, GeneratorTypeOK
<1>10. DrawsKnownIds'
  BY <1>2 DEF FlowInv, DrawsKnownIds
<1> QED
  BY <1>5, <1>8, <1>9, <1>10 DEF FlowInv

(* An iteration of the matching loop: the generator is not involved.       *)
LEMMA MatchKeeps ==
    ASSUME FlowInv, Match, UNCHANGED generator
    PROVE  FlowInv'
<1>1. mid' = mid /\ next_id' = next_id /\ live_ids' = live_ids
  BY DEF generator
<1>2. IInv'
  BY NextIInv DEF FlowInv, Next
<1>3. /\ OpenIds' \subseteq OpenIds /\ result'.status # "Rejected"
      /\ (taker' # NoTaker => taker'.price = taker.price) /\ taker # NoTaker
  BY MatchOpensNothing DEF FlowInv, OrdersAreValid
<1>4. TracksOpenOrders'
  BY <1>1, <1>3 DEF FlowInv, TracksOpenOrders, OpenIds
<1>5. OrdersAreValid'
  BY <1>1, <1>3 DEF FlowInv, OrdersAreValid, GeneratorTypeOK
<1>6. DrawsKnownIds'
  BY <1>1 DEF FlowInv, DrawsKnownIds
<1> QED
  BY <1>2, <1>4, <1>5, <1>6 DEF FlowInv

(* A generated command is a call the book's specification allows: id and   *)
(* trader are known ones, price and quantity in range.                     *)
LEMMA FlowStepIsBookStep ==
    ASSUME FlowInv, [FlowNext]_flow
    PROVE  [Next]_vars
<1>1. CASE UNCHANGED flow
  BY <1>1 DEF flow
<1>2. ASSUME NEW m \in RandomWalk, NEW side \in Side, NEW trader \in Traders,
             NEW qty \in DrawQuantity, NEW offset \in 0..depth_levels,
             NEW marketable \in BOOLEAN,
             FeedSubmit(m, side, trader, qty, offset, marketable)
      PROVE  Next
  <2> DEFINE price == PriceAt(m, side, offset, marketable)
  <2>1. mid \in tick..MaxMid /\ m <= MaxMid /\ next_id \in OrderIds
    BY <1>2 DEF FlowInv, OrdersAreValid, GeneratorTypeOK, FeedSubmit, MakeSubmit
  <2>2. price \in Price
    BY <2>1, PricesAreInRange
  <2>3. qty \in 0..MaxQty
    BY BookConstants, GeneratorConfig, FlowConstants DEF DrawQuantity
  <2>4. Submit(next_id, trader, side, price, qty) \/ Reject(next_id, qty)
    BY <1>2 DEF FeedSubmit
  <2> HIDE DEF price
  <2> QED
    BY <2>1, <2>2, <2>3, <2>4 DEF Next, Call
<1>3. ASSUME NEW idx \in DOMAIN live_ids, FeedCancel(idx)
      PROVE  Next
  <2>1. live_ids[idx] \in OrderIds
    BY DEF FlowInv, DrawsKnownIds, ToSet
  <2> QED
    BY <1>3, <2>1 DEF FeedCancel, Next, Call
<1> QED
  BY <1>1, <1>2, <1>3 DEF FlowNext, Next

-----------------------------------------------------------------------------
(* The theorems. *)

(* FlowInv is inductive: the book's own invariant holds under the          *)
(* generator's calls too.                                                  *)
THEOREM FlowIsSound == FlowSpec => []FlowInv
<1>1. FlowInit => FlowInv
  <2> SUFFICES ASSUME FlowInit PROVE FlowInv
    OBVIOUS
  <2>1. IInv
    BY InitIInv DEF FlowInit
  <2>2. /\ live_ids = <<>> /\ next_id = 1 /\ mid = initial_mid
        /\ taker = NoTaker /\ result.status = "None" /\ InUse = {}
    BY DEF FlowInit, GenInit, Init, InUse
  <2>3. ToSet(<<>>) = {} /\ IsInjective(<<>>) /\ <<>> \in Seq(1..(1 - 1))
    BY DEF ToSet, IsInjective
  <2> QED
    BY <2>1, <2>2, <2>3, GeneratorConfig
    DEF FlowInv, DrawsKnownIds, OrdersAreValid, GeneratorTypeOK, TracksOpenOrders
<1>2. FlowInv /\ [FlowNext]_flow => FlowInv'
  <2> SUFFICES ASSUME FlowInv, [FlowNext]_flow PROVE FlowInv'
    OBVIOUS
  <2>1. CASE UNCHANGED flow
    <3>1. UNCHANGED vars /\ UNCHANGED generator
      BY <2>1 DEF flow
    <3>2. IInv'
      BY <3>1, NextIInv DEF FlowInv
    <3> QED
      BY <3>1, <3>2 DEF FlowInv, DrawsKnownIds, OrdersAreValid, GeneratorTypeOK,
                        TracksOpenOrders, vars, book, generator, InUse
  <2> QED
    BY <2>1, FeedSubmitKeeps, FeedCancelKeeps, MatchKeeps DEF FlowNext
<1> QED
  BY <1>1, <1>2, PTL DEF FlowSpec

(* However the mid walks, the generator's orders are ones the book accepts. *)
THEOREM NoOrderIsRefused == FlowSpec => []OrdersAreValid
<1>1. FlowInv => OrdersAreValid
  BY DEF FlowInv
<1> QED
  BY <1>1, FlowIsSound, PTL

(* The generator can still cancel every order that is open.                *)
THEOREM OpenOrdersAreTracked == FlowSpec => []TracksOpenOrders
<1>1. FlowInv => TracksOpenOrders
  BY DEF FlowInv
<1> QED
  BY <1>1, FlowIsSound, PTL

(* The benchmark makes legal calls only: the book it drives behaves as     *)
(* OrderBook specifies, so every theorem about that book is one about the  *)
(* generated stream.                                                       *)
THEOREM FlowDrivesTheBook == FlowSpec => Spec
<1>1. FlowInit => Init
  BY DEF FlowInit
<1>2. FlowInv /\ [FlowNext]_flow => [Next]_vars
  BY FlowStepIsBookStep
<1> QED
  BY <1>1, <1>2, FlowIsSound, PTL DEF FlowSpec, Spec

(* Every generated submit and cancel has the outcome price-time priority   *)
(* gives it.                                                               *)
THEOREM FlowRefinesPriceTime == FlowSpec => ImplementsPriceTimeBook
  BY FlowDrivesTheBook, MatchingRefinesPriceTime, PTL
=============================================================================
