------------------------------ MODULE OrderBook ------------------------------
(***************************************************************************)
(* obe::OrderBook: price-time matching over two price trees, an id index   *)
(* and a pool of Order objects.  One thread drives the book, so submit()   *)
(* and cancel() never interleave; submit() is written as the steps of its  *)
(* matching loop (one action per iteration of match(), then the return),   *)
(* and no other call starts until the taker's locals are gone.             *)
(*                                                                         *)
(* A price level's intrusive list is its sequence of order slots, the id   *)
(* index is a map, and the pool is the set of slots that hold an Order.    *)
(***************************************************************************)
EXTENDS Market, Sequences, FiniteSets, SequencesExt

CONSTANTS
    OrderIds,           \* ids a caller may use
    Traders,
    MinPrice, MaxPrice, \* the range of Price (int64 in the code)
    MaxQty,             \* the largest quantity submitted (uint64 in the code)
    MaxSeq,             \* bound: no submit() once next_seq_ exceeds it
    Slots,              \* storage for one Order each
    NoSlot,             \* index_.find() found nothing
    NoOrder,            \* a slot that holds no Order
    NoTaker,            \* no submit() in progress
    Stp                 \* stp_, fixed by the constructor

Price == MinPrice..MaxPrice

Level == [side : Side, price : Price]

Order == [id : OrderIds, trader : Traders, side : Side, price : Price,
          quantity : 1..MaxQty, remaining : 1..MaxQty, sequence : Nat \ {0},
          level : Level]

Taker == [id : OrderIds, trader : Traders, side : Side, price : Price,
          quantity : 1..MaxQty, remaining : 0..MaxQty]

Trade == [price : Price, quantity : 1..MaxQty, taker_id : OrderIds,
          maker_id : OrderIds, taker_trader : Traders, maker_trader : Traders,
          taker_side : Side]

SubmitStatus == {"None", "Rested", "FullyFilled", "PartiallyFilled",
                 "CancelledBySelfTrade", "Rejected", "Removed", "NotFound"}

Result == [status : SubmitStatus, filled : 0..MaxQty, resting : 0..MaxQty,
           trade_count : Nat]

ASSUME BookConstants ==
    /\ MinPrice \in Int /\ MaxPrice \in Int
    /\ MaxQty \in Nat /\ MaxSeq \in Nat
    /\ Stp \in SelfTradePolicy
    /\ NoSlot \notin Slots
    /\ NoOrder \notin Order
    /\ NoTaker \notin Taker

VARIABLES
    levels,     \* levels[side]: the keys of bids_ / asks_
    queue,      \* queue[side][price]: the level's orders, oldest first
    total,      \* total[side][price]: the level's total_qty_
    order,      \* order[slot]: the Order in the slot, or NoOrder
    live,       \* the pool's live_count()
    index,      \* index_: order id -> slot
    nextSeq,    \* next_seq_
    trades,     \* trades_
    taker,      \* the locals of the submit() in progress
    result      \* what the latest call returned

book == <<levels, queue, total, order, live, index, nextSeq>>
vars == <<book, trades, taker, result>>

Returns(status, filled, resting, count) ==
    result' = [status |-> status, filled |-> filled, resting |-> resting,
               trade_count |-> count]

Init ==
    /\ levels  = [side \in Side |-> {}]
    /\ queue   = [side \in Side |-> [price \in Price |-> <<>>]]
    /\ total   = [side \in Side |-> [price \in Price |-> 0]]
    /\ order   = [slot \in Slots |-> NoOrder]
    /\ live    = 0
    /\ index   = [id \in OrderIds |-> NoSlot]
    /\ nextSeq = 1
    /\ trades  = <<>>
    /\ taker   = NoTaker
    /\ result  = [status |-> "None", filled |-> 0, resting |-> 0, trade_count |-> 0]

-----------------------------------------------------------------------------
(* Top-of-book and depth queries. *)

WorstFirst(side) ==    \* mutant: the tree's comparator is the other one
    CHOOSE p \in levels[side] : \A q \in levels[side] : ~Better(side, p, q)

\* begin() of the side's tree; meaningful while the tree has a key.
Best(side) ==
    CHOOSE p \in levels[side] : \A q \in levels[side] : ~Better(side, q, p)

QuantityAt(side, price) ==
    IF price \in levels[side] THEN total[side][price] ELSE 0

\* The level the taker faces next, and its oldest order (level.front()).
Facing == [side |-> Opposite(taker.side), price |-> Best(Opposite(taker.side))]
Oldest == Head(queue[Facing.side][Facing.price])

-----------------------------------------------------------------------------
(* Steps shared by the handlers. *)

ClearTrades == trades' = <<>>

\* PriceLevel::enqueue: the youngest order goes to the tail.
EnqueueAtFront(orders, slot) == <<slot>> \o orders      \* mutant: at the head
Enqueue(orders, slot) == Append(orders, slot)

\* PriceLevel::unlink: the order is spliced out, wherever it is.
UnlinkFront(orders, slot) == Tail(orders)      \* mutant: pops the head
Unlink(orders, slot) ==
    LET pos == CHOOSE k \in DOMAIN orders : orders[k] = slot
    IN  RemoveAt(orders, pos)

\* A tree's keys once the level at price is left with these orders.
KeysKept(keys, price, orders) == keys      \* mutant: empty levels stay
KeysAfter(keys, price, orders) == IF orders = <<>> THEN keys \ {price} ELSE keys

\* A level's total_qty_ goes down by amount (on_fill, unlink).
DeductNothing(lv, amount) == total' = total      \* mutant: aggregate forgotten
Deduct(lv, amount) == total' = [total EXCEPT ![lv.side][lv.price] = @ - amount]

\* MemoryPool::release of the slot's Order.
ReleaseUncounted(slot) ==      \* mutant: live_ is not decremented
    order' = [order EXCEPT ![slot] = NoOrder] /\ live' = live
Release(slot) == order' = [order EXCEPT ![slot] = NoOrder] /\ live' = live - 1

\* Unlink, index erase and release of one resting order, and the erase of its
\* level when that was its last order.
RemoveOrder(slot, id, lv) ==
    LET rest == Unlink(queue[lv.side][lv.price], slot)
    IN  /\ queue'  = [queue EXCEPT ![lv.side][lv.price] = rest]
        /\ levels' = [levels EXCEPT ![lv.side] = KeysAfter(@, lv.price, rest)]
        /\ index'  = [index EXCEPT ![id] = NoSlot]
        /\ Release(slot)

\* The book has a level the taker's limit crosses (the guards of match()).
Marketable ==
    /\ taker.remaining > 0
    /\ levels[Opposite(taker.side)] # {}
    /\ Crosses(taker.side, taker.price, Best(Opposite(taker.side)))

NeverOwn(slot) == FALSE      \* mutant: no self-trade prevention
OwnOrder(slot) == Stp # "None" /\ order[slot].trader = taker.trader

TakesAll(maker) == taker.remaining      \* mutant: not clamped to the maker
TradeSize(maker) ==
    IF taker.remaining < maker.remaining THEN taker.remaining ELSE maker.remaining

\* Order::fill by the traded quantity.
Requeued(maker, traded) ==      \* mutant: a partial fill is stamped again
    [maker EXCEPT !.remaining = @ - traded, !.sequence = nextSeq]
Reduced(maker, traded) == [maker EXCEPT !.remaining = @ - traded]

-----------------------------------------------------------------------------
(* submit() *)

\* A zero quantity or an id that is resting is refused.
Reject(id, quantity) ==
    /\ taker = NoTaker
    /\ quantity = 0 \/ index[id] # NoSlot
    /\ ClearTrades
    /\ Returns("Rejected", 0, 0, 0)
    /\ UNCHANGED <<book, taker>>

Submit(id, trader, side, price, quantity) ==
    /\ taker = NoTaker
    /\ nextSeq <= MaxSeq
    /\ quantity > 0
    /\ index[id] = NoSlot
    /\ ClearTrades
    /\ taker' = [id |-> id, trader |-> trader, side |-> side, price |-> price,
                 quantity |-> quantity, remaining |-> quantity]
    /\ UNCHANGED <<book, result>>

MeetsOwn == taker # NoTaker /\ Marketable /\ OwnOrder(Oldest)

\* STP = CancelResting: the taker's own resting order goes, matching goes on.
CancelResting ==
    /\ Stp = "CancelResting"
    /\ RemoveOrder(Oldest, order[Oldest].id, Facing)
    /\ Deduct(Facing, order[Oldest].remaining)
    /\ UNCHANGED <<nextSeq, trades, taker, result>>

BreaksInnerLoop ==      \* mutant: leaves the inner loop only, not match()
    Stp = "CancelAggressing" /\ UNCHANGED vars

\* STP = CancelAggressing: the rest of the taker is abandoned.
CancelAggressing ==
    /\ Stp = "CancelAggressing"
    /\ Returns("CancelledBySelfTrade", taker.quantity - taker.remaining, 0,
               Len(trades))
    /\ taker' = NoTaker
    /\ UNCHANGED <<book, trades>>

\* Self-trade prevention, when the loop meets an order of the taker's own.
PreventSelfTrade ==
    /\ MeetsOwn
    /\ CancelResting \/ CancelAggressing

\* One trade with the front order, at the front order's price; a front order
\* that is used up leaves its level, the index and the pool.
Fill ==
    LET maker  == order[Oldest]
        traded == TradeSize(maker)
    IN  /\ taker # NoTaker
        /\ Marketable
        /\ ~OwnOrder(Oldest)
        /\ trades' = Append(trades,
               [price |-> maker.price, quantity |-> traded,
                taker_id |-> taker.id, maker_id |-> maker.id,
                taker_trader |-> taker.trader, maker_trader |-> maker.trader,
                taker_side |-> taker.side])
        /\ taker' = [taker EXCEPT !.remaining = @ - traded]
        /\ Deduct(Facing, traded)
        /\ IF traded = maker.remaining
           THEN RemoveOrder(Oldest, maker.id, Facing)
           ELSE /\ order' = [order EXCEPT ![Oldest] = Reduced(maker, traded)]
                /\ UNCHANGED <<levels, queue, live, index>>
        /\ UNCHANGED <<nextSeq, result>>

FullyFilled ==
    /\ taker # NoTaker
    /\ taker.remaining = 0
    /\ Returns("FullyFilled", taker.quantity, 0, Len(trades))
    /\ taker' = NoTaker
    /\ UNCHANGED <<book, trades>>

\* The remainder becomes an Order: a pool slot, the next sequence number, the
\* tail of its level (try_emplace makes a new level if there is none), an
\* index entry.
Rest(slot) ==
    LET side   == taker.side
        price  == taker.price
        filled == taker.quantity - taker.remaining
        behind == IF price \in levels[side] THEN queue[side][price] ELSE <<>>
        depth  == QuantityAt(side, price)
    IN  /\ taker # NoTaker
        /\ taker.remaining > 0
        /\ ~Marketable
        /\ order[slot] = NoOrder
        /\ order' = [order EXCEPT ![slot] =
               [id |-> taker.id, trader |-> taker.trader, side |-> side,
                price |-> price, quantity |-> taker.remaining,
                remaining |-> taker.remaining, sequence |-> nextSeq,
                level |-> [side |-> side, price |-> price]]]
        /\ live' = live + 1
        /\ nextSeq' = nextSeq + 1
        /\ levels' = [levels EXCEPT ![side] = @ \cup {price}]
        /\ queue' = [queue EXCEPT ![side][price] = Enqueue(behind, slot)]
        /\ total' = [total EXCEPT ![side][price] = depth + taker.remaining]
        /\ index' = [index EXCEPT ![taker.id] = slot]
        /\ Returns(IF filled > 0 THEN "PartiallyFilled" ELSE "Rested",
                   filled, taker.remaining, Len(trades))
        /\ taker' = NoTaker
        /\ UNCHANGED trades

-----------------------------------------------------------------------------
(* cancel() *)

\* The order is spliced out of the level its level_ pointer names.
Cancel(id) ==
    LET slot == index[id]
        lv   == order[slot].level
    IN  /\ taker = NoTaker
        /\ slot # NoSlot
        /\ RemoveOrder(slot, id, lv)
        /\ Deduct(lv, order[slot].remaining)
        /\ Returns("Removed", 0, 0, 0)
        /\ UNCHANGED <<nextSeq, trades, taker>>

CancelMiss(id) ==
    /\ taker = NoTaker
    /\ index[id] = NoSlot
    /\ Returns("NotFound", 0, 0, 0)
    /\ UNCHANGED <<book, trades, taker>>

-----------------------------------------------------------------------------
Call ==
    \/ \E id \in OrderIds, quantity \in 0..MaxQty : Reject(id, quantity)
    \/ \E id \in OrderIds, trader \in Traders, side \in Side, price \in Price,
          quantity \in 0..MaxQty : Submit(id, trader, side, price, quantity)
    \/ \E id \in OrderIds : Cancel(id)
    \/ \E id \in OrderIds : CancelMiss(id)

Match ==
    \/ PreventSelfTrade
    \/ Fill
    \/ FullyFilled
    \/ \E slot \in Slots : Rest(slot)

Next == Call \/ Match

Spec == Init /\ [][Next]_vars
==============================================================================
