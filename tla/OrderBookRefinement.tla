------------------------- MODULE OrderBookRefinement -------------------------
(***************************************************************************)
(* OrderBook implements PriceTimeBook.  The abstract call takes effect     *)
(* when submit() accepts its order; from then on the outcome of what is    *)
(* left of the taker, on what is left of the book, added to what already   *)
(* happened, must stay the same at every step of the matching loop.        *)
(***************************************************************************)
EXTENDS OrderBookProps

Priority == INSTANCE PriceTimePriority

OnBook ==
    {[id |-> order[slot].id, trader |-> order[slot].trader,
      side |-> order[slot].side, price |-> order[slot].price,
      remaining |-> order[slot].remaining,
      sequence |-> order[slot].sequence] : slot \in InUse}

\* snapshot(): the trees walked best price first, bids then asks, each level
\* from its oldest order on.
Snapshot ==
    LET Prices(side) == SetToSortSeq(levels[side], LAMBDA p, q : Better(side, p, q))
        Row(slot, side, price) ==
            [side |-> side, price |-> price, id |-> order[slot].id,
             remaining |-> order[slot].remaining, sequence |-> order[slot].sequence]
        Rows(side, price) ==
            [k \in DOMAIN queue[side][price] |-> Row(queue[side][price][k], side, price)]
        Walk(side) ==
            FlattenSeq([k \in DOMAIN Prices(side) |-> Rows(side, Prices(side)[k])])
    IN  Walk("Buy") \o Walk("Sell")

\* `Two books with identical snapshots are bit-for-bit equal in resting state':
\* snapshot() lists every resting order once, under its own side and price, in
\* strict price-time priority, so that the set of orders determines it.
SnapshotIsTheBook ==
    LET Before(m, n) == IF m.side = n.side THEN Priority!Ahead(m, n) ELSE m.side = "Buy"
    IN  Snapshot = SetToSortSeq(
            {[side |-> m.side, price |-> m.price, id |-> m.id, remaining |-> m.remaining,
              sequence |-> m.sequence] : m \in OnBook}, Before)

Returned == taker = NoTaker

restingBar == IF Returned THEN OnBook ELSE Priority!After(OnBook, taker, nextSeq)

tradesBar ==
    IF Returned THEN trades ELSE trades \o Priority!TradesOf(OnBook, taker)

nextSeqBar ==
    IF Returned \/ ~Priority!Rests(OnBook, taker) THEN nextSeq ELSE nextSeq + 1

resultBar ==
    IF Returned THEN result
    ELSE [status      |-> Priority!StatusOf(OnBook, taker),
          filled      |-> taker.quantity - Priority!Left(OnBook, taker),
          resting     |-> IF Priority!Rests(OnBook, taker)
                          THEN Priority!Left(OnBook, taker) ELSE 0,
          trade_count |-> Len(tradesBar)]

Promise == INSTANCE PriceTimeBook
    WITH resting <- restingBar, trades <- tradesBar,
         nextSeq <- nextSeqBar, result <- resultBar

\* Every submit() and cancel() has the outcome the loop-free specification
\* gives it: the same trades in the same order, the same book, the same result.
ImplementsPriceTimeBook == Promise!Spec
==============================================================================
