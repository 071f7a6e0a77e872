------------------------------ MODULE OrderFlow ------------------------------
(***************************************************************************)
(* The benchmark's single-threaded pass: the commands of a generator are   *)
(* applied to a book, in order.  (The stream is generated up front there;  *)
(* the generator sees nothing of the book, so drawing each command when it *)
(* is applied gives the same streams.)  Traders are the config's           *)
(* num_traders participants.                                               *)
(***************************************************************************)
EXTENDS OrderBookRefinement, OrderGenerator

ASSUME FlowConstants ==
    /\ MinPrice <= tick /\ MaxMid + depth_levels * tick <= MaxPrice
    /\ max_qty <= MaxQty
    /\ OrderIds \subseteq Nat

flow == <<vars, generator>>

FlowInit == Init /\ GenInit

\* next() makes a submit, and apply() hands it to submit(), which takes it on
\* or rejects it.  OrderIds bounds the length of the stream.
FeedSubmit(m, side, trader, qty, offset, marketable) ==
    /\ next_id \in OrderIds
    /\ MakeSubmit(m)
    /\ \/ Submit(next_id, trader, side, PriceAt(m, side, offset, marketable), qty)
       \/ Reject(next_id, qty)

\* next() makes a cancel, if it believes an order to be live.
FeedCancel(idx) ==
    /\ MakeCancel(idx)
    /\ Cancel(live_ids[idx]) \/ CancelMiss(live_ids[idx])

FlowNext ==
    \/ \E m \in RandomWalk, side \in Side, trader \in Traders,
          qty \in DrawQuantity, offset \in 0..depth_levels, marketable \in BOOLEAN :
              FeedSubmit(m, side, trader, qty, offset, marketable)
    \/ \E idx \in DOMAIN live_ids : FeedCancel(idx)
    \/ Match /\ UNCHANGED generator

FlowSpec == FlowInit /\ [][FlowNext]_flow

-----------------------------------------------------------------------------
\* Type correctness of the generator.
GeneratorTypeOK ==
    /\ mid \in tick..MaxMid
    /\ next_id \in Nat \ {0}
    /\ live_ids \in Seq(1..(next_id - 1))

\* Wherever the mid walks and however far an offset reaches, the orders are
\* ones the book takes: ids are fresh, quantities positive, prices at least a
\* tick.
OrdersAreValid ==
    /\ GeneratorTypeOK
    /\ result.status # "Rejected"
    /\ taker # NoTaker => taker.price >= tick

\* The generator never loses sight of an order: whatever rests, or is being
\* matched, can still be drawn for a cancel, and nothing is tracked (or
\* cancelled) twice.  The converse does not hold: an id may have filled.
TracksOpenOrders ==
    /\ {order[slot].id : slot \in InUse} \cup {t.id : t \in {taker} \ {NoTaker}}
           \subseteq ToSet(live_ids)
    /\ IsInjective(live_ids)
==============================================================================
