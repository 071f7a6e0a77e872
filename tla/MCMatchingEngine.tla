--------------------------- MODULE MCMatchingEngine ---------------------------
(***************************************************************************)
(* MatchingEngine on a small instance: buys and sells that cross, an       *)
(* oversized order, a reused id, an empty order and a cancel.              *)
(***************************************************************************)
EXTENDS MatchingEngineProps

CONSTANTS o1, o2, t1, t2

Limit(id, trader, side, price, quantity) ==
    [type |-> "Submit", id |-> id, trader |-> trader, side |-> side, price |-> price,
     quantity |-> quantity]

MCSubmits == {Limit(o1, t1, "Buy", 2, 2), Limit(o2, t2, "Sell", 1, 1),
              Limit(o2, t1, "Sell", 2, 3), Limit(o1, t2, "Buy", 1, 0)}

MCCancels == {[type |-> "Cancel", id |-> o1]}

MCShutdown == [type |-> "Shutdown"]
==============================================================================
