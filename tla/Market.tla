------------------------------- MODULE Market -------------------------------
(***************************************************************************)
(* Vocabulary of the engine (Types.hpp): sides, self-trade policies and    *)
(* the two price comparisons everything else is built from.                *)
(***************************************************************************)
EXTENDS Integers

Side == {"Buy", "Sell"}

SelfTradePolicy == {"None", "CancelResting", "CancelAggressing"}

Opposite(side) == IF side = "Buy" THEN "Sell" ELSE "Buy"

\* Does an order of `side' limited at `limit' cross a resting price?
Crosses(side, limit, resting) ==
    IF side = "Buy" THEN resting <= limit ELSE resting >= limit

\* The order of the keys of bids_ (std::greater) and asks_ (std::less):
\* p comes before q, that is, p is the more aggressive price.
Better(side, p, q) == IF side = "Buy" THEN p > q ELSE p < q

=============================================================================
