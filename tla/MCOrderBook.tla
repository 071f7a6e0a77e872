---------------------------- MODULE MCOrderBook ----------------------------
(***************************************************************************)
(* OrderBook on a small instance.                                          *)
(***************************************************************************)
EXTENDS OrderBookRefinement, TLC

Symmetry == Permutations(OrderIds) \cup Permutations(Slots) \cup Permutations(Traders)
=============================================================================
