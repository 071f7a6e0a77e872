---------------------------- MODULE MCOrderFlow ----------------------------
(***************************************************************************)
(* OrderFlow on a small instance.                                          *)
(***************************************************************************)
EXTENDS OrderFlow

Symmetry == Permutations(Slots) \cup Permutations(Traders)
=============================================================================
