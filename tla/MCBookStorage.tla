--------------------------- MODULE MCBookStorage ---------------------------
(***************************************************************************)
(* BookStorage on a small instance: a pool of one slot that has to grow    *)
(* twice, and levels whose quantity wraps.                                 *)
(***************************************************************************)
EXTENDS BookStorageProps

Symmetry == Permutations(OrderIds) \cup Permutations(Level)
=============================================================================
