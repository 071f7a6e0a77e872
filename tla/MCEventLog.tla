------------------------------ MODULE MCEventLog ------------------------------
(***************************************************************************)
(* EventLog on a small instance.                                           *)
(***************************************************************************)
EXTENDS EventLogProps, TLC

Symmetry == Permutations(Commands)
==============================================================================
