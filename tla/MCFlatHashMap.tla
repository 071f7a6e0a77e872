--------------------------- MODULE MCFlatHashMap ---------------------------
(***************************************************************************)
(* FlatHashMap with as many keys as the smallest table has slots (it has   *)
(* to rehash at the seventh).  Key 1 is also overwritten with a new value. *)
(***************************************************************************)
EXTENDS FlatHashMapProps

MCKey == 1..8
MCValue == 1..9
MCValuesOf == [key \in MCKey |-> IF key = 1 THEN {1, 9} ELSE {key}]

\* Homes (modulo 8 and 16) that collide, chain into one another, and wrap
\* around the end of the arrays.
MCHashes ==
    {<<7, 7, 15, 15, 0, 6, 10, 3>>, <<0, 0, 8, 7, 15, 15, 4, 2>>,
     <<6, 14, 15, 7, 0, 1, 3, 12>>, <<1, 1, 2, 9, 10, 2, 0, 6>>,
     <<5, 6, 7, 0, 1, 13, 15, 2>>}
=============================================================================
