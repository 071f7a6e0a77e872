------------------------------- MODULE IdMap -------------------------------
(***************************************************************************)
(* What the order index promises the book: a partial map from keys to      *)
(* values and the number of its entries.                                   *)
(***************************************************************************)
EXTENDS Naturals

CONSTANTS
    Key,
    ValuesOf,    \* ValuesOf[key]: the values a caller stores under key
    NoValue      \* the key is absent

VARIABLES contents, count

Init == contents = [key \in Key |-> NoValue] /\ count = 0

Insert(key, value) ==
    /\ contents' = [contents EXCEPT ![key] = value]
    /\ count' = IF contents[key] = NoValue THEN count + 1 ELSE count

Erase(key) ==
    /\ contents[key] # NoValue
    /\ contents' = [contents EXCEPT ![key] = NoValue]
    /\ count' = count - 1

Next ==
    \/ \E key \in Key : \E value \in ValuesOf[key] : Insert(key, value)
    \/ \E key \in Key : Erase(key)

Spec == Init /\ [][Next]_<<contents, count>>
=============================================================================
