----------------------------- MODULE OrderQueues -----------------------------
(***************************************************************************)
(* What the storage under the book promises: a FIFO queue of orders for    *)
(* each level, found by id, filled at the front.                           *)
(***************************************************************************)
EXTENDS Integers, SequencesExt

CONSTANTS OrderIds, Level, MaxQty

VARIABLE queue      \* queue[level]: [id, remaining] of its orders, oldest first

Init == queue = [l \in Level |-> <<>>]

Resting(id) == \E l \in Level : \E k \in 1..Len(queue[l]) : queue[l][k].id = id

Rest(id, l, qty) ==
    /\ ~Resting(id)
    /\ queue' = [queue EXCEPT ![l] = Append(@, [id |-> id, remaining |-> qty])]

Trade(l, qty) ==
    /\ queue[l] # <<>>
    /\ queue' = [queue EXCEPT ![l] =
           IF qty >= Head(@).remaining THEN Tail(@)
           ELSE [@ EXCEPT ![1].remaining = @ - qty]]

Cancel(l, k) == queue' = [queue EXCEPT ![l] = RemoveAt(@, k)]

Next ==
    \/ \E id \in OrderIds, l \in Level, qty \in 1..MaxQty : Rest(id, l, qty)
    \/ \E l \in Level, qty \in 1..MaxQty : Trade(l, qty)
    \/ \E l \in Level : \E k \in 1..Len(queue[l]) : Cancel(l, k)

Spec == Init /\ [][Next]_queue
=============================================================================
