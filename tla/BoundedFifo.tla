----------------------------- MODULE BoundedFifo -----------------------------
(***************************************************************************)
(* What a single-producer single-consumer queue promises: items come out   *)
(* once each, in the order they went in, and never more than Capacity of   *)
(* them are inside.  The producer sends 1, 2, 3, ...                       *)
(***************************************************************************)
EXTENDS Naturals, Sequences

CONSTANT Capacity

VARIABLES
    q,      \* the items inside, oldest first
    sent,   \* how many items went in
    got,    \* the item taken last
    open    \* FALSE once the queue is destroyed

vars == <<q, sent, got, open>>

Init == q = <<>> /\ sent = 0 /\ got = 0 /\ open = TRUE

Put ==
    /\ open /\ Len(q) < Capacity
    /\ q' = Append(q, sent + 1)
    /\ sent' = sent + 1
    /\ UNCHANGED <<got, open>>

Get ==
    /\ open /\ q # <<>>
    /\ got' = Head(q)
    /\ q' = Tail(q)
    /\ UNCHANGED <<sent, open>>

Close ==
    /\ open
    /\ open' = FALSE
    /\ q' = <<>>
    /\ UNCHANGED <<sent, got>>

Spec == Init /\ [][Put \/ Get \/ Close]_vars
==============================================================================
