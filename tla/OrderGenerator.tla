--------------------------- MODULE OrderGenerator ---------------------------
(***************************************************************************)
(* obe::OrderGenerator: the order flow of the benchmark and of the stress  *)
(* tests.  Each pseudo-random draw is any outcome its distribution has.    *)
(***************************************************************************)
EXTENDS Integers, SequencesExt

CONSTANTS initial_mid, tick, depth_levels, max_qty,      \* GeneratorConfig
    MaxMid      \* bound: the mid price does not walk above it

ASSUME GeneratorConfig ==
    /\ tick \in Nat \ {0}
    /\ initial_mid \in tick..MaxMid
    /\ depth_levels \in Nat
    /\ max_qty \in Nat \ {0}
    /\ MaxMid \in Nat

VARIABLES
    mid,        \* mid_
    next_id,    \* next_id_
    live_ids    \* live_ids_

generator == <<mid, next_id, live_ids>>

GenInit == mid = initial_mid /\ next_id = 1 /\ live_ids = <<>>

NoFloor(price) == price      \* mutant: no floor
AtLeastATick(price) == IF price < tick THEN tick ELSE price

\* random_walk_mid(): stay, or one tick up or down.
RandomWalk == {mid} \cup {AtLeastATick(mid + tick), AtLeastATick(mid - tick)}

\* draw_quantity(): one or more, clamped (the bound stands for all above it).
DrawQuantity == {IF q < max_qty THEN q ELSE max_qty : q \in 1..(max_qty + 1)}

\* A marketable order reaches across the mid, a passive one stays on its side.
PriceAt(m, side, offset, marketable) ==
    AtLeastATick(IF (side = "Buy") = marketable THEN m + offset * tick
                                                ELSE m - offset * tick)

\* make_submit(): the draws; the id is next_id_ before the call.
MakeSubmit(m) ==
    /\ m \in RandomWalk
    /\ m <= MaxMid
    /\ mid' = m
    /\ next_id' = next_id + 1
    /\ live_ids' = Append(live_ids, next_id)

PopsTheBack(idx) == live_ids' = Front(live_ids)      \* mutant: no swap
SwapAndPop(idx) == live_ids' = Front([live_ids EXCEPT ![idx] = Last(live_ids)])

\* make_cancel(): the id drawn is live_ids[idx].
MakeCancel(idx) ==
    /\ idx \in DOMAIN live_ids
    /\ SwapAndPop(idx)
    /\ UNCHANGED <<mid, next_id>>
=============================================================================
