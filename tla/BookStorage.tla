---------------------------- MODULE BookStorage ----------------------------
(***************************************************************************)
(* The pointers under obe::OrderBook: orders live in the pool's slots, are *)
(* threaded onto price levels and are found through the id index.  The     *)
(* actions are the places where submit(), match() and cancel() touch these *)
(* structures; which order trades with which is OrderBook's concern.       *)
(***************************************************************************)
EXTENDS PriceLevel

CONSTANTS
    OrderIds,
    Level,          \* the price levels the book may hold
    MaxQty,         \* the largest quantity of an order
    PoolCapacity    \* pool_capacity

ASSUME StorageConstants ==
    /\ MaxQty \in Nat
    /\ PoolCapacity \in Nat
    /\ NoLevel \notin Level

VARIABLES
    pool,     \* pool_
    level,    \* level[l]: the PriceLevel at l (a new one if the trees have none)
    index     \* index_: order id -> address, or Nil

vars == <<pool, level, index>>

Init ==
    /\ pool = NewPool(PoolCapacity)
    /\ level = [l \in Level |-> NewLevel]
    /\ index = [id \in OrderIds |-> Nil]

\* submit() rests a remainder: acquire, enqueue at its level, index insert.
Rest(id, l, qty) ==
    LET a == SlotFor(pool)
        p == Acquire(pool, NewOrder(id, qty))
    IN  /\ index[id] = Nil
        /\ pool'  = [p EXCEPT !.mem = EnqueueLinks(@, level[l], l, a)]
        /\ level' = [level EXCEPT ![l] = Enqueue(p.mem, @, a)]
        /\ index' = [index EXCEPT ![id] = a]

\* unlink, index erase and release of the order at a, given the memory and the
\* level as they are by then; a level left empty is erased from its tree.
Discard(mem, lv, l, a) ==
    LET left == Unlink(mem, lv, a)
    IN  /\ level' = [level EXCEPT ![l] = IF left.head = Nil THEN NewLevel ELSE left]
        /\ index' = [index EXCEPT ![mem[a].id] = Nil]
        /\ pool'  = Release([pool EXCEPT !.mem = UnlinkLinks(mem, a)], a)

\* match() trades with the front order of a level.
Trade(l, qty) ==
    LET a   == level[l].head
        mem == [pool.mem EXCEPT ![a] = Fill(@, qty)]
        lv  == OnFill(level[l], Fills(pool.mem[a], qty))
    IN  /\ a # Nil
        /\ IF mem[a].remaining = 0
           THEN Discard(mem, lv, l, a)
           ELSE /\ pool'  = [pool EXCEPT !.mem = mem]
                /\ level' = [level EXCEPT ![l] = lv]
                /\ UNCHANGED index

\* cancel(), and match() when it cancels the taker's own resting order.
Cancel(id) ==
    LET a == index[id]
        l == pool.mem[a].level
    IN  a # Nil /\ Discard(pool.mem, level[l], l, a)

Next ==
    \/ \E id \in OrderIds, l \in Level, qty \in 1..MaxQty : Rest(id, l, qty)
    \/ \E l \in Level, qty \in 1..MaxQty : Trade(l, qty)
    \/ \E id \in OrderIds : Cancel(id)

Spec == Init /\ [][Next]_vars
=============================================================================
