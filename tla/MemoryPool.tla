----------------------------- MODULE MemoryPool -----------------------------
(***************************************************************************)
(* obe::MemoryPool: storage for objects, handed out from an intrusive free *)
(* list.  A pool is a record, its operations map pools to pools, and       *)
(* mem[a] is what the slot at address a holds: a FreeNode or an object.    *)
(***************************************************************************)
EXTENDS Integers

Nil == 0      \* nullptr; the slots are 1, 2, ... in the order of allocation

FreeNode(next) == [kind |-> "free", next |-> next]

\* grow(): a new block after the others, threaded slot by slot onto the front
\* of the free list; no slot in use moves.  The next block is twice as large.
Grow(p) ==
    LET last == p.capacity + p.slots_per_block
    IN  [p EXCEPT
           !.mem = [a \in 1..last |->
               IF a <= p.capacity THEN p.mem[a]
               ELSE FreeNode(IF a = p.capacity + 1 THEN p.free_list ELSE a - 1)],
           !.free_list = last,
           !.capacity = last,
           !.slots_per_block = 2 * @]

NewPool(initial) ==
    Grow([mem |-> <<>>, free_list |-> Nil, capacity |-> 0, live_count |-> 0,
          slots_per_block |-> IF initial = 0 THEN 1 ELSE initial])

Available(p) == IF p.free_list = Nil THEN Grow(p) ELSE p

\* acquire(): the slot it hands out, and the pool with the object in it.
SlotFor(p) == Available(p).free_list
Acquire(p, object) ==
    LET q == Available(p)
    IN  [q EXCEPT !.free_list = q.mem[q.free_list].next,
                  !.mem[q.free_list] = object,
                  !.live_count = @ + 1]

ReleaseAlone(p, a) ==      \* mutant: the rest of the free list is lost
    [p EXCEPT !.mem[a] = FreeNode(Nil), !.free_list = a, !.live_count = @ - 1]
Release(p, a) ==
    IF a = Nil THEN p
    ELSE [p EXCEPT !.mem[a] = FreeNode(p.free_list),
                   !.free_list = a,
                   !.live_count = @ - 1]
=============================================================================
