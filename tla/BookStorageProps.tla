-------------------------- MODULE BookStorageProps --------------------------
(***************************************************************************)
(* What has to hold of the storage under the book.                         *)
(***************************************************************************)
EXTENDS BookStorage, SequencesExt, FiniteSetsExt

\* The addresses met from start along the pointer field, up to the first Nil (a
\* cyclic list gives more addresses than there are slots).
Chain(start, field) ==
    LET follow == [a \in 0..pool.capacity |->
            IF a = Nil \/ field \notin DOMAIN pool.mem[a] THEN Nil ELSE pool.mem[a][field]]
        met[n \in 0..pool.capacity] == IF n = 0 THEN start ELSE follow[met[n - 1]]
    IN  SelectSeq([n \in 1..(pool.capacity + 1) |-> met[n - 1]], LAMBDA a : a # Nil)

\* for_each(): the orders of a level, oldest first.
Queue(l) == Chain(level[l].head, "next")

Holding(kind) == {a \in 1..pool.capacity : pool.mem[a].kind = kind}

\* Type correctness.
TypeOK ==
    /\ DOMAIN pool.mem = 1..pool.capacity
    /\ pool.free_list \in 0..pool.capacity
    /\ pool.live_count \in 0..pool.capacity
    /\ level \in [Level -> [head : 0..pool.capacity, tail : 0..pool.capacity,
                            count : 0..pool.capacity, total_qty : 0..(Word - 1)]]
    /\ index \in [OrderIds -> 0..pool.capacity]

\* No slot is in two places: the free list runs once through every free slot,
\* and every other slot holds the order of exactly one id of the index.
\* acquire() can therefore not hand out a slot in use, nor lose one.
SlotsPartitioned ==
    LET free == Chain(pool.free_list, "next")
    IN  /\ TypeOK
        /\ IsInjective(free)
        /\ ToSet(free) = Holding("free")
        /\ pool.live_count = Cardinality(Holding("order"))
        /\ \A a \in Holding("order") : index[pool.mem[a].id] = a
        /\ \A id \in OrderIds : index[id] # Nil => index[id] \in Holding("order")

\* A level's list is the same from both ends, its nodes point back to the
\* level, and it is as long as count_ says; every order is on one list.  One
\* unlink() of the wrong node, or of a node twice, would break this.
ListsLinked ==
    /\ \A l \in Level :
         /\ Chain(level[l].tail, "prev") = Reverse(Queue(l))
         /\ Len(Queue(l)) = level[l].count
         /\ \A k \in 1..Len(Queue(l)) : pool.mem[Queue(l)[k]].level = l
    /\ UNION {ToSet(Queue(l)) : l \in Level} = Holding("order")

\* total_qty_ is the sum of what remains, modulo the word: a sum that wraps
\* does not spoil the aggregate for good, whatever trades or leaves later.
DepthWraps ==
    \A l \in Level :
        level[l].total_qty =
            MapThenSumSet(LAMBDA a : pool.mem[a].remaining, ToSet(Queue(l))) % Word

\* Followed from head_ along next_, the lists are the FIFO queues the book
\* takes them for, across growth of the pool and reuse of slots.
Queues == INSTANCE OrderQueues WITH
    queue <- [l \in Level |->
                LET q == Queue(l)
                IN  [k \in 1..Len(q) |-> [id |-> pool.mem[q[k]].id,
                                          remaining |-> pool.mem[q[k]].remaining]]]
ImplementsQueues == Queues!Spec
=============================================================================
