----------------------------- MODULE PriceLevel -----------------------------
(***************************************************************************)
(* obe::PriceLevel and the parts of obe::Order it works on: a FIFO list    *)
(* threaded through the orders' prev_ and next_ pointers, and the number   *)
(* and quantity of its orders, kept up to date.  Each operation is what it *)
(* does to the memory (...Links) and to the level's own fields.            *)
(***************************************************************************)
EXTENDS MemoryPool

CONSTANTS
    Word,       \* Quantity counts modulo Word (2^64 in the code)
    NoLevel     \* level_ of an order that is not enqueued

ASSUME LevelConstants == Word \in Nat \ {0}

NewOrder(id, qty) ==
    [kind |-> "order", prev |-> Nil, next |-> Nil, level |-> NoLevel,
     id |-> id, remaining |-> qty]

NewLevel == [head |-> Nil, tail |-> Nil, count |-> 0, total_qty |-> 0]

\* Order::fill(): clamped to what remains.
Fills(order, qty) == IF qty < order.remaining THEN qty ELSE order.remaining
Fill(order, qty) == [order EXCEPT !.remaining = @ - Fills(order, qty)]

\* `a->field = b', for an a that may be null.
PointTo(mem, a, field, b) == IF a = Nil THEN mem ELSE [mem EXCEPT ![a][field] = b]

\* enqueue() at the tail of the level at address l.
EnqueueLinks(mem, lv, l, a) ==
    PointTo([mem EXCEPT ![a].level = l, ![a].prev = lv.tail, ![a].next = Nil],
            lv.tail, "next", a)
Enqueue(mem, lv, a) ==
    [head |-> IF lv.tail = Nil THEN a ELSE lv.head, tail |-> a,
     count |-> lv.count + 1,
     total_qty |-> (lv.total_qty + mem[a].remaining) % Word]

\* unlink() of an order anywhere in the list.
ForwardOnly(mem, a) ==      \* mutant: the next order keeps its old prev_
    PointTo(mem, mem[a].prev, "next", mem[a].next)
CutsOff(mem, a) ==      \* mutant: the orders behind are lost
    PointTo(PointTo(mem, mem[a].prev, "next", Nil), mem[a].next, "prev", Nil)
UnlinkLinks(mem, a) ==
    [PointTo(PointTo(mem, mem[a].prev, "next", mem[a].next),
             mem[a].next, "prev", mem[a].prev)
     EXCEPT ![a].prev = Nil, ![a].next = Nil, ![a].level = NoLevel]
Unlink(mem, lv, a) ==
    [head |-> IF mem[a].prev = Nil THEN mem[a].next ELSE lv.head,
     tail |-> IF mem[a].next = Nil THEN mem[a].prev ELSE lv.tail,
     count |-> lv.count - 1,
     total_qty |-> (lv.total_qty - mem[a].remaining) % Word]

IgnoresFill(lv, traded) == lv      \* mutant: the aggregate is forgotten
OnFill(lv, traded) == [lv EXCEPT !.total_qty = (@ - traded) % Word]
=============================================================================
