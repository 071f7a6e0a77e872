---------------------------- MODULE OrderBookProps ----------------------------
(***************************************************************************)
(* What must be true of OrderBook.  The parts that the proofs use are      *)
(* separate definitions.                                                   *)
(***************************************************************************)
EXTENDS OrderBook

\* Every variable keeps its type; trades and locals included.
TypeOK ==
    /\ levels  \in [Side -> SUBSET Price]
    /\ queue   \in [Side -> [Price -> Seq(Slots)]]
    /\ total   \in [Side -> [Price -> Int]]
    /\ order   \in [Slots -> Order \cup {NoOrder}]
    /\ live    \in Int
    /\ index   \in [OrderIds -> Slots \cup {NoSlot}]
    /\ nextSeq \in Nat \ {0}
    /\ trades  \in Seq(Trade)
    /\ taker   \in Taker \cup {NoTaker}
    /\ result  \in Result

-----------------------------------------------------------------------------
(* The index, the levels and the pool hold the same orders. *)

InUse == {slot \in Slots : order[slot] # NoOrder}

\* An indexed slot holds the order of that id, and every order is indexed.
IndexSound ==
    \A id \in OrderIds :
        index[id] # NoSlot => index[id] \in InUse /\ order[index[id]].id = id

IndexComplete == \A slot \in InUse : index[order[slot].id] = slot

\* A queue holds orders of its own side and price, whose back-pointer names it.
QueueSound ==
    \A side \in Side, price \in Price :
        \A k \in DOMAIN queue[side][price] :
            LET slot == queue[side][price][k]
            IN  /\ slot \in InUse
                /\ order[slot].side = side
                /\ order[slot].price = price
                /\ order[slot].level = [side |-> side, price |-> price]

QueueComplete ==
    \A slot \in InUse :
        \E k \in DOMAIN queue[order[slot].side][order[slot].price] :
            queue[order[slot].side][order[slot].price][k] = slot

\* No dangling or forgotten Order: a slot is in use exactly when its id is
\* indexed and its level lists it (level_, index_ and pool_ agree at every
\* step of submit() and cancel()).
StructuresAgree == IndexSound /\ IndexComplete /\ QueueSound /\ QueueComplete

\* The pool leaks nothing: live_count() is order_count() (what the stress test
\* asserts at the end of a run, here after every step).
NoLeak == live = Cardinality({id \in OrderIds : index[id] # NoSlot})

\* A price is a key of its tree exactly while some order rests there, so
\* begin() is never an exhausted level (front() would be null).
NoEmptyLevel ==
    \A side \in Side, price \in Price :
        price \in levels[side] <=> queue[side][price] # <<>>

-----------------------------------------------------------------------------
(* Priority, crossing, quantities. *)

\* Sequence numbers rise along every queue: partial fills and cancels from the
\* middle never let a younger order get in front (matching is FIFO per level).
TimePriority ==
    \A side \in Side, price \in Price :
        \A j, k \in DOMAIN queue[side][price] :
            j < k => order[queue[side][price][j]].sequence
                       < order[queue[side][price][k]].sequence

\* next_seq_ is above every sequence number on the book.
SequenceFresh == \A slot \in InUse : order[slot].sequence < nextSeq

\* The book is never crossed, whatever was submitted, cancelled or prevented:
\* every resting bid is below every resting ask.
NotCrossed == \A bid \in levels["Buy"], ask \in levels["Sell"] : bid < ask

RemainingIn(side, price) ==
    MapThenSumSet(LAMBDA slot : order[slot].remaining,
                  {slot \in InUse : order[slot].level = [side |-> side, price |-> price]})

\* quantity_at() is the sum of the remaining quantities at that price: the
\* incremental aggregate (enqueue adds, on_fill and unlink subtract) is exact.
DepthIsSum ==
    \A side \in Side, price \in Price :
        QuantityAt(side, price) = RemainingIn(side, price)

\* Unless the policy is None, no trade has the same trader on both sides.
NoSelfTrade ==
    Stp # "None" =>
        \A k \in DOMAIN trades : trades[k].taker_trader # trades[k].maker_trader

-----------------------------------------------------------------------------
(* The inductive invariant: everything above that one step of the loop needs *)
(* of the one before.                                                        *)

BookTypeOK ==
    /\ levels  \in [Side -> SUBSET Price]
    /\ queue   \in [Side -> [Price -> Seq(Slots)]]
    /\ order   \in [Slots -> Order \cup {NoOrder}]
    /\ index   \in [OrderIds -> Slots \cup {NoSlot}]
    /\ nextSeq \in Nat \ {0}

BookInv ==
    /\ StructuresAgree
    /\ NoEmptyLevel
    /\ TimePriority
    /\ SequenceFresh
    /\ NotCrossed

\* The order being matched is not on the book yet, and only shrinks.
TakerInv ==
    taker # NoTaker => /\ index[taker.id] = NoSlot
                       /\ taker.remaining <= taker.quantity

IInv == TypeOK /\ BookInv /\ TakerInv

-----------------------------------------------------------------------------
(* What a step may never do. *)

\* a and b rest on one side and a is ahead of b in price, then in time.
AheadOf(a, b) ==
    \/ Better(a.side, a.price, b.price)
    \/ a.price = b.price /\ a.sequence < b.sequence

\* Strict price-time priority: a resting order trades only when no order of its
\* side is ahead of it.
BestTradesFirst ==
    \A slot \in InUse :
        Len(trades') > Len(trades) /\ order'[slot] # order[slot]
            => \A other \in InUse :
                   order[other].side = order[slot].side
                     => ~AheadOf(order[other], order[slot])

PriceTimeOrder == [][BestTradesFirst]_vars

\* A resting order keeps its place: nothing but its remaining quantity ever
\* changes, that only falls, and only a trade of exactly that size lowers it.
KeepsPlace ==
    \A slot \in InUse :
        order'[slot] # NoOrder =>
            /\ order'[slot] = [order[slot] EXCEPT !.remaining = order'[slot].remaining]
            /\ order'[slot].remaining # order[slot].remaining =>
                   /\ Len(trades') = Len(trades) + 1
                   /\ order'[slot].remaining
                        = order[slot].remaining - trades'[Len(trades')].quantity

PlaceIsKept == [][KeepsPlace]_vars

-----------------------------------------------------------------------------
(* Every submit() returns. *)

\* What the loop has left to do: orders to remove and quantity to trade.
Work == Cardinality(InUse) + taker.remaining

\* The matching loop ends: an unfinished submit() can always go on, and every
\* iteration it survives leaves it less to do (no early exit of the inner loop
\* alone, no order met twice).
SubmitReturns ==
    /\ [](taker # NoTaker => ENABLED <<Match>>_vars)
    /\ [][taker # NoTaker /\ taker' # NoTaker => Work' < Work]_vars
==============================================================================
