-------------------------- MODULE PriceTimePriority --------------------------
(***************************************************************************)
(* What submit() must do to a book, stated without a loop, a queue or a    *)
(* price tree: a book is a set of resting orders                           *)
(*    [id, trader, side, price, remaining, sequence]                       *)
(* and a taker t is [id, trader, side, price, quantity, remaining].        *)
(* Every maker is told, on its own, how much of the taker reaches it.      *)
(***************************************************************************)
EXTENDS Market, FiniteSets, FiniteSetsExt

CONSTANT Stp

\* Strict price-time priority between two resting orders of one side.
Ahead(m, n) ==
    \/ Better(m.side, m.price, n.price)
    \/ m.price = n.price /\ m.sequence < n.sequence

\* The resting orders t may trade with, and the ones that are t's own.
Contra(book, t) ==
    {m \in book : m.side = Opposite(t.side) /\ Crosses(t.side, t.price, m.price)}

Own(m, t) == Stp # "None" /\ m.trader = t.trader

Volume(orders) == MapThenSumSet(LAMBDA m : m.remaining, orders)

\* What is left of t when every order ahead of m has had its share.
Budget(book, t, m) ==
    t.remaining - Volume({n \in Contra(book, t) : Ahead(n, m) /\ ~Own(n, t)})

\* The orders t gets to: there is quantity left, and under CancelAggressing
\* no order of t's own trader stands in the way.
Reached(book, t) ==
    {m \in Contra(book, t) :
        /\ Budget(book, t, m) > 0
        /\ Stp = "CancelAggressing" =>
               ~ \E n \in Contra(book, t) : Own(n, t) /\ Ahead(n, m)}

Prevented(book, t) == {m \in Reached(book, t) : Own(m, t)}
Hit(book, t)       == Reached(book, t) \ Prevented(book, t)
Share(book, t, m)  == Min({m.remaining, Budget(book, t, m)})

Left(book, t) ==
    t.remaining - MapThenSumSet(LAMBDA m : Share(book, t, m), Hit(book, t))

\* CancelAggressing drops what is left of t as soon as t meets its own order.
Abandoned(book, t) == Stp = "CancelAggressing" /\ Prevented(book, t) # {}
Rests(book, t)     == Left(book, t) > 0 /\ ~Abandoned(book, t)

\* Where m stands among the makers: one more than the number ahead of it.
Turn(makers, m) == Cardinality({n \in makers : Ahead(n, m)}) + 1

\* One trade with every maker hit, in price-time priority.
TradesOf(book, t) ==
    LET hit == Hit(book, t)
    IN  [k \in 1..Cardinality(hit) |->
            LET m == CHOOSE m \in hit : Turn(hit, m) = k
            IN  [price        |-> m.price,
                 quantity     |-> Share(book, t, m),
                 taker_id     |-> t.id,
                 maker_id     |-> m.id,
                 taker_trader |-> t.trader,
                 maker_trader |-> m.trader,
                 taker_side   |-> t.side]]

\* The book after t: makers reduced or gone, own orders cancelled, and what
\* is left of t resting with the next sequence number.
After(book, t, seq) ==
    LET gone    == Hit(book, t) \cup
                   (IF Stp = "CancelResting" THEN Prevented(book, t) ELSE {})
        partial == {m \in Hit(book, t) : Share(book, t, m) < m.remaining}
    IN  (book \ gone)
        \cup {[m EXCEPT !.remaining = @ - Share(book, t, m)] : m \in partial}
        \cup (IF Rests(book, t)
              THEN {[id |-> t.id, trader |-> t.trader, side |-> t.side,
                     price |-> t.price, remaining |-> Left(book, t),
                     sequence |-> seq]}
              ELSE {})

StatusOf(book, t) ==
    CASE Abandoned(book, t)    -> "CancelledBySelfTrade"
      [] Left(book, t) = 0     -> "FullyFilled"
      [] OTHER                 -> IF Left(book, t) < t.quantity
                                  THEN "PartiallyFilled" ELSE "Rested"

==============================================================================
