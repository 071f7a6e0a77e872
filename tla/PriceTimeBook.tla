---------------------------- MODULE PriceTimeBook ----------------------------
(***************************************************************************)
(* The promise of OrderBook: a set of resting orders on which submit() and *)
(* cancel() are single steps whose outcome PriceTimePriority defines.      *)
(* There is no queue, index, pool or matching loop here.                   *)
(***************************************************************************)
EXTENDS PriceTimePriority

CONSTANTS OrderIds, Traders, MinPrice, MaxPrice, MaxQty

VARIABLES
    resting,    \* the set of resting orders
    trades,     \* the trades of the latest submit()
    result,     \* what the latest call returned
    nextSeq     \* the sequence number the next resting order gets

vars == <<resting, trades, result, nextSeq>>

Resting(id) == \E m \in resting : m.id = id

Init ==
    /\ resting = {}
    /\ trades = <<>>
    /\ result = [status |-> "None", filled |-> 0, resting |-> 0, trade_count |-> 0]
    /\ nextSeq = 1

Reject(id, quantity) ==
    /\ quantity = 0 \/ Resting(id)
    /\ trades' = <<>>
    /\ result' = [status |-> "Rejected", filled |-> 0, resting |-> 0,
                  trade_count |-> 0]
    /\ UNCHANGED <<resting, nextSeq>>

Submit(id, trader, side, price, quantity) ==
    LET t == [id |-> id, trader |-> trader, side |-> side, price |-> price,
              quantity |-> quantity, remaining |-> quantity]
    IN  /\ quantity > 0
        /\ ~Resting(id)
        /\ resting' = After(resting, t, nextSeq)
        /\ trades' = TradesOf(resting, t)
        /\ result' = [status |-> StatusOf(resting, t),
                      filled |-> quantity - Left(resting, t),
                      resting |-> IF Rests(resting, t) THEN Left(resting, t) ELSE 0,
                      trade_count |-> Cardinality(Hit(resting, t))]
        /\ nextSeq' = IF Rests(resting, t) THEN nextSeq + 1 ELSE nextSeq

Cancel(id) ==
    /\ resting' = {m \in resting : m.id # id}
    /\ result' = [status |-> IF Resting(id) THEN "Removed" ELSE "NotFound",
                  filled |-> 0, resting |-> 0, trade_count |-> 0]
    /\ UNCHANGED <<trades, nextSeq>>

Next ==
    \/ \E id \in OrderIds, quantity \in 0..MaxQty : Reject(id, quantity)
    \/ \E id \in OrderIds, trader \in Traders, side \in Side,
          price \in MinPrice..MaxPrice, quantity \in 1..MaxQty :
              Submit(id, trader, side, price, quantity)
    \/ \E id \in OrderIds : Cancel(id)

Spec == Init /\ [][Next]_vars

==============================================================================
