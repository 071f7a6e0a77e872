-------------------------- MODULE RiskControlsProps --------------------------
(***************************************************************************)
(* What must be true of RiskControls.                                      *)
(***************************************************************************)
EXTENDS RiskControls

\* Every variable keeps its type.
TypeOK ==
    /\ killSwitch \in BOOLEAN
    /\ seen \subseteq {o.id : o \in Orders}
    /\ counter \in [RejectReason -> Nat]
    /\ call \in [order : Orders, reference : References, halted : BOOLEAN]
              \cup {NoCheck}
    /\ accepted \in Seq([order : Orders, reference : References])

\* Ids are unique per session: no two accepted orders share one, and an order
\* refused for any other reason has not used its id up (check() inserts the id
\* only after every other limit has passed).
IdsAcceptedOnce ==
    TypeOK /\ (UniqueIds =>
        /\ seen = {accepted[i].order.id : i \in DOMAIN accepted}
        /\ \A i, j \in DOMAIN accepted :
               accepted[i].order.id = accepted[j].order.id => i = j)

Quiet == killSwitch /\ (call = NoCheck \/ call.halted)

\* The switch takes hold: once it is engaged and the one check that may have
\* read it earlier is over, nothing is accepted until it is released.
HaltTakesHold ==
    [][Quiet => accepted' = accepted /\ (killSwitch' => Quiet')]_vars

\* The three limits of the session in true arithmetic, over everything check()
\* has accepted:
\*   - no order is larger than the size cap;
\*   - no notional exceeds its cap, negative ones included (converted to
\*     uint64_t they are huge, and refused), as far as a product does not wrap
\*     all the way round;
\*   - an order outside the collar is one whose scaled deviation does not fit
\*     uint64_t: there, and only there, the collar is no limit.
WithinLimits ==
    \A i \in DOMAIN accepted :
        LET o        == accepted[i].order
            ref      == accepted[i].reference
            notional == o.price * o.quantity
            moved    == Deviation(o.price, ref) * BpsScale
        IN  /\ MaxOrderSize # 0 => o.quantity <= MaxOrderSize
            /\ MaxNotional # 0 /\ notional \in (MaxNotional - Word + 1)..(Word - 1)
               => notional \in 0..MaxNotional
            /\ CollarBps # 0 /\ ref # NoReference /\ ref > 0 /\ CollarBps * ref < Word
               => moved <= CollarBps * ref \/ moved >= Word

\* Limits as documented: `compared against price*qty'.
NotionalIsCapped ==
    \A i \in DOMAIN accepted :
        MaxNotional # 0 =>
            accepted[i].order.price * accepted[i].order.quantity <= MaxNotional
==============================================================================
