----------------------------- MODULE RiskControls -----------------------------
(***************************************************************************)
(* obe::RiskManager: the pre-trade gate.  The matching thread is inside    *)
(* check() while a control thread may store the kill switch, so the load   *)
(* of the switch and the rest of check() are two steps.  Everything else   *)
(* check() touches belongs to the matching thread.                         *)
(*                                                                         *)
(* Products are uint64_t in the code: here they are taken modulo Word.     *)
(***************************************************************************)
EXTENDS Integers, Sequences, FiniteSets, FiniteSetsExt

CONSTANTS
    Word,           \* 2^64 in the code
    BpsScale,       \* 10000 in the code
    MaxOrderSize,   \* RiskConfig; 0 disables the check
    MaxNotional,    \* the same
    CollarBps,      \* the same
    UniqueIds,      \* enforce_unique_ids
    NoReference,    \* std::nullopt
    NoCheck,        \* no check() in progress
    Orders,         \* what callers submit: [id, price, quantity, ...]
    References,     \* the references callers pass
    MaxChecks       \* bound: number of checks in a session

ASSUME RiskConstants ==
    /\ Word \in Nat \ {0} /\ BpsScale \in Nat
    /\ MaxOrderSize \in Nat /\ MaxNotional \in Nat /\ CollarBps \in Nat
    /\ UniqueIds \in BOOLEAN
    /\ NoReference \notin Int
    /\ References \subseteq Int \cup {NoReference}
    /\ \A o \in Orders : o.price \in Int /\ o.quantity \in Nat
    /\ NoCheck \notin [order : Orders, reference : References, halted : BOOLEAN]
    /\ MaxChecks \in Nat

VARIABLES
    killSwitch, \* kill_switch_
    seen,       \* seen_ids_
    counter,    \* counter[reason]: accepted_ and rej_*_
    call,       \* check() in progress: [order, reference, halted]; or NoCheck
    accepted    \* history: the [order, reference] accepted, oldest first

vars == <<killSwitch, seen, counter, call, accepted>>

\* The rejections, in the order check() tries them.
Checks == <<"KillSwitch", "MaxOrderSize", "MaxNotional", "PriceCollar",
            "DuplicateOrder">>

RejectReason == {Checks[i] : i \in DOMAIN Checks} \cup {"Accepted"}

total_rejected == counter["MaxOrderSize"] + counter["MaxNotional"]
                  + counter["PriceCollar"] + counter["KillSwitch"]
                  + counter["DuplicateOrder"]

Checked == counter["Accepted"] + total_rejected

Init ==
    /\ killSwitch = FALSE
    /\ seen = {}
    /\ counter = [r \in RejectReason |-> 0]
    /\ call = NoCheck
    /\ accepted = <<>>

-----------------------------------------------------------------------------
(* The decision. *)

NoSizeCap(o) == FALSE           \* mutant: the size check is gone
OverSize(o) == MaxOrderSize # 0 /\ o.quantity > MaxOrderSize

Notional(o) == (o.price * o.quantity) % Word

Deviation(price, ref) == IF price > ref THEN price - ref ELSE ref - price

OverPriceOnly(o) == MaxNotional # 0 /\ o.price > MaxNotional     \* mutant
OverNotional(o) == MaxNotional # 0 /\ Notional(o) > MaxNotional

OutsideCollar(o, ref) ==
    /\ CollarBps # 0
    /\ ref # NoReference
    /\ ref > 0
    /\ (Deviation(o.price, ref) * BpsScale) % Word > (CollarBps * ref) % Word

Trips(check, o, ref, halted) ==
    \/ check = "KillSwitch"     /\ halted
    \/ check = "MaxOrderSize"   /\ OverSize(o)
    \/ check = "MaxNotional"    /\ OverNotional(o)
    \/ check = "PriceCollar"    /\ OutsideCollar(o, ref)
    \/ check = "DuplicateOrder" /\ UniqueIds /\ o.id \in seen

\* The first check that trips decides.
Verdict(o, ref, halted) ==
    LET tripped == {i \in DOMAIN Checks : Trips(Checks[i], o, ref, halted)}
    IN  IF tripped = {} THEN "Accepted" ELSE Checks[Min(tripped)]

\* What check() has read when it starts to decide.
IgnoresSwitch(o, ref) ==        \* mutant: the switch is not read
     [order |-> o, reference |-> ref, halted |-> FALSE]
Loaded(o, ref) == [order |-> o, reference |-> ref, halted |-> killSwitch]

\* seen_ids_ gets the id once every other check has passed.
BurnsId(o, verdict) == TRUE      \* mutant: the id is inserted first
NeverRemembers(o, verdict) == FALSE     \* mutant: the id is not inserted
Remembers(o, verdict) == UniqueIds /\ verdict = "Accepted"

-----------------------------------------------------------------------------
(* The two threads. *)

StartCheck(o, ref) ==
    /\ call = NoCheck
    /\ call' = Loaded(o, ref)
    /\ UNCHANGED <<killSwitch, seen, counter, accepted>>

Outcome == Verdict(call.order, call.reference, call.halted)

Count(verdict) == [counter EXCEPT ![verdict] = @ + 1]

FinishCheck ==
    /\ call # NoCheck
    /\ counter' = Count(Outcome)
    /\ seen' = IF Remembers(call.order, Outcome) THEN seen \cup {call.order.id} ELSE seen
    /\ accepted' = IF Outcome = "Accepted"
                   THEN Append(accepted, [order     |-> call.order,
                                          reference |-> call.reference])
                   ELSE accepted
    /\ call' = NoCheck
    /\ UNCHANGED killSwitch

EngageKillSwitch(on) ==
    /\ killSwitch' = on
    /\ UNCHANGED <<seen, counter, call, accepted>>
Next ==
    \/ \E o \in Orders, ref \in References : Checked < MaxChecks /\ StartCheck(o, ref)
    \/ FinishCheck
    \/ \E on \in BOOLEAN : EngageKillSwitch(on)

Spec == Init /\ [][Next]_vars
==============================================================================
