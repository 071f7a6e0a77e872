-------------------------- MODULE RiskControlsProofs --------------------------
(***************************************************************************)
(* Theorems about the risk gate for every configuration, word size, order  *)
(* population and length of session.                                       *)
(***************************************************************************)
EXTENDS RiskControlsProps, TLAPS

(* The five rejections are five different reasons, none of them Accepted.  *)
LEMMA ChecksAreReasons ==
    /\ DOMAIN Checks = 1..5
    /\ \A i \in 1..5 : Checks[i] \in RejectReason /\ Checks[i] # "Accepted"
    /\ "Accepted" \in RejectReason
<1>1. DOMAIN Checks = 1..5
  BY DEF Checks
<1>2. \A i \in 1..5 : Checks[i] \in {"KillSwitch", "MaxOrderSize", "MaxNotional",
                                     "PriceCollar", "DuplicateOrder"}
  BY DEF Checks
<1> QED
  BY <1>1, <1>2 DEF RejectReason

(* A set of checks that is not empty has a first one: the early return     *)
(* check() takes.                                                          *)
LEMMA FirstCheckExists ==
    ASSUME NEW S \in SUBSET (1..5), S # {}
    PROVE  Min(S) \in S
<1>1. \E x \in S : \A y \in S : x <= y
  <2>1. CASE 1 \in S
    BY <2>1
  <2>2. CASE 1 \notin S /\ 2 \in S
    BY <2>2
  <2>3. CASE 1 \notin S /\ 2 \notin S /\ 3 \in S
    BY <2>3
  <2>4. CASE 1 \notin S /\ 2 \notin S /\ 3 \notin S /\ 4 \in S
    BY <2>4
  <2>5. CASE 1 \notin S /\ 2 \notin S /\ 3 \notin S /\ 4 \notin S
    <3>1. \A x \in S : x = 5
      <4> TAKE x \in S
      <4>1. x \in 1..5 /\ x # 1 /\ x # 2 /\ x # 3 /\ x # 4
        BY <2>5
      <4> QED
        BY <4>1
    <3>2. PICK x \in S : TRUE
      OBVIOUS
    <3>3. x = 5 /\ \A y \in S : x <= y
      BY <3>1, <3>2
    <3> QED
      BY <3>2, <3>3
  <2> QED
    BY <2>1, <2>2, <2>3, <2>4, <2>5
<1> QED
  BY <1>1 DEF Min

(* check() returns Accepted only when it took none of its early returns:   *)
(* whatever one of the five checks would have refused, the gate refuses.   *)
LEMMA AcceptedTripsNothing ==
    ASSUME NEW o, NEW ref, NEW halted
    PROVE  /\ Verdict(o, ref, halted) \in RejectReason
           /\ Verdict(o, ref, halted) = "Accepted" =>
                  /\ ~halted
                  /\ ~OverSize(o)
                  /\ ~OverNotional(o)
                  /\ ~OutsideCollar(o, ref)
                  /\ ~(UniqueIds /\ o.id \in seen)
<1> DEFINE tripped == {i \in DOMAIN Checks : Trips(Checks[i], o, ref, halted)}
<1>1. Verdict(o, ref, halted) = IF tripped = {} THEN "Accepted" ELSE Checks[Min(tripped)]
  BY DEF Verdict
<1>2. tripped \in SUBSET (1..5)
  BY ChecksAreReasons
<1>3. CASE tripped # {}
  <2>1. Min(tripped) \in 1..5
    BY <1>2, <1>3, FirstCheckExists
  <2> QED
    BY <1>1, <1>3, <2>1, ChecksAreReasons
<1>4. CASE tripped = {}
  <2>1. \A i \in 1..5 : ~Trips(Checks[i], o, ref, halted)
    BY <1>4, ChecksAreReasons
  <2>2. /\ Checks[1] = "KillSwitch" /\ Checks[2] = "MaxOrderSize"
        /\ Checks[3] = "MaxNotional" /\ Checks[4] = "PriceCollar"
        /\ Checks[5] = "DuplicateOrder"
    BY DEF Checks
  <2>3. /\ ~Trips("KillSwitch", o, ref, halted)
        /\ ~Trips("MaxOrderSize", o, ref, halted)
        /\ ~Trips("MaxNotional", o, ref, halted)
        /\ ~Trips("PriceCollar", o, ref, halted)
        /\ ~Trips("DuplicateOrder", o, ref, halted)
    BY <2>1, <2>2
  <2>4. /\ ~halted
        /\ ~OverSize(o)
        /\ ~OverNotional(o)
        /\ ~OutsideCollar(o, ref)
        /\ ~(UniqueIds /\ o.id \in seen)
    BY <2>3 DEF Trips
  <2> QED
    BY <1>1, <1>4, <2>4, ChecksAreReasons
<1> QED
  BY <1>3, <1>4

(* What one run of check() leaves behind: it counts one verdict, and the   *)
(* history grows by the order exactly when every check let it pass.        *)
LEMMA FinishEffect ==
    ASSUME TypeOK, FinishCheck
    PROVE  /\ call \in [order : Orders, reference : References, halted : BOOLEAN]
           /\ call' = NoCheck /\ UNCHANGED killSwitch
           /\ counter' \in [RejectReason -> Nat]
           /\ \/ /\ UNCHANGED <<seen, accepted>>
              \/ /\ accepted' = Append(accepted, [order     |-> call.order,
                                                  reference |-> call.reference])
                 /\ seen' = IF UniqueIds THEN seen \cup {call.order.id} ELSE seen
                 /\ ~call.halted
                 /\ ~OverSize(call.order)
                 /\ ~OverNotional(call.order)
                 /\ ~OutsideCollar(call.order, call.reference)
                 /\ ~(UniqueIds /\ call.order.id \in seen)
<1>1. call \in [order : Orders, reference : References, halted : BOOLEAN]
  BY DEF TypeOK, FinishCheck
<1>2. Outcome \in RejectReason
  BY AcceptedTripsNothing DEF Outcome
<1>3. counter' \in [RejectReason -> Nat]
  <2>1. counter' = [counter EXCEPT ![Outcome] = @ + 1]
    BY DEF FinishCheck, Count
  <2> QED
    BY <1>2, <2>1 DEF TypeOK
<1>4. CASE Outcome # "Accepted"
  BY <1>1, <1>3, <1>4 DEF FinishCheck, Remembers
<1>5. CASE Outcome = "Accepted"
  <2>1. /\ ~call.halted
        /\ ~OverSize(call.order)
        /\ ~OverNotional(call.order)
        /\ ~OutsideCollar(call.order, call.reference)
        /\ ~(UniqueIds /\ call.order.id \in seen)
    BY <1>5, AcceptedTripsNothing DEF Outcome
  <2> QED
    BY <1>1, <1>3, <1>5, <2>1 DEF FinishCheck, Remembers
<1> QED
  BY <1>4, <1>5

-----------------------------------------------------------------------------

(* Every variable keeps its type, whatever the two threads do.              *)
LEMMA TypeStep ==
    ASSUME TypeOK, [Next]_vars
    PROVE  TypeOK'
<1>1. ASSUME NEW o \in Orders, NEW ref \in References, StartCheck(o, ref)
      PROVE  TypeOK'
  BY <1>1 DEF StartCheck, Loaded, TypeOK
<1>2. CASE FinishCheck
  <2>1. call.order \in Orders /\ call.reference \in References
    BY <1>2, FinishEffect
  <2>2. accepted' \in Seq([order : Orders, reference : References])
    <3> DEFINE entry   == [order |-> call.order, reference |-> call.reference]
               Entries == [order : Orders, reference : References]
    <3>1. accepted' = accepted \/ accepted' = Append(accepted, entry)
      BY <1>2, FinishEffect
    <3>2. accepted \in Seq(Entries) /\ entry \in Entries
      BY <2>1 DEF TypeOK
    <3> HIDE DEF entry, Entries
    <3>3. accepted' \in Seq(Entries)
      BY <3>1, <3>2
    <3> QED
      BY <3>3 DEF Entries
  <2>3. seen' \subseteq {o.id : o \in Orders}
    BY <1>2, <2>1, FinishEffect DEF TypeOK
  <2> QED
    BY <1>2, <2>2, <2>3, FinishEffect DEF TypeOK
<1>3. ASSUME NEW on \in BOOLEAN, EngageKillSwitch(on)
      PROVE  TypeOK'
  BY <1>3 DEF EngageKillSwitch, TypeOK
<1>4. CASE UNCHANGED vars
  BY <1>4 DEF vars, TypeOK
<1> QED
  BY <1>1, <1>2, <1>3, <1>4 DEF Next

(* A run of check() appends at most one entry to the history, or leaves it *)
(* alone; only FinishCheck touches it.                                     *)
LEMMA OnlyFinishAccepts ==
    ASSUME [Next]_vars
    PROVE  FinishCheck \/ UNCHANGED <<seen, accepted>>
BY DEF Next, StartCheck, EngageKillSwitch, vars

(* Ids are unique per session: no two orders the gate ever accepts share   *)
(* an id, and the set of remembered ids is exactly theirs, so a refused    *)
(* order can be corrected and sent again under its id.                     *)
THEOREM IdsUnique == Spec => []IdsAcceptedOnce
<1>1. Init => IdsAcceptedOnce
  <2> SUFFICES ASSUME Init PROVE IdsAcceptedOnce
    OBVIOUS
  <2>1. counter \in [RejectReason -> Nat] /\ accepted = <<>> /\ seen = {}
    BY DEF Init
  <2>2. accepted \in Seq([order : Orders, reference : References])
        /\ DOMAIN accepted = {}
    BY <2>1
  <2>3. TypeOK
    BY <2>1, <2>2 DEF Init, TypeOK
  <2> QED
    BY <2>1, <2>2, <2>3 DEF IdsAcceptedOnce
<1>2. IdsAcceptedOnce /\ [Next]_vars => IdsAcceptedOnce'
  <2> SUFFICES ASSUME IdsAcceptedOnce, [Next]_vars PROVE IdsAcceptedOnce'
    OBVIOUS
  <2>1. TypeOK /\ TypeOK'
    BY TypeStep DEF IdsAcceptedOnce
  <2>2. CASE UNCHANGED <<seen, accepted>>
    BY <2>1, <2>2 DEF IdsAcceptedOnce
  <2>3. CASE FinishCheck /\ ~UNCHANGED <<seen, accepted>> /\ UniqueIds
    <3> DEFINE entry == [order |-> call.order, reference |-> call.reference]
    <3>1. /\ accepted' = Append(accepted, entry)
          /\ seen' = seen \cup {call.order.id}
          /\ call.order.id \notin seen
      BY <2>1, <2>3, FinishEffect
    <3>2. accepted \in Seq([order : Orders, reference : References])
      BY <2>1 DEF TypeOK
    <3>3. entry.order.id = call.order.id
      OBVIOUS
    <3>4. /\ DOMAIN accepted' = DOMAIN accepted \cup {Len(accepted) + 1}
          /\ Len(accepted) + 1 \notin DOMAIN accepted
          /\ \A i \in DOMAIN accepted : accepted'[i] = accepted[i]
          /\ accepted'[Len(accepted) + 1] = entry
      BY <3>1, <3>2
    <3> HIDE DEF entry
    <3>5. seen = {accepted[i].order.id : i \in DOMAIN accepted}
      BY <2>3 DEF IdsAcceptedOnce
    <3>6. seen' = {accepted'[i].order.id : i \in DOMAIN accepted'}
      BY <3>1, <3>3, <3>4, <3>5
    <3>7. \A i, j \in DOMAIN accepted' :
              accepted'[i].order.id = accepted'[j].order.id => i = j
      BY <2>3, <3>1, <3>3, <3>4, <3>5 DEF IdsAcceptedOnce
    <3> QED
      BY <2>1, <3>6, <3>7 DEF IdsAcceptedOnce
  <2>4. CASE ~UniqueIds
    BY <2>1, <2>4 DEF IdsAcceptedOnce
  <2> QED
    BY <2>2, <2>3, <2>4, OnlyFinishAccepts
<1> QED
  BY <1>1, <1>2, PTL DEF Spec

(* A product that fits the word is not changed by the wrap of uint64_t,    *)
(* and a negative one becomes its complement.                              *)
LEMMA FitsTheWord ==
    ASSUME NEW x \in Int, -Word < x, x < Word
    PROVE  x % Word = IF 0 <= x THEN x ELSE x + Word
BY RiskConstants

(* One accepted order respects the caps in true arithmetic; what wraps is  *)
(* a notional that goes all the way round, and a deviation too large for   *)
(* uint64_t.                                                               *)
LEMMA PassedChecksBound ==
    ASSUME NEW o \in Orders, NEW ref \in References,
           ~OverSize(o), ~OverNotional(o), ~OutsideCollar(o, ref)
    PROVE  LET notional == o.price * o.quantity
               moved    == Deviation(o.price, ref) * BpsScale
           IN  /\ MaxOrderSize # 0 => o.quantity <= MaxOrderSize
               /\ MaxNotional # 0 /\ notional \in (MaxNotional - Word + 1)..(Word - 1)
                  => notional \in 0..MaxNotional
               /\ CollarBps # 0 /\ ref # NoReference /\ ref > 0 /\ CollarBps * ref < Word
                  => moved <= CollarBps * ref \/ moved >= Word
<1> DEFINE notional == o.price * o.quantity
<1>1. o.price \in Int /\ o.quantity \in Nat
  BY RiskConstants
<1>2. notional \in Int
  BY <1>1
<1>3. MaxOrderSize # 0 => o.quantity <= MaxOrderSize
  BY <1>1, RiskConstants DEF OverSize
<1>4. ASSUME MaxNotional # 0, notional \in (MaxNotional - Word + 1)..(Word - 1)
      PROVE  notional \in 0..MaxNotional
  <2>1. ~(notional % Word > MaxNotional)
    BY <1>4 DEF OverNotional, Notional
  <2> HIDE DEF notional
  <2>2. -Word < notional /\ notional < Word
    BY <1>2, <1>4, RiskConstants
  <2>3. notional % Word = IF 0 <= notional THEN notional ELSE notional + Word
    BY <1>2, <2>2, FitsTheWord
  <2> QED
    BY <1>2, <1>4, <2>1, <2>3, RiskConstants
<1> DEFINE moved  == Deviation(o.price, ref) * BpsScale
           collar == CollarBps * ref
<1>5. ASSUME CollarBps # 0, ref # NoReference, ref > 0, collar < Word
      PROVE  moved <= collar \/ moved >= Word
  <2>1. ref \in Nat
    BY <1>5, RiskConstants
  <2>2. Deviation(o.price, ref) \in Nat
    BY <1>1, <2>1 DEF Deviation
  <2>3. moved \in Nat /\ collar \in Nat
    BY <2>1, <2>2, RiskConstants
  <2>4. ~(moved % Word > collar % Word)
    BY <1>5 DEF OutsideCollar
  <2> HIDE DEF moved, collar
  <2>5. collar % Word = collar /\ (moved < Word => moved % Word = moved)
    BY <1>5, <2>3, FitsTheWord, RiskConstants
  <2> QED
    BY <2>3, <2>4, <2>5, RiskConstants
<1> QED
  BY <1>3, <1>4, <1>5

(* The limits of the session: nothing the gate accepts exceeds the size    *)
(* cap or the notional cap, or strays from its reference by more than the  *)
(* collar, but where the products of check() wrap.                         *)
THEOREM LimitsHold == Spec => []WithinLimits
<1>1. Init => WithinLimits
  BY DEF Init, WithinLimits
<1>2. TypeOK /\ WithinLimits /\ [Next]_vars => WithinLimits'
  <2> SUFFICES ASSUME TypeOK, WithinLimits, [Next]_vars PROVE WithinLimits'
    OBVIOUS
  <2>1. CASE UNCHANGED accepted
    BY <2>1 DEF WithinLimits
  <2>2. CASE FinishCheck /\ ~UNCHANGED accepted
    <3> DEFINE entry == [order |-> call.order, reference |-> call.reference]
    <3>1. /\ accepted' = Append(accepted, entry)
          /\ call.order \in Orders /\ call.reference \in References
          /\ ~OverSize(call.order)
          /\ ~OverNotional(call.order)
          /\ ~OutsideCollar(call.order, call.reference)
      BY <2>2, FinishEffect
    <3>2. entry.order = call.order /\ entry.reference = call.reference
      OBVIOUS
    <3>3. accepted \in Seq([order : Orders, reference : References])
      BY DEF TypeOK
    <3>4. /\ DOMAIN accepted' = DOMAIN accepted \cup {Len(accepted) + 1}
          /\ \A i \in DOMAIN accepted :
                 accepted'[i] = accepted[i] \/ accepted'[i] = entry
          /\ accepted'[Len(accepted) + 1] = entry
      BY <3>1, <3>3
    <3> HIDE DEF entry
    <3>5. \A i \in DOMAIN accepted' :
              \/ i \in DOMAIN accepted /\ accepted'[i] = accepted[i]
              \/ accepted'[i] = entry
      BY <3>4
    <3> SUFFICES ASSUME NEW i \in DOMAIN accepted'
                 PROVE  WithinLimits!(i)'
      BY DEF WithinLimits
    <3> QED
      BY <3>1, <3>2, <3>5, PassedChecksBound DEF WithinLimits
  <2> QED
    BY <2>1, <2>2, OnlyFinishAccepts
<1>3. Spec => []TypeOK
  BY IdsUnique, PTL DEF IdsAcceptedOnce
<1> QED
  BY <1>1, <1>2, <1>3, PTL DEF Spec

(* The kill switch takes hold: once it is engaged and the check that may   *)
(* have loaded it earlier is over, no step of either thread accepts an     *)
(* order, and that stays so until the switch is released.                  *)
THEOREM HaltHolds == Spec => HaltTakesHold
<1>1. TypeOK /\ [Next]_vars =>
          [Quiet => accepted' = accepted /\ (killSwitch' => Quiet')]_vars
  <2> SUFFICES ASSUME TypeOK, [Next]_vars, Quiet
               PROVE  accepted' = accepted /\ (killSwitch' => Quiet')
    OBVIOUS
  <2>1. ASSUME NEW o \in Orders, NEW ref \in References, StartCheck(o, ref)
        PROVE  accepted' = accepted /\ (killSwitch' => Quiet')
    BY <2>1 DEF StartCheck, Loaded, Quiet
  <2>2. CASE FinishCheck
    <3>1. call' = NoCheck /\ UNCHANGED killSwitch /\ call # NoCheck
      BY <2>2 DEF FinishCheck
    <3>2. call.halted
      BY <3>1 DEF Quiet
    <3>3. UNCHANGED <<seen, accepted>>
      BY <2>2, <3>2, FinishEffect
    <3> QED
      BY <3>1, <3>3 DEF Quiet
  <2>3. ASSUME NEW on \in BOOLEAN, EngageKillSwitch(on)
        PROVE  accepted' = accepted /\ (killSwitch' => Quiet')
    BY <2>3 DEF EngageKillSwitch, Quiet
  <2>4. CASE UNCHANGED vars
    BY <2>4 DEF vars, Quiet
  <2> QED
    BY <2>1, <2>2, <2>3, <2>4 DEF Next
<1>2. Spec => []TypeOK
  BY IdsUnique, PTL DEF IdsAcceptedOnce
<1> QED
  BY <1>1, <1>2, PTL DEF Spec, HaltTakesHold
==============================================================================
