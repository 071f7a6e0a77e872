---------------------------- MODULE RecoveryProofs ----------------------------
(***************************************************************************)
(* Theorems about crash recovery: wherever the process dies and whatever   *)
(* of the journal has reached the disk, the replay rebuilds a state the    *)
(* live engine was in.                                                     *)
(***************************************************************************)
EXTENDS RecoveryProps, MatchingEngineProofs

\* The journal, with what is proved of it.
Durability == INSTANCE EventLogProofs WITH MaxRecords <- MaxPushes

-----------------------------------------------------------------------------
(* apply() as a function from what an observer sees before a command to    *)
(* what it sees after it, the switch being off.                            *)

TouchIn(book, side) ==
    LET prices == {m.price : m \in {o \in book : o.side = Opposite(side)}}
    IN  IF prices = {} THEN NoReference
        ELSE IF side = "Buy" THEN Min(prices) ELSE Max(prices)

Refuses(check, ids, o, ref) ==
    \/ check = "MaxOrderSize"   /\ Risk!OverSize(o)
    \/ check = "MaxNotional"    /\ Risk!OverNotional(o)
    \/ check = "PriceCollar"    /\ Risk!OutsideCollar(o, ref)
    \/ check = "DuplicateOrder" /\ UniqueIds /\ o.id \in ids

VerdictIn(ids, o, ref) ==
    LET tripped == {i \in DOMAIN Risk!Checks : Refuses(Risk!Checks[i], ids, o, ref)}
    IN  IF tripped = {} THEN "Accepted" ELSE Risk!Checks[Risk!Min(tripped)]

VerdictOn(s, c) == VerdictIn(s.seen, c, TouchIn(s.resting, c.side))

Gated(s, c) ==
    [s EXCEPT !.seen    = IF UniqueIds /\ VerdictOn(s, c) = "Accepted" THEN @ \cup {c.id}
                          ELSE @,
              !.counter = [s.counter EXCEPT ![VerdictOn(s, c)] = @ + 1]]

Taker(c) == [id |-> c.id, trader |-> c.trader, side |-> c.side, price |-> c.price,
             quantity |-> c.quantity, remaining |-> c.quantity]

Taken(s, c) == c.quantity > 0 /\ ~ \E m \in s.resting : m.id = c.id

Entered(s, c) ==
    IF Taken(s, c)
    THEN [s EXCEPT !.resting = Book!After(@, Taker(c), s.nextSeq),
                   !.nextSeq = IF Book!Rests(s.resting, Taker(c)) THEN @ + 1 ELSE @]
    ELSE s

TradesMade(s, c) ==
    IF Taken(s, c) THEN Cardinality(Book!Hit(s.resting, Taker(c))) ELSE 0

Removed(s, c) == [s EXCEPT !.resting = {m \in @ : m.id # c.id}]

CountedKind(s, c) ==
    [s EXCEPT !.stats = IF c.type = "Submit" THEN [s.stats EXCEPT !.submits = @ + 1]
                        ELSE [s.stats EXCEPT !.cancels = @ + 1]]

CountedTrades(s, n) == [s EXCEPT !.stats = [s.stats EXCEPT !.trades = @ + n]]

Tallied(s) == [s EXCEPT !.stats = [s.stats EXCEPT !.commands = @ + 1]]

\* What follows the gate.
Solved(s, c) == Tallied(CountedTrades(CountedKind(Entered(s, c), c), TradesMade(s, c)))

Execute(s, c) ==
    IF c.type # "Submit" THEN Tallied(CountedKind(Removed(s, c), c))
    ELSE IF VerdictOn(s, c) = "Accepted" THEN Solved(Gated(s, c), c)
    ELSE Tallied(Gated(s, c))

\* What an observer will see when the command in hand is finished.
Due ==
    LET s == Observed  c == worker.cmd  n == result.trade_count
    IN  CASE worker.pc \in {"loop", "exited"} -> s
          [] worker.pc \in {"journal", "gate", "check", "cancel"} -> Execute(s, c)
          [] worker.pc = "book" -> Solved(s, c)
          [] worker.pc = "count" ->
                 IF c.type = "Submit" THEN Tallied(CountedTrades(CountedKind(s, c), n))
                 ELSE Tallied(CountedKind(s, c))
          [] worker.pc = "trades" -> Tallied(CountedTrades(s, n))
          [] worker.pc = "tally" -> Tallied(s)

-----------------------------------------------------------------------------
(* The inductive invariant. *)

\* The collar is measured from the touch of the book the order will meet.
AsksTheBook == worker.pc = "check" => call.reference = Touch(worker.cmd.side)

HaltedInCheck == worker.pc = "check" /\ call.halted

Turned(s) == s.counter["KillSwitch"]

\* What a new engine shows.
FirstState == [resting |-> {}, nextSeq |-> 1,
               stats |-> [commands |-> 0, submits |-> 0, cancels |-> 0, trades |-> 0],
               seen |-> {}, counter |-> [r \in Risk!RejectReason |-> 0]]

\* Until the switch turns an order away, each recorded state is the one before
\* with the next command of the journal executed.
HistoryExecutes ==
    /\ states \in Seq(Range(states))
    /\ Len(appended) <= Len(states) /\ Len(states) <= Len(appended) + 1
    /\ states # <<>> /\ states[1] = FirstState
    /\ \A k \in 1..(Len(states) - 1) :
           Turned(states[k + 1]) = 0 =>
               Turned(states[k]) = 0 /\ states[k + 1] = Execute(states[k], appended[k])

\* The engine is at s, or on its way from s to what the command makes of it.
Continues(s) ==
    IF worker.cmd = Idle THEN Observed = s ELSE Due = Execute(s, worker.cmd)

LiveInStep ==
    phase = "live" =>
        /\ Safe
        /\ todo = <<>>
        /\ Len(states) = Len(applied) + 1
        /\ counter["KillSwitch"] = 0 /\ ~HaltedInCheck =>
               Turned(states[Len(states)]) = 0 /\ Continues(states[Len(states)])

ReplayInStep ==
    phase \in {"replaying", "recovered"} =>
        /\ stream = "closed" /\ Events # Unreadable
        /\ applied \o InHand \o todo = Events
        /\ ~killSwitch /\ ~HaltedInCheck /\ worker.pc # "exited"
        /\ \A n \in 1..Len(states) :
               n = Len(applied) + 1 /\ Turned(states[n]) = 0 => Continues(states[n])
        /\ phase = "recovered" => worker.cmd = Idle /\ todo = <<>>

\* After the join nothing is missing from the journal, and the last state the
\* history holds is the one the last command left.
JoinedIsJournaled ==
    control \in {"joined", "flushed"} =>
        appended = pushed /\ Len(states) = Len(pushed) + 1

Restorable ==
    /\ RecoveryTypeOK /\ Sane /\ Durability!Durable /\ AsksTheBook
    /\ HistoryExecutes
    /\ LiveInStep /\ ReplayInStep /\ JoinedIsJournaled

-----------------------------------------------------------------------------
(* The steps of apply() and the function they make up. *)

(* While the switch was not read as engaged the gate decides from the ids  *)
(* it has seen, the order and the reference alone.                         *)
LEMMA OutcomeIs ==
    ASSUME ~call.halted
    PROVE  Risk!Outcome = VerdictIn(seen, call.order, call.reference)
<1> DEFINE S == {i \in DOMAIN Risk!Checks :
                     Risk!Trips(Risk!Checks[i], call.order, call.reference, call.halted)}
           T == {i \in DOMAIN Risk!Checks :
                     Refuses(Risk!Checks[i], seen, call.order, call.reference)}
<1>1. S = T
  BY DEF Risk!Trips, Refuses
<1>2. Risk!Outcome = IF S = {} THEN "Accepted" ELSE Risk!Checks[Risk!Min(S)]
  BY DEF Risk!Outcome, Risk!Verdict
<1>3. VerdictIn(seen, call.order, call.reference)
          = IF T = {} THEN "Accepted" ELSE Risk!Checks[Risk!Min(T)]
  BY DEF VerdictIn
<1> HIDE DEF S, T
<1> QED
  BY <1>1, <1>2, <1>3

(* An order that meets the switch engaged is refused for it: that check is *)
(* the first.                                                              *)
LEMMA HaltedIsTurned ==
    ASSUME call.halted
    PROVE  Risk!Outcome = "KillSwitch"
<1> DEFINE S == {i \in DOMAIN Risk!Checks :
                     Risk!Trips(Risk!Checks[i], call.order, call.reference, call.halted)}
<1>1. DOMAIN Risk!Checks = 1..5 /\ Risk!Checks[1] = "KillSwitch"
  BY DEF Risk!Checks
<1>2. 1 \in S /\ S \subseteq 1..5
  BY <1>1 DEF Risk!Trips
<1>3. Risk!Outcome = IF S = {} THEN "Accepted" ELSE Risk!Checks[Risk!Min(S)]
  BY DEF Risk!Outcome, Risk!Verdict
<1> HIDE DEF S
<1>4. Risk!Min(S) = 1
  <2>1. 1 \in S /\ \A y \in S : 1 <= y
    BY <1>2
  <2>2. \A x \in S : (\A y \in S : x <= y) => x = 1
    BY <1>2
  <2> QED
    BY <2>1, <2>2 DEF Risk!Min
<1> QED
  BY <1>1, <1>2, <1>3, <1>4

(* A step of apply() does not change what the command will have made of    *)
(* the engine, unless the switch turns the order away.                     *)
LEMMA ApplyKeepsDue ==
    ASSUME Sane, AsksTheBook, ~HaltedInCheck, Apply
    PROVE  Due' = Due
<1> DEFINE c == worker.cmd
           s == Observed
<1>1. TypeOK /\ HoldsCommand /\ GateServesWorker
  BY DEF Sane
<1>2. CASE Journal
  <2>1. /\ worker.pc = "journal" /\ worker'.pc \in {"gate", "cancel"}
        /\ worker'.cmd = worker.cmd
    BY <1>1, <1>2, EngineConstants DEF Journal, At, Goto, AfterJournal, HoldsCommand,
       TypeOK, Commands
  <2>2. Observed' = Observed
    BY <1>2 DEF Journal, Observed, engineVars, bookVars, riskVars
  <2> QED
    BY <2>1, <2>2 DEF Due
<1>3. CASE ReadSwitch
  <2>1. /\ worker.pc = "gate" /\ worker'.pc = "check" /\ worker'.cmd = worker.cmd
    BY <1>1, <1>3 DEF ReadSwitch, At, Goto, TypeOK
  <2>2. Observed' = Observed
    BY <1>3 DEF ReadSwitch, Observed, engineVars, bookVars, Risk!StartCheck
  <2> QED
    BY <2>1, <2>2 DEF Due
<1>4. CASE Decide
  <2> DEFINE v == VerdictOn(s, c)
  <2>1. worker.pc = "check" /\ call.order = c /\ ~call.halted /\ c.type = "Submit"
    BY <1>1, <1>4, EngineConstants DEF Decide, At, GateServesWorker, HaltedInCheck,
       HoldsCommand
  <2>2. Risk!Outcome = v
    <3>1. call.reference = TouchIn(resting, c.side)
      BY <2>1 DEF AsksTheBook, Touch, TouchIn
    <3> QED
      BY <2>1, <3>1, OutcomeIs DEF VerdictOn, Observed
  <2>3. /\ counter' = [counter EXCEPT ![v] = @ + 1]
        /\ seen' = IF UniqueIds /\ v = "Accepted" THEN seen \cup {c.id} ELSE seen
        /\ UNCHANGED <<resting, nextSeq, stats>>
    BY <1>4, <2>1, <2>2 DEF Decide, Risk!FinishCheck, Risk!Count, Risk!Remembers,
       engineVars, bookVars
  <2>4. worker'.cmd = c /\ worker'.pc = IF v = "Accepted" THEN "book" ELSE "tally"
    BY <1>1, <1>4, <2>2 DEF Decide, Goto, AfterCheck, TypeOK
  <2>5. Observed' = Gated(s, c)
    <3>1. s.seen = seen /\ s.counter = counter
      BY DEF Observed
    <3>2. Gated(s, c) = [s EXCEPT !.seen = seen', !.counter = counter']
      BY <2>3, <3>1 DEF Gated
    <3> QED
      BY <2>3, <3>2 DEF Observed
  <2>6. Due = IF v = "Accepted" THEN Solved(Gated(s, c), c) ELSE Tallied(Gated(s, c))
    BY <2>1 DEF Due, Execute
  <2>7. Due' = IF v = "Accepted" THEN Solved(Observed', c) ELSE Tallied(Observed')
    BY <2>4 DEF Due
  <2> QED
    BY <2>5, <2>6, <2>7
<1>5. CASE EnterBook
  <2>1. worker.pc = "book" /\ worker'.pc = "count" /\ worker'.cmd = c /\ c.type = "Submit"
    BY <1>1, <1>5, EngineConstants DEF EnterBook, At, Goto, TypeOK, HoldsCommand
  <2>2. UNCHANGED <<stats, seen, counter>>
    BY <1>5 DEF EnterBook, riskVars
  <2>3. Observed' = Entered(s, c) /\ result'.trade_count = TradesMade(s, c)
    <3>1. CASE Book!Reject(c.id, c.quantity)
      <4>1. ~Taken(s, c)
        BY <3>1 DEF Book!Reject, Book!Resting, Taken, Observed
      <4>2. UNCHANGED <<resting, nextSeq>> /\ result'.trade_count = 0
        BY <3>1 DEF Book!Reject
      <4> QED
        BY <2>2, <4>1, <4>2 DEF Observed, Entered, TradesMade
    <3>2. CASE Book!Submit(c.id, c.trader, c.side, c.price, c.quantity)
      <4>1. Taken(s, c)
        BY <3>2 DEF Book!Submit, Book!Resting, Taken, Observed
      <4>2. /\ resting' = Book!After(resting, Taker(c), nextSeq)
            /\ nextSeq' = IF Book!Rests(resting, Taker(c)) THEN nextSeq + 1 ELSE nextSeq
            /\ result'.trade_count = Cardinality(Book!Hit(resting, Taker(c)))
        <5>1. Book!Cardinality(Book!Hit(resting, Taker(c)))
                  = Cardinality(Book!Hit(resting, Taker(c)))
          BY DEF Book!Cardinality, Cardinality
        <5> QED
          BY <3>2, <5>1 DEF Book!Submit, Taker
      <4> QED
        BY <2>2, <4>1, <4>2 DEF Observed, Entered, TradesMade
    <3> QED
      BY <1>5, <3>1, <3>2 DEF EnterBook
  <2>4. Due = Solved(s, c)
    BY <2>1 DEF Due
  <2>5. Due' = Tallied(CountedTrades(CountedKind(Observed', c), result'.trade_count))
    BY <2>1 DEF Due
  <2> QED
    BY <2>3, <2>4, <2>5 DEF Solved
<1>6. CASE RemoveOrder
  <2>1. worker.pc = "cancel" /\ worker'.pc = "count" /\ worker'.cmd = c /\ c.type = "Cancel"
    BY <1>1, <1>6, EngineConstants DEF RemoveOrder, At, Goto, TypeOK, HoldsCommand
  <2>2. Observed' = Removed(s, c)
    <3> DEFINE kept == {m \in resting : m.id # c.id}
    <3>1. resting' = kept /\ UNCHANGED <<nextSeq, stats, seen, counter>>
      BY <1>6 DEF RemoveOrder, Book!Cancel, engineVars, riskVars
    <3>2. s.resting = resting
      BY DEF Observed
    <3>3. Removed(s, c) = [s EXCEPT !.resting = kept]
      BY <3>2 DEF Removed
    <3> HIDE DEF kept
    <3> QED
      BY <3>1, <3>3 DEF Observed
  <2>3. Due = Tallied(CountedKind(Removed(s, c), c))
    BY <2>1 DEF Due, Execute
  <2>4. Due' = Tallied(CountedKind(Observed', c))
    BY <2>1 DEF Due
  <2> QED
    BY <2>2, <2>3, <2>4
<1>7. CASE CountKind
  <2>1. /\ worker.pc = "count" /\ worker'.cmd = c
        /\ worker'.pc = IF c.type = "Submit" THEN "trades" ELSE "tally"
    BY <1>1, <1>7 DEF CountKind, At, Goto, TypeOK
  <2>2. Observed' = CountedKind(s, c) /\ result' = result
    BY <1>7 DEF CountKind, bookVars, riskVars, Observed, CountedKind
  <2>3. Due = IF c.type = "Submit"
              THEN Tallied(CountedTrades(CountedKind(s, c), result.trade_count))
              ELSE Tallied(CountedKind(s, c))
    BY <2>1 DEF Due
  <2>4. Due' = IF c.type = "Submit"
               THEN Tallied(CountedTrades(Observed', result'.trade_count))
               ELSE Tallied(Observed')
    BY <2>1 DEF Due
  <2> QED
    BY <2>2, <2>3, <2>4
<1>8. CASE CountTrades
  <2>1. worker.pc = "trades" /\ worker'.pc = "tally"
    BY <1>1, <1>8 DEF CountTrades, At, Goto, TypeOK
  <2>2. Observed' = CountedTrades(s, result.trade_count)
    BY <1>8 DEF CountTrades, bookVars, riskVars, Observed, CountedTrades
  <2>3. Due = Tallied(CountedTrades(s, result.trade_count)) /\ Due' = Tallied(Observed')
    BY <2>1 DEF Due
  <2> QED
    BY <2>2, <2>3
<1>9. CASE Tally
  <2>1. worker.pc = "tally" /\ worker'.pc = "loop"
    BY <1>9 DEF Tally, At
  <2>2. Observed' = Tallied(s)
    BY <1>9 DEF Tally, bookVars, riskVars, Observed, Tallied
  <2>3. Due = Tallied(s) /\ Due' = Observed'
    BY <2>1 DEF Due
  <2> QED
    BY <2>2, <2>3
<1> QED
  BY <1>2, <1>3, <1>4, <1>5, <1>6, <1>7, <1>8, <1>9 DEF Apply

(* The engine keeps going where it was going.                              *)
LEMMA ApplyContinues ==
    ASSUME NEW x, Sane, AsksTheBook, ~HaltedInCheck, Apply, Continues(x)
    PROVE  /\ Tally => Observed' = Execute(x, worker.cmd)
           /\ ~Tally => Continues(x)'
<1>1. TypeOK /\ HoldsCommand
  BY DEF Sane
<1>2. worker.cmd # Idle /\ Due' = Due
  <2>1. worker.pc \notin {"loop", "exited"}
    BY DEF Apply, Journal, ReadSwitch, Decide, EnterBook, RemoveOrder, CountKind,
       CountTrades, Tally, At
  <2> QED
    BY <1>1, <2>1, ApplyKeepsDue DEF HoldsCommand
<1>3. Due' = Execute(x, worker.cmd)
  BY <1>2 DEF Continues
<1>4. CASE Tally
  <2>1. Due' = Observed'
    BY <1>4 DEF Tally, Due
  <2> QED
    BY <1>3, <1>4, <2>1
<1>5. CASE ~Tally
  <2>1. worker'.cmd = worker.cmd
    BY <1>1, <1>5 DEF Apply, Journal, ReadSwitch, Decide, EnterBook, RemoveOrder, CountKind,
       CountTrades, Goto, TypeOK
  <2> QED
    BY <1>2, <1>3, <1>5, <2>1 DEF Continues
<1> QED
  BY <1>4, <1>5

(* A command is taken up where the last one was left.                      *)
LEMMA StartContinues ==
    ASSUME NEW x, NEW cmd \in Commands, HoldsCommand, StartApply(cmd), Observed' = Observed,
           Continues(x)
    PROVE  Continues(x)'
<1>1. Observed = x /\ Observed' = x
  BY DEF Continues, HoldsCommand, StartApply, At
<1>2. worker'.pc = "journal" /\ worker'.cmd = cmd /\ cmd # Idle
  BY EngineConstants DEF StartApply
<1>3. Due' = Execute(Observed', cmd)
  BY <1>2 DEF Due
<1> QED
  BY <1>1, <1>2, <1>3 DEF Continues

(* Nobody else moves the engine.                                           *)
LEMMA AroundContinues ==
    ASSUME NEW x, UNCHANGED <<Observed, worker, result>>, Continues(x)
    PROVE  Continues(x)'
<1>1. Due' = Due
  BY DEF Due
<1> QED
  BY <1>1 DEF Continues

(* The orders the switch has turned away only grow in number; and an order *)
(* that has met it engaged will be one of them.                            *)
LEMMA TurnedStep ==
    ASSUME Sane, [Next]_vars, counter'["KillSwitch"] = 0, ~HaltedInCheck'
    PROVE  counter["KillSwitch"] = 0 /\ ~HaltedInCheck
<1>1. TypeOK /\ GateServesWorker /\ "KillSwitch" \in Risk!RejectReason
  BY DEF Sane, Risk!RejectReason, Risk!Checks
<1>2. counter["KillSwitch"] \in Nat
  BY <1>1 DEF GateServesWorker
<1>3. CASE Decide
  <2>1. /\ counter' = [counter EXCEPT ![Risk!Outcome] = @ + 1]
        /\ worker.pc = "check"
    BY <1>3 DEF Decide, Risk!FinishCheck, Risk!Count, At
  <2>2. Risk!Outcome # "KillSwitch" /\ counter["KillSwitch"] = 0
    BY <1>1, <1>2, <2>1 DEF GateServesWorker
  <2> QED
    BY <2>2, HaltedIsTurned DEF HaltedInCheck
<1>4. CASE ReadSwitch
  <2>1. worker.pc = "gate" /\ counter' = counter
    BY <1>4 DEF ReadSwitch, At, Risk!StartCheck
  <2> QED
    BY <2>1 DEF HaltedInCheck
<1>5. CASE Elsewhere
  <2>1. counter' = counter /\ worker.pc # "check"
    BY <1>5, ElsewhereFrame DEF PopCommand, StartApply, At
  <2> QED
    BY <2>1 DEF HaltedInCheck
<1>6. CASE Around \/ UNCHANGED vars
  <2>1. UNCHANGED <<worker, counter, call>>
    BY <1>6, AroundFrame DEF vars, riskVars
  <2> QED
    BY <2>1 DEF HaltedInCheck
<1> QED
  BY <1>3, <1>4, <1>5, <1>6 DEF Next, Consumer, Apply, Elsewhere, Around

(* The book does not move between the load of the touch and the verdict.   *)
LEMMA AsksTheBookStep ==
    ASSUME Sane, AsksTheBook, [Next]_vars
    PROVE  AsksTheBook'
<1>1. TypeOK /\ HoldsCommand /\ GateServesWorker
  BY DEF Sane
<1>2. CASE ReadSwitch
  <2>1. /\ call'.reference = Touch(worker.cmd.side) /\ resting' = resting
        /\ worker'.cmd = worker.cmd
    BY <1>1, <1>2 DEF ReadSwitch, Risk!StartCheck, Risk!Loaded, bookVars, Goto, TypeOK
  <2> QED
    BY <2>1 DEF AsksTheBook, Touch
<1>3. CASE Decide
  <2>1. worker'.pc \in {"book", "tally"}
    BY <1>1, <1>3 DEF Decide, Goto, AfterCheck, TypeOK
  <2> QED
    BY <2>1 DEF AsksTheBook
<1>4. CASE PopCommand \/ PopSentinel \/ Tally
  BY <1>1, <1>4 DEF PopCommand, PopSentinel, StartApply, Tally, At, Goto, TypeOK, AsksTheBook
<1>5. CASE Journal
  BY <1>1, <1>5, EngineConstants DEF Journal, At, Goto, AfterJournal, TypeOK,
     HoldsCommand, Commands, AsksTheBook
<1>6. CASE EnterBook \/ RemoveOrder \/ CountKind \/ CountTrades
  BY <1>1, <1>6 DEF EnterBook, RemoveOrder, CountKind, CountTrades, At, Goto, TypeOK,
     AsksTheBook
<1>7. CASE Around \/ UNCHANGED vars
  <2>1. UNCHANGED <<worker, call, resting>>
    BY <1>7, AroundFrame DEF vars, riskVars, bookVars
  <2> QED
    BY <2>1 DEF AsksTheBook, Touch
<1> QED
  BY <1>2, <1>3, <1>4, <1>5, <1>6, <1>7 DEF Next, Consumer, Apply, Around

-----------------------------------------------------------------------------
(* The journal. *)

(* The engine writes to the journal in two places.                         *)
LEMMA JournalMoves ==
    ASSUME Sane, [Next]_vars
    PROVE  \/ worker.cmd \in Commands /\ Log!AppendRecord(worker.cmd) /\ Journal
           \/ Log!Flush
           \/ UNCHANGED logVars
<1>1. TypeOK /\ HoldsCommand
  BY DEF Sane
<1>2. CASE Journal
  <2>1. worker.cmd \in Commands
    BY <1>1, <1>2 DEF Journal, At, HoldsCommand, TypeOK
  <2> QED
    BY <1>2, <2>1 DEF Journal, WriteAhead
<1>3. CASE FlushLog
  BY <1>3 DEF FlushLog
<1>4. CASE Consumer /\ ~Journal
  BY <1>4 DEF Consumer, PopCommand, PopSentinel, Apply, ReadSwitch, Decide, EnterBook,
     RemoveOrder, CountKind, CountTrades, Tally
<1>5. CASE Producer \/ PushSentinel \/ Join \/ Operator \/ UNCHANGED vars
  BY <1>5 DEF Producer, ProducerEnds, Push, PushSentinel, Join, Operator, ThrowSwitch, vars
<1> QED
  BY <1>2, <1>3, <1>4, <1>5 DEF Next, Controller

(* The file stays a prefix of the session, live or dead.                   *)
LEMMA DurableUnchanged ==
    ASSUME Durability!Durable, UNCHANGED logVars
    PROVE  Durability!Durable'
BY DEF logVars, Durability!Durable, Durability!TypeOK, Durability!WritesInOrder,
       Durability!count, Durability!UnitAt, Durability!Size

LEMMA DurableStep ==
    ASSUME Sane, Durability!Durable, [Next]_vars
    PROVE  Durability!Durable'
<1>1. CASE worker.cmd \in Commands /\ Log!AppendRecord(worker.cmd)
  <2>1. Durability!AppendRecord(worker.cmd)
    BY <1>1 DEF Durability!AppendRecord, Log!AppendRecord, Durability!Put, Log!Put,
       Durability!Encode, Log!Encode
  <2> QED
    BY <1>1, <2>1, Durability!AppendRecordKeeps, EngineConstants, JournalConstants
<1>2. CASE Log!Flush
  <2>1. Durability!Flush
    BY <1>2 DEF Durability!Flush, Log!Flush, Durability!count, Log!count
  <2> QED
    BY <2>1, Durability!WritingKeeps, EngineConstants, JournalConstants
<1>3. CASE UNCHANGED logVars
  BY <1>3, DurableUnchanged
<1> QED
  BY <1>1, <1>2, <1>3, JournalMoves

LEMMA DurableOnDisk ==
    ASSUME Durability!Durable,
           \/ \E n \in 0..Len(buffer) : Log!Spill(n) \/ Log!WriteFails(n)
           \/ Log!ProcessDies
    PROVE  Durability!Durable'
<1>1. \/ \E n \in 0..Len(buffer) : Durability!Spill(n) \/ Durability!WriteFails(n)
      \/ Durability!ProcessDies
  BY DEF Durability!Spill, Log!Spill, Durability!Oldest, Log!Oldest,
     Durability!WriteFails, Log!WriteFails, Durability!ProcessDies, Log!ProcessDies
<1> QED
  BY <1>1, Durability!WritingKeeps, EngineConstants, JournalConstants

LEMMA SameReader == Log!Read(file) = Durability!Read(file)
BY DEF Log!Read, Durability!Read, Log!Header, Durability!Header, Log!Magic,
       Durability!Magic, Log!Complete, Durability!Complete, Log!Decode, Durability!Decode

(* What the replay is given: the first commands of the session.            *)
LEMMA EventsAreAPrefix ==
    ASSUME Durability!Durable, Events # Unreadable
    PROVE  /\ Events \in Seq(Commands)
           /\ appended \in Seq(Commands)
           /\ Len(Events) <= Len(appended)
           /\ \A k \in 1..Len(Events) : Events[k] = appended[k]
<1>1. Events = Durability!Read(file)
  BY SameReader DEF Events
<1>2. appended \in Seq(Commands)
  BY DEF Durability!Durable, Durability!TypeOK
<1>3. /\ Durability!Complete(file) \in 0..Len(appended)
      /\ Durability!Read(file) \in Seq(Commands)
      /\ Len(Durability!Read(file)) = Durability!Complete(file)
      /\ \A k \in 1..Durability!Complete(file) : Durability!Read(file)[k] = appended[k]
  BY <1>1, Durability!ReadBack, EngineConstants, JournalConstants
<1> QED
  BY <1>1, <1>2, <1>3

-----------------------------------------------------------------------------
(* The live session. *)

(* One more state of the history.                                          *)
LEMMA LongerHistory ==
    ASSUME NEW s, s \in Seq(Range(s)), NEW e
    PROVE  /\ Append(s, e) \in Seq(Range(Append(s, e)))
           /\ Len(s) \in Nat /\ Len(Append(s, e)) = Len(s) + 1
           /\ \A k \in 1..Len(s) : Append(s, e)[k] = s[k]
           /\ Append(s, e)[Len(s) + 1] = e
<1> DEFINE S == Range(s) \cup {e}
           t == Append(s, e)
<1>1. s \in Seq(S) /\ Len(s) \in Nat
  OBVIOUS
<1> HIDE DEF S
<1>2. e \in S
  BY DEF S
<1>3. /\ t \in Seq(S) /\ Len(t) = Len(s) + 1
      /\ \A k \in 1..Len(s) : t[k] = s[k]
      /\ t[Len(s) + 1] = e
  BY <1>1, <1>2, AppendProperties
<1> HIDE DEF t
<1>4. t \in Seq(Range(t))
  <2>1. DOMAIN t = 1..Len(t) /\ Len(t) \in Nat /\ t = [k \in 1..Len(t) |-> t[k]]
    BY <1>3
  <2>2. \A k \in 1..Len(t) : t[k] \in Range(t)
    BY <2>1 DEF Range
  <2>3. t \in [1..Len(t) -> Range(t)]
    BY <2>1, <2>2
  <2> QED
    BY <2>1, <2>3
<1> QED
  BY <1>1, <1>3, <1>4 DEF t

(* The history while no command is finished; the journal may run ahead of  *)
(* it by the one in hand.                                                  *)
LEMMA HistoryStays ==
    ASSUME HistoryExecutes, appended \in Seq(Commands),
           states' = states,
           \/ appended' = appended
           \/ \E c \in Commands : appended' = Append(appended, c) /\ Len(appended) < Len(states)
    PROVE  HistoryExecutes'
<1>1. CASE appended' = appended
  BY <1>1 DEF HistoryExecutes
<1>2. ASSUME NEW c \in Commands, appended' = Append(appended, c), Len(appended) < Len(states)
      PROVE  HistoryExecutes'
  <2>1. /\ Len(appended) \in Nat /\ Len(appended') = Len(appended) + 1
        /\ \A k \in 1..Len(appended) : appended'[k] = appended[k]
    BY <1>2, AppendProperties
  <2>2. Len(states) \in Nat /\ Len(states) = Len(appended) + 1
    BY <1>2, <2>1 DEF HistoryExecutes
  <2>3. \A k \in 1..(Len(states) - 1) : appended'[k] = appended[k]
    BY <2>1, <2>2
  <2> QED
    BY <2>1, <2>2, <2>3 DEF HistoryExecutes
<1> QED
  BY <1>1, <1>2

(* The history when a command is finished.                                 *)
LEMMA HistoryGrows ==
    ASSUME HistoryExecutes, appended \in Seq(Commands), NEW e,
           states' = Append(states, e), appended' = appended,
           Len(appended) = Len(states),
           Turned(e) = 0 =>
               /\ Turned(states[Len(states)]) = 0
               /\ e = Execute(states[Len(states)], appended[Len(states)])
    PROVE  HistoryExecutes' /\ states'[Len(states')] = e
<1>1. /\ states' \in Seq(Range(states'))
      /\ Len(states) \in Nat /\ Len(states') = Len(states) + 1
      /\ \A k \in 1..Len(states) : states'[k] = states[k]
      /\ states'[Len(states) + 1] = e
  BY LongerHistory DEF HistoryExecutes
<1>2. Len(states) >= 1
  BY <1>1 DEF HistoryExecutes
<1>3. states'[1] = FirstState /\ states' # <<>>
  BY <1>1, <1>2 DEF HistoryExecutes
<1>4. ASSUME NEW k \in 1..(Len(states') - 1), Turned(states'[k + 1]) = 0
      PROVE  Turned(states'[k]) = 0 /\ states'[k + 1] = Execute(states'[k], appended'[k])
  <2>1. CASE k = Len(states)
    BY <1>1, <1>2, <1>4, <2>1
  <2>2. CASE k # Len(states)
    <3>1. k \in 1..(Len(states) - 1) /\ k \in 1..Len(states) /\ k + 1 \in 1..Len(states)
      BY <1>1, <1>2, <2>2
    <3>2. states'[k] = states[k] /\ states'[k + 1] = states[k + 1]
      BY <1>1, <3>1
    <3> QED
      BY <1>4, <3>1, <3>2, SMTT(30) DEF HistoryExecutes
  <2> QED
    BY <2>1, <2>2
<1>5. Len(appended') <= Len(states') /\ Len(states') <= Len(appended') + 1
  BY <1>1
<1>6. FirstState' = FirstState
  BY DEF FirstState, Risk!RejectReason, Risk!Checks
<1> QED
  BY <1>1, <1>3, <1>4, <1>5, <1>6 DEF HistoryExecutes

(* What the consumer has journaled, against what it has finished.          *)
LEMMA JournalAndHistory ==
    ASSUME Safe, Len(states) = Len(applied) + 1
    PROVE  /\ applied \in Seq(Commands) /\ Len(applied) \in Nat
           /\ worker.pc \in {"loop", "journal", "exited"} => Len(appended) < Len(states)
           /\ worker.pc = "tally" =>
                  Len(appended) = Len(states) /\ appended[Len(states)] = worker.cmd
<1>1. /\ applied \in Seq(Commands) /\ Len(applied) \in Nat
  BY DEF Safe, Sane, TypeOK
<1>2. worker.pc \in {"loop", "journal", "exited"} => appended = applied
  BY DEF Safe, JournalLeads
<1>3. ASSUME worker.pc = "tally"
      PROVE  Len(appended) = Len(states) /\ appended[Len(states)] = worker.cmd
  <2>1. appended = Append(applied, worker.cmd)
    BY <1>3 DEF Safe, JournalLeads
  <2>2. worker.cmd \in Commands
    BY <1>3 DEF Safe, Sane, HoldsCommand, TypeOK
  <2> QED
    BY <1>1, <2>1, <2>2, AppendProperties
<1> QED
  BY <1>1, <1>2, <1>3

(* A step of the live engine that does not finish a command.               *)
LEMMA LiveOnTheWay ==
    ASSUME Restorable, phase = "live", [Next]_vars, ~Tally, states' = states
    PROVE  /\ HistoryExecutes'
           /\ applied' = applied
           /\ counter'["KillSwitch"] = 0 /\ ~HaltedInCheck' =>
                  /\ Turned(states[Len(states)]) = 0
                  /\ \A x : x = states[Len(states)] => Continues(x)'
<1>1. /\ Sane /\ Safe /\ AsksTheBook /\ HistoryExecutes /\ appended \in Seq(Commands)
      /\ TypeOK /\ HoldsCommand /\ Len(states) = Len(applied) + 1
  BY DEF Restorable, LiveInStep, Sane, Durability!Durable, Durability!TypeOK
<1>2. applied' = applied
  BY AroundFrame DEF Next, Consumer, Apply, Around, PopCommand, PopSentinel, Journal,
     ReadSwitch, Decide, EnterBook, RemoveOrder, CountKind, CountTrades, vars, engineVars
<1>3. HistoryExecutes'
  <2>1. \/ appended' = appended
        \/ /\ worker.cmd \in Commands /\ worker.pc = "journal"
           /\ appended' = Append(appended, worker.cmd)
    BY <1>1, JournalMoves DEF Log!AppendRecord, Log!Flush, logVars, Journal, At
  <2>2. worker.pc = "journal" => Len(appended) < Len(states)
    BY <1>1, JournalAndHistory
  <2> QED
    BY <1>1, <2>1, <2>2, HistoryStays
<1>4. ASSUME counter'["KillSwitch"] = 0, ~HaltedInCheck'
      PROVE  /\ Turned(states[Len(states)]) = 0
             /\ \A x : x = states[Len(states)] => Continues(x)'
  <2>1. counter["KillSwitch"] = 0 /\ ~HaltedInCheck
    BY <1>1, <1>4, TurnedStep
  <2>2. Turned(states[Len(states)]) = 0 /\ Continues(states[Len(states)])
    BY <2>1 DEF Restorable, LiveInStep
  <2>3. ASSUME NEW x, x = states[Len(states)] PROVE Continues(x)'
    <3>1. Continues(x)
      BY <2>2, <2>3
    <3>2. CASE Apply
      BY <1>1, <2>1, <3>1, <3>2, ApplyContinues
    <3>3. CASE PopCommand
      <4>1. Head(queue) \in Commands /\ StartApply(Head(queue))
        BY <1>1, <3>3, HeadOfQueue DEF PopCommand, Pop
      <4>2. Observed' = Observed
        BY <3>3 DEF PopCommand, engineVars, bookVars, riskVars, Observed
      <4>3. PICK cmd \in Commands : StartApply(cmd)
        BY <4>1
      <4> QED
        BY <1>1, <3>1, <4>2, <4>3, StartContinues
    <3>4. CASE PopSentinel
      <4>1. /\ Observed' = Observed /\ worker.cmd = Idle /\ worker'.cmd = worker.cmd
        BY <1>1, <3>4 DEF PopSentinel, engineVars, bookVars, riskVars, Observed, Goto, At,
           HoldsCommand, TypeOK
      <4> QED
        BY <3>1, <4>1 DEF Continues
    <3>5. CASE Around \/ UNCHANGED vars
      <4>1. UNCHANGED <<Observed, worker, result>>
        BY <3>5, AroundFrame DEF vars, engineVars, bookVars, riskVars, Observed
      <4> QED
        BY <3>1, <4>1, AroundContinues
    <3> QED
      BY <3>2, <3>3, <3>4, <3>5 DEF Next, Consumer, Around
  <2> QED
    BY <2>2, <2>3
<1> QED
  BY <1>2, <1>3, <1>4

(* A command is finished: its state is recorded.                           *)
LEMMA LiveFinishes ==
    ASSUME Restorable, phase = "live", Tally, states' = Append(states, Observed')
    PROVE  /\ HistoryExecutes'
           /\ Len(applied') = Len(applied) + 1 /\ Len(states') = Len(states) + 1
           /\ states'[Len(states')] = Observed'
           /\ worker'.cmd = Idle
<1>1. /\ Sane /\ Safe /\ AsksTheBook /\ HistoryExecutes /\ appended \in Seq(Commands)
      /\ TypeOK /\ HoldsCommand /\ Len(states) = Len(applied) + 1
  BY DEF Restorable, LiveInStep, Sane, Durability!Durable, Durability!TypeOK
<1>2. /\ worker.pc = "tally" /\ applied' = Append(applied, worker.cmd)
      /\ worker'.cmd = Idle /\ appended' = appended /\ counter' = counter
  BY DEF Tally, At, logVars, riskVars
<1>3. worker.cmd \in Commands
  BY <1>1, <1>2 DEF HoldsCommand, TypeOK
<1>4. Len(applied') = Len(applied) + 1
  BY <1>1, <1>2, <1>3, AppendProperties DEF TypeOK
<1>5. /\ Len(appended) = Len(states) /\ appended[Len(states)] = worker.cmd
  BY <1>1, <1>2, JournalAndHistory
<1>6. PICK e : e = Observed'
  OBVIOUS
<1>7. PICK x : x = states[Len(states)]
  OBVIOUS
<1>8. ASSUME Turned(e) = 0
      PROVE  Turned(x) = 0 /\ e = Execute(x, worker.cmd)
  <2>1. counter["KillSwitch"] = 0 /\ ~HaltedInCheck
    BY <1>2, <1>6, <1>8 DEF Turned, Observed, HaltedInCheck
  <2>2. Turned(x) = 0 /\ Continues(x)
    BY <1>7, <2>1 DEF Restorable, LiveInStep
  <2>3. Observed' = Execute(x, worker.cmd)
    BY <1>1, <2>1, <2>2, ApplyContinues DEF Apply
  <2> QED
    BY <1>6, <2>2, <2>3
<1>9. HistoryExecutes' /\ states'[Len(states')] = e
  BY <1>1, <1>2, <1>5, <1>6, <1>7, <1>8, HistoryGrows
<1>10. Len(states') = Len(states) + 1
  BY <1>1, LongerHistory DEF HistoryExecutes
<1> QED
  BY <1>2, <1>4, <1>6, <1>9, <1>10

(* Once the controller has joined, every command is in the journal, and    *)
(* what each made of the engine is recorded.                               *)
LEMMA JoinedWhenLive == phase = "live" /\ LiveInStep => JoinedIsJournaled
<1> SUFFICES ASSUME phase = "live", LiveInStep, control \in {"joined", "flushed"}
             PROVE  appended = pushed /\ Len(states) = Len(pushed) + 1
  BY DEF JoinedIsJournaled
<1>1. Safe /\ Len(states) = Len(applied) + 1
  BY DEF LiveInStep
<1>2. worker.pc = "exited"
  BY <1>1 DEF Safe, SentinelIsLast
<1>3. appended = applied /\ applied = pushed
  BY <1>1, <1>2 DEF Safe, JournalLeads, EveryCommandOnce
<1> QED
  BY <1>1, <1>3

LEMMA LiveKeeps ==
    ASSUME Restorable, Live
    PROVE  Restorable'
<1>1. /\ phase = "live" /\ phase' = "live" /\ todo' = todo /\ [Next]_vars
      /\ states' = IF applied' # applied THEN Append(states, Observed') ELSE states
  BY DEF Live
<1>2. Safe /\ Sane /\ Durability!Durable /\ AsksTheBook /\ todo = <<>>
      /\ Len(states) = Len(applied) + 1 /\ HistoryExecutes /\ RecoveryTypeOK
  BY <1>1 DEF Restorable, LiveInStep
<1>3. Safe' /\ Sane' /\ Durability!Durable' /\ AsksTheBook'
  BY <1>1, <1>2, SafeStep, SaneStep, DurableStep, AsksTheBookStep
<1>4. LiveInStep' => JoinedIsJournaled'
  <2>1. (phase = "live" /\ LiveInStep)' => JoinedIsJournaled'
    BY JoinedWhenLive, PTL
  <2> QED
    BY <1>1, <2>1
<1>5. ReplayInStep'
  BY <1>1 DEF ReplayInStep
<1>6. CASE Tally
  <2>1. worker.cmd \in Commands /\ applied \in Seq(Commands)
    BY <1>2, <1>6 DEF Sane, TypeOK, HoldsCommand, Tally, At
  <2>2. applied' # applied
    <3>1. applied' = Append(applied, worker.cmd)
      BY <1>6 DEF Tally
    <3>2. Len(applied') = Len(applied) + 1 /\ Len(applied) \in Nat
      BY <2>1, <3>1, AppendProperties
    <3> QED
      BY <3>2
  <2>3. states' = Append(states, Observed')
    BY <1>1, <2>2
  <2>4. /\ HistoryExecutes' /\ Len(states') = Len(applied') + 1
        /\ states'[Len(states')] = Observed' /\ worker'.cmd = Idle
    BY <1>1, <1>2, <1>6, <2>1, <2>3, LiveFinishes
  <2>5. Continues(states[Len(states)])'
    BY <2>4 DEF Continues
  <2>6. counter'["KillSwitch"] = 0 => Turned(states'[Len(states')]) = 0
    BY <2>4 DEF Turned, Observed
  <2>7. LiveInStep'
    BY <1>1, <1>2, <1>3, <2>4, <2>5, <2>6 DEF LiveInStep, Turned
  <2>8. RecoveryTypeOK'
    <3>1. states' \in Seq(Range(states')) /\ Len(states) \in Nat
          /\ Len(states') = Len(states) + 1
          /\ \A k \in 1..Len(states) : states'[k] = states[k]
          /\ states'[Len(states) + 1] = Observed'
      BY <1>2, <2>3, LongerHistory DEF HistoryExecutes
    <3>3. states'[Len(states')].stats = stats'
      BY <2>4 DEF Observed
    <3>2. DOMAIN states' = 1..(Len(states) + 1) /\ DOMAIN states = 1..Len(states)
      BY <1>2, <3>1 DEF HistoryExecutes
    <3>4. ASSUME NEW k \in DOMAIN states'
          PROVE  states'[k].stats \in [commands : Nat, submits : Nat, cancels : Nat,
                                       trades : Nat]
      <4>1. CASE k = Len(states) + 1
        <5>1. states'[k] = states'[Len(states')]
          BY <3>1, <4>1
        <5> QED
          BY <1>3, <3>3, <5>1 DEF Sane, TypeOK
      <4>2. CASE k \in 1..Len(states)
        BY <1>2, <3>1, <3>2, <4>2 DEF RecoveryTypeOK
      <4> QED
        BY <3>1, <3>2, <4>1, <4>2
    <3> QED
      BY <1>1, <1>2, <3>4 DEF RecoveryTypeOK
  <2> QED
    BY <1>3, <1>4, <1>5, <2>4, <2>7, <2>8 DEF Restorable
<1>7. CASE ~Tally
  <2>1. applied' = applied
    BY <1>1, <1>7, AroundFrame DEF Next, Consumer, Apply, Around, PopCommand, PopSentinel,
       Journal, ReadSwitch, Decide, EnterBook, RemoveOrder, CountKind, CountTrades, vars,
       engineVars
  <2>2. states' = states
    BY <1>1, <2>1
  <2>3. /\ HistoryExecutes'
        /\ counter'["KillSwitch"] = 0 /\ ~HaltedInCheck' =>
               /\ Turned(states[Len(states)]) = 0
               /\ \A x : x = states[Len(states)] => Continues(x)'
    BY <1>1, <1>7, <2>2, LiveOnTheWay
  <2>4. counter'["KillSwitch"] = 0 /\ ~HaltedInCheck' =>
            Turned(states'[Len(states')]) = 0 /\ Continues(states[Len(states)])'
    <3>1. PICK x : x = states[Len(states)]
      OBVIOUS
    <3>2. x = states'[Len(states')]
      BY <2>2, <3>1
    <3>3. Continues(x)' => Continues(states[Len(states)])'
      BY <3>2 DEF Continues
    <3> QED
      BY <2>2, <2>3, <3>1, <3>3
  <2>5. LiveInStep'
    BY <1>1, <1>2, <1>3, <2>1, <2>2, <2>4 DEF LiveInStep, Turned
  <2>6. RecoveryTypeOK'
    BY <1>1, <1>2, <2>2 DEF RecoveryTypeOK
  <2> QED
    BY <1>3, <1>4, <1>5, <2>3, <2>5, <2>6 DEF Restorable
<1> QED
  BY <1>6, <1>7

LEMMA DiskKeeps ==
    ASSUME Restorable, Disk
    PROVE  Restorable'
<1>1. /\ UNCHANGED <<threadVars, worker, engineVars, bookVars, riskVars, recoveryVars>>
      /\ phase = "live" /\ appended' = appended /\ stream' # "closed"
  BY DEF Disk, Log!Spill, Log!WriteFails
<1>2. /\ UNCHANGED <<queue, producer, control, pushed, worker, stats, applied, late>>
      /\ UNCHANGED <<resting, trades, result, nextSeq>>
      /\ UNCHANGED <<killSwitch, seen, counter, call, accepted, phase, todo, states>>
  BY <1>1 DEF threadVars, engineVars, bookVars, riskVars, recoveryVars
<1>3. Sane /\ Safe /\ Durability!Durable
  BY <1>1 DEF Restorable, LiveInStep
<1>4. Sane'
  BY <1>2, <1>3 DEF Sane, TypeOK, HoldsCommand, GateServesWorker, BookIsFinite
<1>5. Safe'
  <2>1. SentinelIsLast' /\ LogStaysOpen' /\ LateOnce' /\ IdsAreKnown' /\ JournalLeads'
    BY <1>1, <1>2, <1>3 DEF Safe, SentinelIsLast, LogStaysOpen, LateOnce, MayEnter,
       IdsAreKnown, JournalLeads
  <2>2. CountsInFlight'
    BY <1>2, <1>3 DEF Safe, CountsInFlight, Risk!total_rejected
  <2>3. EveryCommandOnce'
    BY <1>2, <1>3 DEF Safe, EveryCommandOnce, InHand, Waiting
  <2> QED
    BY <1>4, <2>1, <2>2, <2>3 DEF Safe
<1>6. Durability!Durable'
  BY <1>3, DurableOnDisk DEF Disk
<1>7. Observed' = Observed /\ Due' = Due
  BY <1>2 DEF Observed, Due
<1>8. LiveInStep'
  BY <1>1, <1>2, <1>5, <1>7 DEF Restorable, LiveInStep, Continues, HaltedInCheck, Turned
<1>9. ReplayInStep'
  BY <1>1, <1>2 DEF ReplayInStep
<1>10. RecoveryTypeOK' /\ HistoryExecutes' /\ JoinedIsJournaled'
  BY <1>1, <1>2 DEF Restorable, RecoveryTypeOK, HistoryExecutes, JoinedIsJournaled
<1>11. AsksTheBook'
  BY <1>2 DEF Restorable, AsksTheBook, Touch
<1> QED
  BY <1>4, <1>6, <1>8, <1>9, <1>10, <1>11 DEF Restorable

-----------------------------------------------------------------------------
(* The crash and the replay. *)

LEMMA NewEngineIsSane ==
    ASSUME Sane, NewEngine, queue' = <<>>, applied' = <<>>, late' = 0,
           UNCHANGED <<producer, control, pushed>>
    PROVE  Sane' /\ AsksTheBook' /\ Observed' = FirstState /\ worker'.cmd = Idle
           /\ worker'.pc = "loop" /\ ~killSwitch'
<1>1. /\ worker' = [pc |-> "loop", cmd |-> Idle]
      /\ resting' = {} /\ result'.trade_count = 0
      /\ counter' = [r \in Risk!RejectReason |-> 0] /\ call' = NoCheck
      /\ killSwitch' = FALSE
      /\ stats' = [commands |-> 0, submits |-> 0, cancels |-> 0, trades |-> 0]
  BY DEF NewEngine
<1>2. worker'.pc = "loop" /\ worker'.cmd = Idle
  BY <1>1
<1>3. <<>> \in Seq(Commands) /\ <<>> \in Seq(Commands \cup {Shutdown}) /\ Len(<<>>) = 0
  OBVIOUS
<1>4. TypeOK'
  BY <1>1, <1>3, EngineConstants DEF TypeOK, Sane
<1>5. HoldsCommand'
  BY <1>2 DEF HoldsCommand
<1>6. GateServesWorker'
  <2>1. counter' \in [Risk!RejectReason -> Nat]
    BY <1>1
  <2>2. Risk!RejectReason' = Risk!RejectReason
    BY DEF Risk!RejectReason, Risk!Checks
  <2> QED
    BY <1>1, <1>2, <2>1, <2>2 DEF GateServesWorker
<1>7. BookIsFinite'
  BY <1>1, FS_EmptySet DEF BookIsFinite
<1>8. AsksTheBook'
  BY <1>2 DEF AsksTheBook
<1>9. Observed' = FirstState
  BY DEF NewEngine, Observed, FirstState
<1> QED
  BY <1>1, <1>2, <1>4, <1>5, <1>6, <1>7, <1>8, <1>9 DEF Sane

LEMMA CrashKeeps ==
    ASSUME Restorable, Crash
    PROVE  Restorable'
<1>1. /\ phase = "live" /\ Log!ProcessDies /\ NewEngine
      /\ queue' = <<>> /\ applied' = <<>> /\ late' = 0
      /\ UNCHANGED <<producer, control, pushed, states>>
      /\ phase' = IF Events = Unreadable THEN "failed" ELSE "replaying"
      /\ todo' = IF Events = Unreadable THEN <<>> ELSE Events
  BY DEF Crash, Events
<1>2. stream' = "closed" /\ UNCHANGED <<file, appended, flushed>>
  BY <1>1 DEF Log!ProcessDies
<1>3. Events' = Events
  BY <1>2 DEF Events, Log!Read, Log!Header, Log!Magic, Log!Complete, Log!Decode
<1>4. Sane /\ Durability!Durable /\ HistoryExecutes /\ JoinedIsJournaled /\ RecoveryTypeOK
  BY DEF Restorable
<1>5. /\ Sane' /\ AsksTheBook' /\ Observed' = FirstState /\ worker'.cmd = Idle
      /\ worker'.pc = "loop" /\ ~killSwitch'
  BY <1>1, <1>4, NewEngineIsSane
<1>6. Durability!Durable'
  BY <1>1, <1>4, DurableOnDisk
<1>7. Events # Unreadable => Events \in Seq(Commands)
  BY <1>4, EventsAreAPrefix
<1>8. RecoveryTypeOK'
  <2>1. todo' \in Seq(Commands) /\ phase' \in {"replaying", "failed"}
    BY <1>1, <1>7
  <2> QED
    BY <1>1, <1>4, <2>1 DEF RecoveryTypeOK
<1>9. HistoryExecutes' /\ JoinedIsJournaled'
  BY <1>1, <1>2, <1>4 DEF HistoryExecutes, JoinedIsJournaled
<1>10. LiveInStep'
  BY <1>1 DEF LiveInStep
<1>11. ReplayInStep'
  <2> SUFFICES ASSUME Events # Unreadable PROVE ReplayInStep'
    BY <1>1 DEF ReplayInStep
  <2>1. /\ phase' = "replaying" /\ todo' = Events /\ todo' = Events'
        /\ InHand' = <<>> /\ ~HaltedInCheck'
    BY <1>1, <1>3, <1>5 DEF InHand, HaltedInCheck
  <2>2. <<>> \o <<>> \o Events = Events
    BY <1>7, ConcatEmptySeq
  <2>3. (applied \o InHand \o todo = Events)'
    BY <1>1, <2>1, <2>2
  <2>4. Len(applied') + 1 = 1
    BY <1>1
  <2>5. states'[1] = FirstState
    BY <1>1, <1>4 DEF HistoryExecutes
  <2>6. Continues(states[1])'
    BY <1>5, <2>5 DEF Continues
  <2> QED
    BY <1>2, <1>3, <1>5, <2>1, <2>3, <2>4, <2>6 DEF ReplayInStep
<1> QED
  BY <1>5, <1>6, <1>8, <1>9, <1>10, <1>11 DEF Restorable

(* What the replay leaves alone.                                           *)
LEMMA ReplayFrame ==
    ASSUME Restorable, phase = "replaying", UNCHANGED <<logVars, states, control, pushed>>,
           Sane', AsksTheBook', phase' \in {"replaying", "recovered"},
           todo' \in Seq(Commands), ReplayInStep'
    PROVE  Restorable'
<1>1. Durability!Durable'
  BY DurableUnchanged DEF Restorable
<1>2. RecoveryTypeOK' /\ HistoryExecutes' /\ JoinedIsJournaled'
  BY DEF Restorable, RecoveryTypeOK, HistoryExecutes, JoinedIsJournaled, logVars
<1>3. LiveInStep'
  BY DEF LiveInStep
<1> QED
  BY <1>1, <1>2, <1>3 DEF Restorable

LEMMA EventsUnchanged ==
    ASSUME UNCHANGED logVars
    PROVE  Events' = Events /\ stream' = stream
BY DEF logVars, Events, Log!Read, Log!Header, Log!Magic, Log!Complete, Log!Decode

LEMMA ReplayNextKeeps ==
    ASSUME Restorable, ReplayNext
    PROVE  Restorable'
<1>1. /\ phase = "replaying" /\ phase' = "replaying" /\ todo # <<>>
      /\ StartApply(Head(todo)) /\ todo' = Tail(todo)
      /\ UNCHANGED <<threadVars, engineVars, bookVars, riskVars, logVars, states>>
  BY DEF ReplayNext, Rest
<1>2. /\ UNCHANGED <<queue, producer, control, pushed, stats, applied, late>>
      /\ UNCHANGED <<resting, trades, result, nextSeq>>
      /\ UNCHANGED <<killSwitch, seen, counter, call, accepted>>
  BY <1>1 DEF threadVars, engineVars, bookVars, riskVars
<1>3. /\ Sane /\ TypeOK /\ HoldsCommand /\ AsksTheBook /\ todo \in Seq(Commands)
      /\ stream = "closed" /\ Events # Unreadable
      /\ applied \o InHand \o todo = Events /\ ~killSwitch
  BY <1>1 DEF Restorable, RecoveryTypeOK, ReplayInStep, Sane
<1>4. Head(todo) \in Commands /\ Tail(todo) \in Seq(Commands)
  BY <1>1, <1>3, HeadTailProperties
<1>5. /\ worker.pc = "loop" /\ worker.cmd = Idle
      /\ worker' = [pc |-> "journal", cmd |-> Head(todo)]
      /\ Head(todo) # Idle
  BY <1>1, <1>3, <1>4, EngineConstants DEF StartApply, At, HoldsCommand
<1>6. worker'.pc = "journal" /\ worker'.cmd = Head(todo)
  BY <1>5
<1>7. Sane'
  <2>1. TypeOK'
    BY <1>2, <1>3, <1>4, <1>5 DEF TypeOK
  <2>2. HoldsCommand'
    BY <1>5, <1>6 DEF HoldsCommand
  <2>3. GateServesWorker' /\ BookIsFinite'
    BY <1>2, <1>3, <1>5, <1>6 DEF Sane, GateServesWorker, BookIsFinite
  <2> QED
    BY <2>1, <2>2, <2>3 DEF Sane
<1>8. AsksTheBook' /\ ~HaltedInCheck'
  BY <1>6 DEF AsksTheBook, HaltedInCheck
<1>9. (applied \o InHand \o todo = Events)'
  <2>1. InHand = <<>> /\ InHand' = <<Head(todo)>>
    BY <1>5, <1>6 DEF InHand
  <2>2. applied \o <<>> \o todo = applied \o <<Head(todo)>> \o Tail(todo)
    <3>1. applied \in Seq(Commands) /\ todo \in Seq(Commands) /\ todo # <<>>
      BY <1>1, <1>3 DEF TypeOK
    <3> QED
      BY <3>1, TakeTheFirst
  <2>3. Events' = Events /\ applied' = applied /\ todo' = Tail(todo)
    BY <1>1, <1>2, EventsUnchanged
  <2>4. applied \o <<>> \o todo = Events
    BY <1>3, <2>1
  <2> QED
    BY <2>1, <2>2, <2>3, <2>4
<1>10. ReplayInStep'
  <2>1. ASSUME NEW n \in 1..Len(states'), n = Len(applied') + 1, Turned(states'[n]) = 0
        PROVE  Continues(states[n])'
    <3>1. PICK x : x = states[n]
      OBVIOUS
    <3>2. Continues(x)
      BY <1>1, <1>2, <2>1, <3>1 DEF Restorable, ReplayInStep, Turned
    <3>3. Observed' = Observed
      BY <1>2 DEF Observed
    <3>4. PICK cmd \in Commands : StartApply(cmd)
      BY <1>1, <1>4
    <3>5. Continues(x)'
      BY <1>3, <3>2, <3>3, <3>4, StartContinues
    <3> QED
      BY <1>1, <3>1, <3>5 DEF Continues
  <2> QED
    BY <1>1, <1>2, <1>3, <1>6, <1>8, <1>9, <2>1, EventsUnchanged DEF ReplayInStep, Turned
<1> QED
  BY <1>1, <1>2, <1>4, <1>7, <1>8, <1>10, ReplayFrame

(* The command in hand is the one the journal has at its place.            *)
LEMMA HeldIsNext ==
    ASSUME NEW a \in Seq(Commands), NEW c \in Commands, NEW w \in Seq(Commands)
    PROVE  /\ Len(a) \in Nat
           /\ Len(a) + 1 \in 1..Len(a \o <<c>> \o w)
           /\ (a \o <<c>> \o w)[Len(a) + 1] = c
<1>1. <<c>> \in Seq(Commands) /\ Len(<<c>>) = 1 /\ <<c>>[1] = c
  OBVIOUS
<1>2. PICK b \in Seq(Commands) : b = a \o <<c>>
  BY <1>1, ConcatProperties
<1>3. Len(b) = Len(a) + 1 /\ b[Len(a) + 1] = c /\ Len(a) \in Nat
  BY <1>1, <1>2, ConcatProperties
<1>4. Len(b \o w) = Len(b) + Len(w) /\ \A i \in 1..Len(b) : (b \o w)[i] = b[i]
  BY <1>2, ConcatProperties
<1> QED
  BY <1>2, <1>3, <1>4

(* A step of the replayed apply(): the gate has its switch off and nothing *)
(* is journaled.                                                           *)
LEMMA ReplayApplies ==
    ASSUME Sane, Apply, stream = "closed", ~killSwitch, ~HaltedInCheck
    PROVE  /\ UNCHANGED <<threadVars, logVars, killSwitch>>
           /\ ~HaltedInCheck' /\ worker'.pc # "exited"
           /\ [Next]_vars /\ worker.cmd \in Commands
<1>1. TypeOK /\ HoldsCommand /\ GateServesWorker
  BY DEF Sane
<1>2. [Next]_vars
  BY DEF Next, Consumer
<1>3. UNCHANGED logVars
  BY <1>2, JournalMoves DEF Log!AppendRecord, Log!Flush
<1>4. UNCHANGED <<threadVars, killSwitch>>
  BY ApplyFrame
<1>5. GateServesWorker'
  BY <1>2, GateServesWorkerStep
<1>6. ~HaltedInCheck'
  <2>1. CASE ReadSwitch
    BY <2>1 DEF ReadSwitch, Risk!StartCheck, Risk!Loaded, HaltedInCheck
  <2>2. CASE Decide
    BY <1>1, <2>2 DEF Decide, Goto, AfterCheck, TypeOK, HaltedInCheck
  <2>3. CASE Elsewhere /\ ~PopCommand
    <3>1. call' = call /\ worker.pc # "check"
      BY <2>3, ElsewhereFrame
    <3> QED
      BY <1>1, <1>5, <3>1 DEF GateServesWorker, HaltedInCheck
  <2>4. ~PopCommand
    BY DEF Apply, PopCommand, StartApply, Journal, ReadSwitch, Decide, EnterBook,
       RemoveOrder, CountKind, CountTrades, Tally, At
  <2> QED
    BY <2>1, <2>2, <2>3, <2>4 DEF Apply, Elsewhere
<1>7. worker.pc \notin {"loop", "exited"}
  BY DEF Apply, Journal, ReadSwitch, Decide, EnterBook, RemoveOrder, CountKind,
     CountTrades, Tally, At
<1>8. worker'.pc # "exited"
  <2>1. CASE Journal
    BY <1>1, <2>1, EngineConstants DEF Journal, At, Goto, AfterJournal, TypeOK,
       HoldsCommand, Commands
  <2>2. CASE ~Journal
    BY <1>1, <2>2 DEF Apply, ReadSwitch, Decide, AfterCheck, EnterBook, RemoveOrder,
       CountKind, CountTrades, Tally, Goto, TypeOK
  <2> QED
    BY <2>1, <2>2
<1> QED
  BY <1>1, <1>2, <1>3, <1>4, <1>6, <1>7, <1>8 DEF HoldsCommand, TypeOK

LEMMA ReplayStepKeeps ==
    ASSUME Restorable, ReplayStep
    PROVE  Restorable'
<1>1. /\ phase = "replaying" /\ Apply /\ UNCHANGED <<phase, todo, states>>
  BY DEF ReplayStep, recoveryVars
<1>2. /\ Sane /\ TypeOK /\ HoldsCommand /\ AsksTheBook /\ todo \in Seq(Commands)
      /\ Durability!Durable /\ HistoryExecutes
      /\ stream = "closed" /\ Events # Unreadable
      /\ applied \o InHand \o todo = Events /\ ~killSwitch /\ ~HaltedInCheck
      /\ \A n \in 1..Len(states) :
             n = Len(applied) + 1 /\ Turned(states[n]) = 0 => Continues(states[n])
  BY <1>1 DEF Restorable, RecoveryTypeOK, ReplayInStep, Sane
<1>3. /\ UNCHANGED <<threadVars, logVars, killSwitch>>
      /\ ~HaltedInCheck' /\ worker'.pc # "exited"
      /\ [Next]_vars /\ worker.cmd \in Commands
  BY <1>1, <1>2, ReplayApplies
<1>4. Sane' /\ AsksTheBook'
  BY <1>2, <1>3, SaneStep, AsksTheBookStep
<1>5. worker.cmd # Idle /\ InHand = <<worker.cmd>> /\ applied \in Seq(Commands)
  BY <1>2, <1>3, EngineConstants DEF InHand, TypeOK
<1>6. Events' = Events /\ stream' = stream
  BY <1>3, EventsUnchanged
<1>7. CASE Tally
  <2>1. /\ applied' = Append(applied, worker.cmd) /\ worker'.cmd = Idle
    BY <1>7 DEF Tally
  <2>2. InHand' = <<>> /\ Len(applied') = Len(applied) + 1 /\ Len(applied) \in Nat
    BY <1>3, <1>5, <2>1, AppendProperties DEF InHand
  <2>3. (applied \o InHand \o todo = Events)'
    <3>1. Append(applied, worker.cmd) \o <<>> \o todo = applied \o <<worker.cmd>> \o todo
      BY <1>2, <1>3, <1>5, FinishTheHeld
    <3> QED
      BY <1>1, <1>2, <1>5, <1>6, <2>1, <2>2, <3>1
  <2>4. ASSUME NEW n \in 1..Len(states'), n = Len(applied') + 1, Turned(states'[n]) = 0
        PROVE  Continues(states[n])'
    <3>1. PICK k : k = Len(applied) + 1
      OBVIOUS
    <3>2. /\ k \in 1..(Len(states) - 1) /\ k \in 1..Len(states) /\ n = k + 1
      <4>1. Len(states) \in Nat
        BY <1>2 DEF HistoryExecutes
      <4> QED
        BY <1>1, <2>2, <2>4, <3>1, <4>1
    <3>3. /\ Turned(states[k]) = 0
          /\ states[n] = Execute(states[k], appended[k])
      BY <1>1, <1>2, <2>4, <3>2 DEF HistoryExecutes
    <3>4. appended[k] = worker.cmd
      <4>1. k \in 1..Len(Events) /\ Events[k] = worker.cmd
        BY <1>2, <1>3, <1>5, <3>1, HeldIsNext
      <4> QED
        BY <1>2, <4>1, EventsAreAPrefix
    <3>5. PICK x : x = states[k]
      OBVIOUS
    <3>6. Continues(x)
      BY <1>2, <3>1, <3>2, <3>3, <3>5
    <3>7. Observed' = Execute(x, worker.cmd)
      BY <1>1, <1>2, <1>7, <3>6, ApplyContinues
    <3>8. Observed' = states'[n]
      BY <1>1, <3>3, <3>4, <3>5, <3>7
    <3> QED
      BY <2>1, <3>8 DEF Continues
  <2>5. ReplayInStep'
    BY <1>1, <1>2, <1>3, <1>6, <2>3, <2>4 DEF ReplayInStep, Turned
  <2> QED
    BY <1>1, <1>2, <1>3, <1>4, <2>5, ReplayFrame DEF threadVars
<1>8. CASE ~Tally
  <2>1. applied' = applied /\ worker'.cmd = worker.cmd
    BY <1>1, <1>2, <1>8, SMTT(30) DEF Apply, Journal, ReadSwitch, Decide, EnterBook, RemoveOrder,
       CountKind, CountTrades, Goto, engineVars, TypeOK
  <2>2. (applied \o InHand \o todo = Events)'
    BY <1>1, <1>2, <1>6, <2>1 DEF InHand
  <2>3. ASSUME NEW n \in 1..Len(states'), n = Len(applied') + 1, Turned(states'[n]) = 0
        PROVE  Continues(states[n])'
    <3>1. PICK x : x = states[n]
      OBVIOUS
    <3>2. Continues(x)
      BY <1>1, <1>2, <2>1, <2>3, <3>1
    <3>3. Continues(x)'
      BY <1>1, <1>2, <1>8, <3>2, ApplyContinues
    <3> QED
      BY <1>1, <3>1, <3>3 DEF Continues
  <2>4. ReplayInStep'
    BY <1>1, <1>2, <1>3, <1>6, <2>2, <2>3 DEF ReplayInStep, Turned
  <2> QED
    BY <1>1, <1>2, <1>3, <1>4, <2>4, ReplayFrame DEF threadVars
<1> QED
  BY <1>7, <1>8

LEMMA ReplayEndsKeeps ==
    ASSUME Restorable, ReplayEnds
    PROVE  Restorable'
<1>1. /\ phase = "replaying" /\ phase' = "recovered" /\ todo = <<>> /\ worker.pc = "loop"
      /\ UNCHANGED <<vars, todo, states>>
  BY DEF ReplayEnds, At
<1>2. /\ UNCHANGED <<queue, producer, control, pushed, worker, stats, applied, late>>
      /\ UNCHANGED <<resting, trades, result, nextSeq>>
      /\ UNCHANGED <<killSwitch, seen, counter, call, accepted, logVars>>
  BY <1>1 DEF vars, threadVars, engineVars, bookVars, riskVars
<1>3. Sane /\ AsksTheBook /\ todo \in Seq(Commands) /\ ReplayInStep
  BY DEF Restorable, RecoveryTypeOK
<1>4. Sane' /\ AsksTheBook'
  BY <1>2, <1>3, ZenonT(30) DEF Sane, TypeOK, HoldsCommand, GateServesWorker, BookIsFinite, AsksTheBook,
     Touch
<1>5. worker.cmd = Idle
  BY <1>1, <1>3 DEF Sane, HoldsCommand
<1>6. Observed' = Observed /\ Due' = Due
  BY <1>2 DEF Observed, Due
<1>7. Events' = Events /\ stream' = stream
  BY <1>2, EventsUnchanged
<1>8. ReplayInStep'
  BY <1>1, <1>2, <1>3, <1>5, <1>6, <1>7 DEF ReplayInStep, Continues, HaltedInCheck, InHand,
     Turned
<1> QED
  BY <1>1, <1>2, <1>3, <1>4, <1>8, ReplayFrame

-----------------------------------------------------------------------------
(* The theorems. *)

LEMMA RestorableAtStart == RecoveryInit => Restorable
<1> SUFFICES ASSUME RecoveryInit PROVE Restorable
  OBVIOUS
<1>1. /\ Init /\ phase = "live" /\ todo = <<>> /\ states = <<Observed>>
  BY DEF RecoveryInit
<1>2. /\ worker = [pc |-> "loop", cmd |-> Idle] /\ applied = <<>> /\ appended = <<>>
      /\ pushed = <<>> /\ Observed = FirstState
  BY <1>1 DEF Init, Fresh, Book!Init, Risk!Init, Observed, FirstState
<1>3. worker.pc = "loop" /\ worker.cmd = Idle
  BY <1>2
<1>4. Safe /\ Sane
  BY <1>1, SafeAtStart DEF Safe
<1>5. Durability!Durable
  <2>1. Durability!NewLog
    BY <1>1 DEF Init, Durability!NewLog, Log!Header, Durability!Header, Log!Magic,
       Durability!Magic
  <2> QED
    BY <2>1, Durability!NewLogIsDurable, EngineConstants, JournalConstants
<1>6. Len(states) = 1 /\ states[1] = FirstState /\ states \in Seq({FirstState})
      /\ states # <<>> /\ DOMAIN states = 1..1
  BY <1>1, <1>2
<1>7. RecoveryTypeOK
  BY <1>1, <1>6 DEF RecoveryTypeOK, FirstState
<1>8. HistoryExecutes
  <2>1. Range(states) = {FirstState}
    BY <1>6 DEF Range
  <2>2. Len(appended) = 0
    BY <1>2
  <2> QED
    BY <1>6, <2>1, <2>2 DEF HistoryExecutes
<1>9. LiveInStep
  <2>1. Turned(FirstState) = 0
    BY DEF Turned, FirstState, Risk!RejectReason, Risk!Checks
  <2>2. Continues(FirstState)
    BY <1>2, <1>3 DEF Continues
  <2>3. Len(applied) = 0
    BY <1>2
  <2> QED
    BY <1>1, <1>4, <1>6, <2>1, <2>2, <2>3 DEF LiveInStep
<1>10. ReplayInStep /\ AsksTheBook /\ JoinedIsJournaled
  BY <1>1, <1>2, <1>3, <1>6 DEF ReplayInStep, AsksTheBook, JoinedIsJournaled
<1> QED
  BY <1>4, <1>5, <1>7, <1>8, <1>9, <1>10 DEF Restorable

LEMMA StutterKeeps ==
    ASSUME Restorable, UNCHANGED allVars
    PROVE  Restorable'
<1>1. /\ UNCHANGED <<queue, producer, control, pushed, worker, stats, applied, late>>
      /\ UNCHANGED <<resting, trades, result, nextSeq, killSwitch, seen, counter, call>>
      /\ UNCHANGED <<phase, todo, states, logVars, vars>>
  BY DEF allVars, vars, recoveryVars, threadVars, engineVars, bookVars, riskVars
<1>2. UNCHANGED <<stream, appended>>
  BY <1>1 DEF logVars
<1>3. Sane' /\ AsksTheBook' /\ Durability!Durable'
  BY <1>1, SaneStep, AsksTheBookStep, DurableUnchanged DEF Restorable
<1>4. phase = "live" => Safe'
  BY <1>1, SafeStep DEF Restorable, LiveInStep
<1>5. Observed' = Observed /\ Due' = Due /\ Events' = Events
  BY <1>1, EventsUnchanged DEF Observed, Due
<1>6. LiveInStep'
  BY <1>1, <1>4, <1>5 DEF Restorable, LiveInStep, Continues, HaltedInCheck, Turned
<1>7. ReplayInStep'
  BY <1>1, <1>2, <1>5 DEF Restorable, ReplayInStep, Continues, HaltedInCheck, Turned, InHand
<1>8. RecoveryTypeOK' /\ HistoryExecutes' /\ JoinedIsJournaled'
  BY <1>1, <1>2 DEF Restorable, RecoveryTypeOK, HistoryExecutes, JoinedIsJournaled
<1> QED
  BY <1>3, <1>6, <1>7, <1>8 DEF Restorable

(* Restorable is inductive: through the session, the disk's moves, the     *)
(* crash and the replay the engine stays on the history it has recorded.   *)
THEOREM SessionIsRestorable == RecoverySpec => []Restorable
<1>1. Restorable /\ [RecoveryNext]_allVars => Restorable'
  BY LiveKeeps, DiskKeeps, CrashKeeps, ReplayNextKeeps, ReplayStepKeeps, ReplayEndsKeeps,
     StutterKeeps DEF RecoveryNext
<1> QED
  BY RestorableAtStart, <1>1, PTL DEF RecoverySpec

(* Wherever the process died and whatever of the journal had reached the   *)
(* disk, the recovered engine is the live one as it was after the commands *)
(* the journal kept, if the kill switch had turned nothing away by then.   *)
THEOREM ReplayRestores == RecoverySpec => []RecoversALiveState
<1>1. Restorable => RecoversALiveState
  <2> SUFFICES ASSUME Restorable, phase = "recovered"
               PROVE  /\ applied = Events
                      /\ Len(Events) <= Len(states)
                      /\ Len(Events) < Len(states) =>
                             LET live == states[Len(Events) + 1]
                             IN  live.counter["KillSwitch"] = 0 => Observed = live
    BY DEF Restorable, RecoversALiveState
  <2>1. /\ Events # Unreadable /\ applied \o InHand \o todo = Events
        /\ worker.cmd = Idle /\ todo = <<>> /\ applied \in Seq(Commands)
    BY SMTT(30) DEF Restorable, ReplayInStep, Sane, TypeOK
  <2>2. applied = Events
    <3>1. applied \o <<>> \o <<>> = applied
      BY <2>1, ConcatEmptySeq
    <3> QED
      BY <2>1, <3>1 DEF InHand
  <2>3. /\ Len(Events) <= Len(appended) /\ Len(appended) <= Len(states)
        /\ Len(Events) \in Nat /\ Len(appended) \in Nat /\ Len(states) \in Nat
    BY <2>1, EventsAreAPrefix DEF Restorable, HistoryExecutes
  <2>4. ASSUME Len(Events) < Len(states), Turned(states[Len(Events) + 1]) = 0
        PROVE  Observed = states[Len(Events) + 1]
    <3>1. Len(Events) + 1 \in 1..Len(states)
      BY <2>3, <2>4
    <3>2. Continues(states[Len(Events) + 1])
      BY <2>2, <2>4, <3>1 DEF Restorable, ReplayInStep
    <3> QED
      BY <2>1, <3>2 DEF Continues
  <2> QED
    BY <2>2, <2>3, <2>4 DEF Turned
<1> QED
  BY <1>1, SessionIsRestorable, PTL

(* A session that was drained, joined and flushed without a failed write   *)
(* comes back whole: every command the producer pushed is replayed, and    *)
(* the engine is the one that ended, if the kill switch turned no order    *)
(* away in the session.                                                    *)
THEOREM WholeSessionReturns == RecoverySpec => []FlushedSessionIsWhole
<1>1. Restorable /\ RecoversALiveState => FlushedSessionIsWhole
  <2> SUFFICES ASSUME Restorable, RecoversALiveState, phase = "recovered",
                      control = "flushed", flushed = Len(appended)
               PROVE  /\ applied = pushed
                      /\ Last(states).counter["KillSwitch"] = 0 => Observed = Last(states)
    BY DEF FlushedSessionIsWhole
  <2>1. /\ appended = pushed /\ Len(states) = Len(pushed) + 1
        /\ Events # Unreadable /\ Durability!Durable
    BY DEF Restorable, JoinedIsJournaled, ReplayInStep
  <2>2. /\ Events \in Seq(Commands) /\ appended \in Seq(Commands)
        /\ Len(Events) <= Len(appended)
        /\ \A k \in 1..Len(Events) : Events[k] = appended[k]
    BY <2>1, EventsAreAPrefix DEF Durability!Durable, Durability!TypeOK
  <2>3. flushed > 0 => Len(Events) >= flushed
    <3>1. Durability!FlushIsKept
      BY <2>1, Durability!FlushedCanBeRead, EngineConstants, JournalConstants
    <3> QED
      BY <3>1, SameReader DEF Durability!FlushIsKept, Events
  <2>4. Len(Events) = Len(appended) /\ Len(appended) \in Nat
    BY <2>2, <2>3
  <2>5. Events = appended
    BY <2>2, <2>4
  <2>6. applied = pushed
    BY <2>1, <2>5 DEF RecoversALiveState
  <2>7. Len(states) = Len(Events) + 1 /\ Last(states) = states[Len(Events) + 1]
    BY <2>1, <2>5 DEF Last
  <2>8. Last(states).counter["KillSwitch"] = 0 => Observed = Last(states)
    BY <2>4, <2>7 DEF RecoversALiveState
  <2> QED
    BY <2>6, <2>8
<1> QED
  BY <1>1, SessionIsRestorable, ReplayRestores, PTL
==============================================================================
