------------------------- MODULE MatchingEngineProofs -------------------------
(***************************************************************************)
(* Theorems about the engine's threads for every queue capacity, command   *)
(* population, risk configuration and length of session.                   *)
(***************************************************************************)
EXTENDS MatchingEngineProps, WellFoundedInduction, FiniteSetTheorems,
        SequenceTheorems, TLAPS

-----------------------------------------------------------------------------
(* The inductive invariant: what each part of the state says of the others *)
(* at every point of apply().                                              *)

\* The consumer holds a command exactly while it is inside apply(), and the
\* branch of apply() it is in fits the command.
HoldsCommand ==
    /\ worker.pc \in {"loop", "exited"} <=> worker.cmd = Idle
    /\ worker.pc \in {"gate", "check", "book", "trades"} => worker.cmd \in Submits
    /\ worker.pc = "cancel" => worker.cmd \in Cancels

\* The gate is busy exactly while the consumer is inside check(), with the
\* consumer's command and a price of the book.
GateServesWorker ==
    /\ killSwitch \in BOOLEAN
    /\ counter \in [Risk!RejectReason -> Nat]
    /\ call \in [order : Submits, reference : References, halted : BOOLEAN]
              \cup {NoCheck}
    /\ call # NoCheck <=> worker.pc = "check"
    /\ worker.pc = "check" => call.order = worker.cmd

\* The book is a finite set of records, at prices of the market.
BookIsFinite ==
    /\ IsFiniteSet(resting)
    /\ \A m \in resting : /\ {"id", "price"} \subseteq DOMAIN m
                          /\ m.price \in MinPrice..MaxPrice
    /\ result.trade_count \in Nat

\* The sentinel is pushed once, behind everything else, and the consumer that
\* has met it leaves nothing behind.
SentinelIsLast ==
    \/ /\ control = "running" /\ worker.pc # "exited"
       /\ queue \in Seq(Commands)
    \/ /\ control = "joining" /\ producer = "done" /\ worker.pc # "exited"
       /\ \E cmds \in Seq(Commands) : queue = Append(cmds, Shutdown)
    \/ /\ control # "running" /\ producer = "done" /\ worker.pc = "exited"
       /\ queue = <<>>

\* Nothing closes the journal while the engine runs.
LogStaysOpen == stream # "closed"

\* An order that may still enter although the switch is on: it has passed the
\* gate, or the gate had read the switch before.
MayEnter == worker.pc = "book" \/ (worker.pc = "check" /\ ~call.halted)

LateOnce ==
    /\ late \in 0..1
    /\ killSwitch /\ late = 1 => ~MayEnter

\* An order on its way into the book has its id remembered, and rests not yet.
IdsAreKnown ==
    UniqueIds =>
        /\ \A m \in resting : m.id \in seen
        /\ worker.pc = "book" => /\ worker.cmd.id \in seen
                                 /\ \A m \in resting : m.id # worker.cmd.id

One(b) == IF b THEN 1 ELSE 0

\* The counters, at every step of apply(): how far the command in hand has
\* been counted already.
CountsInFlight ==
    LET new    == worker.pc \in {"book", "count", "trades", "tally"} /\
                      worker.cmd.type = "Submit"
        solved == worker.pc \in {"trades", "tally"} /\ worker.cmd.type = "Submit"
        gone   == worker.pc = "tally" /\ worker.cmd.type = "Cancel"
    IN  /\ stats.commands = Len(applied)
        /\ stats.submits + Risk!total_rejected = Orders(applied) + One(solved)
        /\ stats.cancels + Orders(applied) = Len(applied) + One(gone)
        /\ counter["Accepted"] + Risk!total_rejected = Orders(applied) + One(new)

\* What any apply() keeps, that of a replay included.
Sane == TypeOK /\ HoldsCommand /\ GateServesWorker /\ BookIsFinite

Safe ==
    /\ Sane /\ SentinelIsLast
    /\ LogStaysOpen /\ LateOnce /\ IdsAreKnown /\ CountsInFlight
    /\ EveryCommandOnce /\ JournalLeads

-----------------------------------------------------------------------------
(* The parts the engine is composed of. *)

(* check() lets an order pass only when it took none of its early returns: *)
(* it had not read the switch as engaged, and the id was not remembered.   *)
LEMMA GateVerdict ==
    /\ Risk!Outcome \in Risk!RejectReason
    /\ Risk!Outcome = "Accepted" =>
           ~call.halted /\ ~(UniqueIds /\ call.order.id \in seen)
<1> DEFINE Tripping(i) == Risk!Trips(Risk!Checks[i], call.order, call.reference,
                                     call.halted)
           tripped     == {i \in DOMAIN Risk!Checks : Tripping(i)}
<1>1. Risk!Outcome = IF tripped = {} THEN "Accepted" ELSE Risk!Checks[Risk!Min(tripped)]
  BY DEF Risk!Outcome, Risk!Verdict
<1>2. /\ DOMAIN Risk!Checks = 1..5
      /\ Risk!Checks[1] = "KillSwitch" /\ Risk!Checks[5] = "DuplicateOrder"
      /\ \A i \in 1..5 : Risk!Checks[i] # "Accepted"
      /\ \A i \in 1..5 : Risk!Checks[i] \in Risk!RejectReason
      /\ "Accepted" \in Risk!RejectReason
  BY DEF Risk!Checks, Risk!RejectReason
<1>3. CASE tripped # {}
  <2> HIDE DEF Tripping
  <2>1. PICK i \in tripped : \A j \in tripped : i <= j
    <3>1. CASE Tripping(1)
      BY <1>2, <3>1
    <3>2. CASE ~Tripping(1) /\ Tripping(2)
      BY <1>2, <3>2
    <3>3. CASE ~Tripping(1) /\ ~Tripping(2) /\ Tripping(3)
      BY <1>2, <3>3
    <3>4. CASE ~Tripping(1) /\ ~Tripping(2) /\ ~Tripping(3) /\ Tripping(4)
      BY <1>2, <3>4
    <3>5. CASE ~Tripping(1) /\ ~Tripping(2) /\ ~Tripping(3) /\ ~Tripping(4)
      <4>1. \A j \in tripped : j = 5
        <5> TAKE j \in tripped
        <5>1. j \in 1..5 /\ j # 1 /\ j # 2 /\ j # 3 /\ j # 4
          BY <1>2, <3>5
        <5> QED
          BY <5>1
      <4>2. PICK i \in tripped : TRUE
        BY <1>3
      <4>3. i = 5 /\ \A j \in tripped : i <= j
        BY <4>1, <4>2
      <4> QED
        BY <4>2, <4>3
    <3> QED
      BY <3>1, <3>2, <3>3, <3>4, <3>5
  <2>2. Risk!Min(tripped) \in tripped
    BY <2>1 DEF Risk!Min
  <2> QED
    BY <1>1, <1>2, <1>3, <2>2
<1>4. CASE tripped = {}
  <2>1. ~Tripping(1) /\ ~Tripping(5)
    BY <1>2, <1>4
  <2>2. ~call.halted /\ ~(UniqueIds /\ call.order.id \in seen)
    BY <1>2, <2>1 DEF Risk!Trips
  <2> QED
    BY <1>1, <1>2, <1>4, <2>2
<1> QED
  BY <1>3, <1>4

(* What check() counts: one verdict, accepted or rejected.                 *)
LEMMA GateCounts ==
    ASSUME counter \in [Risk!RejectReason -> Nat], Risk!FinishCheck
    PROVE  /\ counter' \in [Risk!RejectReason -> Nat]
           /\ counter["Accepted"] \in Nat /\ Risk!total_rejected \in Nat
           /\ IF Risk!Outcome = "Accepted"
              THEN /\ counter'["Accepted"] = counter["Accepted"] + 1
                   /\ Risk!total_rejected' = Risk!total_rejected
              ELSE /\ counter'["Accepted"] = counter["Accepted"]
                   /\ Risk!total_rejected' = Risk!total_rejected + 1
<1>1. Risk!RejectReason = {"KillSwitch", "MaxOrderSize", "MaxNotional",
                           "PriceCollar", "DuplicateOrder", "Accepted"}
  BY DEF Risk!RejectReason, Risk!Checks
<1>2. Risk!Outcome \in Risk!RejectReason
  BY GateVerdict
<1>3. counter' = [counter EXCEPT ![Risk!Outcome] = counter[Risk!Outcome] + 1]
  BY DEF Risk!FinishCheck, Risk!Count
<1>4. counter' \in [Risk!RejectReason -> Nat]
  BY <1>2, <1>3
<1>5. \A r \in Risk!RejectReason :
          /\ counter[r] \in Nat
          /\ counter'[r] = counter[r] + One(r = Risk!Outcome)
  BY <1>2, <1>3 DEF One
<1> QED
  BY <1>1, <1>2, <1>4, <1>5 DEF Risk!total_rejected, One

(* best_bid() and best_ask() give a price of the market, or none.          *)
LEMMA TouchIsAReference ==
    ASSUME \A m \in resting : m.price \in MinPrice..MaxPrice, NEW side
    PROVE  Touch(side) \in References
<1> DEFINE prices == {m.price : m \in {o \in resting : o.side = Opposite(side)}}
<1>1. CASE prices = {}
  BY <1>1 DEF Touch, References
<1>2. CASE prices # {}
  <2>1. \A p \in prices : p \in Int /\ MinPrice <= p /\ p <= MaxPrice
    BY EngineConstants
  <2> HIDE DEF prices
  <2> DEFINE Above(p) == p - MinPrice
             Below(p) == MaxPrice - p
  <2>2. PICK low \in prices : \A q \in prices : low <= q
    <3> DEFINE ranks == {Above(p) : p \in prices}
    <3>1. ranks \subseteq Nat /\ ranks # {}
      BY <1>2, <2>1, EngineConstants
    <3>2. PICK r \in ranks : \A s \in ranks : <<s, r>> \notin OpToRel(<, Nat)
      BY <3>1, NatLessThanWellFounded, WFMin
    <3>3. PICK p \in prices : r = Above(p)
      OBVIOUS
    <3>4. ASSUME NEW q \in prices PROVE p <= q
      <4>1. ~(Above(q) < Above(p))
        BY <3>1, <3>2, <3>3 DEF OpToRel
      <4> QED
        BY <2>1, <4>1, EngineConstants
    <3> QED
      BY <3>4
  <2>3. PICK high \in prices : \A q \in prices : high >= q
    <3> DEFINE ranks == {Below(p) : p \in prices}
    <3>1. ranks \subseteq Nat /\ ranks # {}
      BY <1>2, <2>1, EngineConstants
    <3>2. PICK r \in ranks : \A s \in ranks : <<s, r>> \notin OpToRel(<, Nat)
      BY <3>1, NatLessThanWellFounded, WFMin
    <3>3. PICK p \in prices : r = Below(p)
      OBVIOUS
    <3>4. ASSUME NEW q \in prices PROVE p >= q
      <4>1. ~(Below(q) < Below(p))
        BY <3>1, <3>2, <3>3 DEF OpToRel
      <4> QED
        BY <2>1, <4>1, EngineConstants
    <3> QED
      BY <3>4
  <2>4. Min(prices) \in prices
    BY <2>2 DEF Min
  <2>5. Max(prices) \in prices
    BY <2>3 DEF Max
  <2>6. Touch(side) \in prices
    BY <1>2, <2>4, <2>5 DEF Touch, prices
  <2> QED
    BY <2>1, <2>6, EngineConstants DEF References
<1> QED
  BY <1>1, <1>2

(* A maker that is partly filled keeps its id and its price.               *)
LEMMA ReducedMaker ==
    ASSUME NEW m, {"id", "price"} \subseteq DOMAIN m, NEW quantity,
           NEW n, n = [m EXCEPT !.remaining = quantity]
    PROVE  {"id", "price"} \subseteq DOMAIN n /\ n.id = m.id /\ n.price = m.price
OBVIOUS

(* After a submit() the book holds orders it held before, some of them     *)
(* reduced, and at most the new order besides; it is finite still, and so  *)
(* is the number of trades.                                                *)
LEMMA SubmitKeepsTheBook ==
    ASSUME NEW book, IsFiniteSet(book), NEW t, NEW seq,
           \A m \in book : {"id", "price"} \subseteq DOMAIN m
    PROVE  /\ IsFiniteSet(Book!After(book, t, seq))
           /\ Cardinality(Book!Hit(book, t)) \in Nat
           /\ \A n \in Book!After(book, t, seq) :
                  /\ {"id", "price"} \subseteq DOMAIN n
                  /\ \/ \E m \in book : n.id = m.id /\ n.price = m.price
                     \/ n.id = t.id /\ n.price = t.price
<1> DEFINE hit       == Book!Hit(book, t)
           gone      == hit \cup (IF Stp = "CancelResting"
                                  THEN Book!Prevented(book, t) ELSE {})
           partial   == {m \in hit : Book!Share(book, t, m) < m.remaining}
           Cut(m)    == [m EXCEPT !.remaining = @ - Book!Share(book, t, m)]
           reduced   == {Cut(m) : m \in partial}
           newcomer  == [id |-> t.id, trader |-> t.trader, side |-> t.side,
                         price |-> t.price, remaining |-> Book!Left(book, t),
                         sequence |-> seq]
           rest      == IF Book!Rests(book, t) THEN {newcomer} ELSE {}
<1>1. Book!After(book, t, seq) = (book \ gone) \cup reduced \cup rest
  BY DEF Book!After
<1>2. hit \subseteq book
  BY DEF Book!Hit, Book!Reached, Book!Contra
<1>3. \A m \in partial : Cut(m) = [m EXCEPT !.remaining = m.remaining - Book!Share(book, t, m)]
  OBVIOUS
<1>4. {"id", "price"} \subseteq DOMAIN newcomer
      /\ newcomer.id = t.id /\ newcomer.price = t.price
  OBVIOUS
<1> HIDE DEF hit, gone, Cut, newcomer
<1>5. IsFiniteSet(book \ gone) /\ IsFiniteSet(hit) /\ IsFiniteSet(partial)
  BY <1>2, FS_Subset
<1>6. IsFiniteSet(reduced)
  <2> DEFINE f == [m \in partial |-> Cut(m)]
  <2>1. f \in Surjection(partial, reduced)
    BY DEF Surjection
  <2> QED
    BY <1>5, <2>1, FS_Surjection
<1>7. IsFiniteSet(rest)
  BY FS_EmptySet, FS_Singleton
<1>8. IsFiniteSet((book \ gone) \cup reduced \cup rest)
  BY <1>5, <1>6, <1>7, FS_Union
<1>9. Cardinality(hit) \in Nat
  BY <1>5, FS_CardinalityType
<1>10. ASSUME NEW n \in reduced
       PROVE  /\ {"id", "price"} \subseteq DOMAIN n
              /\ \E m \in book : n.id = m.id /\ n.price = m.price
  <2>1. PICK m \in partial : n = Cut(m)
    OBVIOUS
  <2>2. m \in book
    BY <1>2, <2>1
  <2> QED
    BY <1>3, <2>1, <2>2, ReducedMaker
<1>11. \A n \in Book!After(book, t, seq) : n \in book \/ n \in reduced \/ n = newcomer
  BY <1>1
<1> QED
  BY <1>1, <1>4, <1>8, <1>9, <1>10, <1>11 DEF hit

-----------------------------------------------------------------------------
(* Sequences of commands. *)

LEMMA PushAtTheEnd ==
    ASSUME NEW S, NEW a \in Seq(S), NEW h \in Seq(S), NEW w \in Seq(S), NEW c \in S
    PROVE  a \o h \o Append(w, c) = Append(a \o h \o w, c)
<1>1. a \o h \in Seq(S) /\ a \o h \o w \in Seq(S)
  BY ConcatProperties
<1>2. <<c>> \in Seq(S)
  OBVIOUS
<1>3. Append(w, c) = w \o <<c>> /\ Append(a \o h \o w, c) = (a \o h \o w) \o <<c>>
  BY <1>1, AppendIsConcat
<1> QED
  BY <1>1, <1>2, <1>3, ConcatAssociative, SMTT(30)

LEMMA TakeTheFirst ==
    ASSUME NEW S, NEW a \in Seq(S), NEW w \in Seq(S), w # <<>>
    PROVE  a \o <<>> \o w = a \o <<Head(w)>> \o Tail(w)
<1>1. Head(w) \in S /\ Tail(w) \in Seq(S)
  BY HeadTailProperties
<1>2. <<Head(w)>> \in Seq(S)
  BY <1>1
<1>3. w = <<Head(w)>> \o Tail(w)
  OBVIOUS
<1>4. a \o <<>> = a
  BY ConcatEmptySeq
<1> QED
  BY <1>1, <1>2, <1>3, <1>4, ConcatAssociative, SMTT(30)

LEMMA FinishTheHeld ==
    ASSUME NEW S, NEW a \in Seq(S), NEW w \in Seq(S), NEW c \in S
    PROVE  Append(a, c) \o <<>> \o w = a \o <<c>> \o w
<1>1. Append(a, c) \in Seq(S) /\ Append(a, c) = a \o <<c>>
  BY AppendIsConcat, AppendProperties
<1> QED
  BY <1>1, ConcatEmptySeq

(* A sequence that ends with the sentinel, and one that has none.          *)
LEMMA EndOfQueue ==
    ASSUME NEW cmds \in Seq(Commands)
    PROVE  /\ cmds # <<>> => Last(cmds) # Shutdown
           /\ Append(cmds, Shutdown) # <<>>
           /\ Last(Append(cmds, Shutdown)) = Shutdown
           /\ Front(Append(cmds, Shutdown)) = cmds
<1>1. Shutdown \notin Commands
  BY EngineConstants DEF Commands
<1>2. cmds # <<>> => Last(cmds) \in Commands
  BY DEF Last
<1>3. /\ Len(Append(cmds, Shutdown)) = Len(cmds) + 1
      /\ \A i \in 1..Len(cmds) : Append(cmds, Shutdown)[i] = cmds[i]
      /\ Append(cmds, Shutdown)[Len(cmds) + 1] = Shutdown
      /\ Append(cmds, Shutdown) # <<>>
  OBVIOUS
<1>4. Last(Append(cmds, Shutdown)) = Shutdown
  BY <1>3 DEF Last
<1>5. Front(Append(cmds, Shutdown)) = cmds
  <2>1. Front(Append(cmds, Shutdown)) = SubSeq(Append(cmds, Shutdown), 1, Len(cmds))
    BY <1>3 DEF Front
  <2> QED
    BY <1>3, <2>1
<1> QED
  BY <1>1, <1>2, <1>3, <1>4, <1>5

(* One more command is one more order exactly when it is a submit.         *)
LEMMA OneMoreCommand ==
    ASSUME NEW cmds \in Seq(Commands), NEW c \in Commands
    PROVE  /\ Orders(cmds) \in Nat
           /\ Orders(Append(cmds, c)) = Orders(cmds) + One(c.type = "Submit")
<1> DEFINE n     == Len(cmds) + 1
           old   == {i \in DOMAIN cmds : cmds[i].type = "Submit"}
           new   == {i \in DOMAIN Append(cmds, c) : Append(cmds, c)[i].type = "Submit"}
<1>1. /\ DOMAIN Append(cmds, c) = (DOMAIN cmds) \cup {n}
      /\ \A i \in DOMAIN cmds : Append(cmds, c)[i] = cmds[i]
      /\ Append(cmds, c)[n] = c
      /\ n \notin DOMAIN cmds
  OBVIOUS
<1>2. IsFiniteSet(DOMAIN cmds)
  <2>1. DOMAIN cmds = 1..Len(cmds) /\ Len(cmds) \in Int
    OBVIOUS
  <2> QED
    BY <2>1, FS_Interval
<1>3. IsFiniteSet(old) /\ n \notin old
  BY <1>1, <1>2, FS_Subset
<1>4. new = IF c.type = "Submit" THEN old \cup {n} ELSE old
  BY <1>1
<1> HIDE DEF n, old, new
<1>5. Cardinality(old) \in Nat
  BY <1>3, FS_CardinalityType
<1>6. Cardinality(new) = Cardinality(old) + One(c.type = "Submit")
  <2>1. Cardinality(old \cup {n}) = Cardinality(old) + 1
    BY <1>3, FS_AddElement
  <2> QED
    BY <1>4, <1>5, <2>1 DEF One
<1> QED
  BY <1>5, <1>6 DEF Orders, old, new

-----------------------------------------------------------------------------
(* Safe is kept, one part at a time.  A step of another thread leaves the  *)
(* consumer where it is.                                                   *)

Around == Producer \/ Controller \/ Operator

(* What the threads around the engine leave alone.                         *)
LEMMA AroundFrame ==
    ASSUME Around
    PROVE  UNCHANGED <<worker, stats, applied, bookVars, seen, counter, call, accepted,
                       stream, appended>>
<1>1. CASE Producer
  BY <1>1 DEF Producer, ProducerEnds, Push, engineVars, riskVars, logVars
<1>2. CASE Controller
  BY <1>2 DEF Controller, PushSentinel, Join, FlushLog, engineVars, riskVars, logVars,
              Log!Flush
<1>3. CASE Operator
  BY <1>3 DEF Operator, ThrowSwitch, Risk!EngageKillSwitch, logVars
<1> QED
  BY <1>1, <1>2, <1>3 DEF Around

(* What every step of apply() leaves alone.                                *)
LEMMA ApplyFrame ==
    ASSUME Apply
    PROVE  UNCHANGED <<threadVars, killSwitch>>
BY DEF Apply, Journal, ReadSwitch, Decide, EnterBook, RemoveOrder, CountKind, CountTrades,
       Tally, riskVars, Risk!StartCheck, Risk!FinishCheck

(* The command at the head of the queue is a domain command or the         *)
(* sentinel, and the consumer can tell which.                              *)
LEMMA HeadOfQueue ==
    ASSUME TypeOK, queue # <<>>
    PROVE  /\ Tail(queue) \in Seq(Commands \cup {Shutdown})
           /\ Len(Tail(queue)) = Len(queue) - 1
           /\ IF IsWork(Head(queue)) THEN Head(queue) \in Commands
              ELSE Head(queue) = Shutdown
<1>1. /\ Head(queue) \in Commands \cup {Shutdown}
      /\ Tail(queue) \in Seq(Commands \cup {Shutdown})
      /\ Len(Tail(queue)) = Len(queue) - 1
  BY HeadTailProperties DEF TypeOK
<1> QED
  BY <1>1, EngineConstants DEF IsWork, Commands

LEMMA HoldsCommandStep ==
    ASSUME Sane, [Next]_vars
    PROVE  HoldsCommand'
<1> USE DEF HoldsCommand
<1>1. TypeOK /\ HoldsCommand /\ Idle \notin Commands
  BY EngineConstants DEF Sane
<1>2. CASE UNCHANGED worker
  BY <1>1, <1>2
<1>3. CASE PopCommand
  <2>1. Head(queue) \in Commands /\ worker' = [pc |-> "journal", cmd |-> Head(queue)]
    BY <1>1, <1>3, HeadOfQueue DEF PopCommand, Pop, StartApply
  <2> QED
    BY <1>1, <2>1
<1>4. CASE PopSentinel
  BY <1>1, <1>4 DEF PopSentinel, At, Goto, TypeOK
<1>5. CASE Journal
  <2>1. worker.cmd \in Commands /\ worker' = [worker EXCEPT !.pc = AfterJournal(worker.cmd)]
    BY <1>1, <1>5 DEF Journal, At, Goto, TypeOK
  <2>2. \/ worker.cmd \in Submits /\ AfterJournal(worker.cmd) = "gate"
        \/ worker.cmd \in Cancels /\ AfterJournal(worker.cmd) = "cancel"
    BY <2>1, EngineConstants DEF Commands, AfterJournal
  <2> QED
    BY <1>1, <2>1, <2>2 DEF TypeOK
<1>6. CASE ReadSwitch
  BY <1>1, <1>6 DEF ReadSwitch, At, Goto, TypeOK
<1>7. CASE Decide
  BY <1>1, <1>7 DEF Decide, At, Goto, TypeOK, AfterCheck
<1>8. CASE EnterBook
  BY <1>1, <1>8 DEF EnterBook, At, Goto, TypeOK
<1>9. CASE RemoveOrder
  BY <1>1, <1>9 DEF RemoveOrder, At, Goto, TypeOK
<1>10. CASE CountKind
  BY <1>1, <1>10, EngineConstants DEF CountKind, At, Goto, TypeOK, Commands
<1>11. CASE CountTrades
  BY <1>1, <1>11 DEF CountTrades, At, Goto, TypeOK
<1>12. CASE Tally
  BY <1>1, <1>12 DEF Tally
<1> QED
  BY <1>2, <1>3, <1>4, <1>5, <1>6, <1>7, <1>8, <1>9, <1>10, <1>11, <1>12, AroundFrame
     DEF Next, Consumer, Apply, Around, vars

(* The worker's part of the type invariant.                                *)
LEMMA WorkerTypeStep ==
    ASSUME Sane, [Next]_vars
    PROVE  (worker \in [pc : {"loop", "journal", "gate", "check", "book", "cancel",
                              "count", "trades", "tally", "exited"},
                        cmd : Commands \cup {Idle}])'
<1>1. TypeOK /\ HoldsCommand
  BY DEF Sane
<1>2. CASE UNCHANGED worker
  BY <1>1, <1>2 DEF TypeOK
<1>3. CASE PopCommand
  BY <1>1, <1>3, HeadOfQueue DEF PopCommand, Pop, StartApply
<1>4. CASE Journal
  <2>1. AfterJournal(worker.cmd) \in {"gate", "cancel"}
    BY <1>1, <1>4, EngineConstants, SMTT(30) DEF HoldsCommand, TypeOK, Journal, At, AfterJournal,
       Commands
  <2> QED
    BY <1>1, <1>4, <2>1 DEF Journal, Goto, TypeOK
<1>5. CASE PopSentinel \/ ReadSwitch \/ EnterBook \/ RemoveOrder \/ CountTrades
  BY <1>1, <1>5 DEF PopSentinel, ReadSwitch, EnterBook, RemoveOrder, CountTrades, Goto,
     TypeOK
<1>6. CASE Decide
  BY <1>1, <1>6 DEF Decide, Goto, AfterCheck, TypeOK
<1>7. CASE CountKind
  BY <1>1, <1>7 DEF CountKind, Goto, TypeOK
<1>8. CASE Tally
  BY <1>1, <1>8 DEF Tally
<1> QED
  BY <1>2, <1>3, <1>4, <1>5, <1>6, <1>7, <1>8, AroundFrame
     DEF Next, Consumer, Apply, Around, vars

(* The consumer outside check(): its steps but ReadSwitch and Decide.      *)
Elsewhere ==
    \/ PopCommand \/ PopSentinel \/ Journal \/ EnterBook \/ RemoveOrder
    \/ CountKind \/ CountTrades \/ Tally

LEMMA ElsewhereFrame ==
    ASSUME Elsewhere
    PROVE  /\ UNCHANGED <<killSwitch, seen, counter, call, accepted>>
           /\ worker.pc # "check" \/ PopCommand
BY DEF Elsewhere, PopCommand, PopSentinel, Journal, EnterBook, RemoveOrder, CountKind,
       CountTrades, Tally, riskVars, At

LEMMA GateServesWorkerStep ==
    ASSUME Sane, [Next]_vars
    PROVE  GateServesWorker'
<1>1. TypeOK /\ HoldsCommand /\ GateServesWorker /\ BookIsFinite
  BY DEF Sane
<1> USE DEF GateServesWorker
<1>2. CASE UNCHANGED <<worker, riskVars>>
  BY <1>1, <1>2 DEF riskVars
<1>3. CASE Operator
  BY <1>1, <1>3 DEF Operator, ThrowSwitch, Risk!EngageKillSwitch
<1>4. CASE Producer \/ Controller
  BY <1>1, <1>4 DEF Producer, ProducerEnds, Push, Controller, PushSentinel, Join, FlushLog,
     riskVars
<1>5. CASE ReadSwitch
  <2>1. /\ call' = [order |-> worker.cmd, reference |-> Touch(worker.cmd.side),
                    halted |-> killSwitch]
        /\ worker' = [worker EXCEPT !.pc = "check"]
        /\ UNCHANGED <<killSwitch, counter>>
    BY <1>5 DEF ReadSwitch, Risk!StartCheck, Risk!Loaded, Goto
  <2>2. worker.cmd \in Submits /\ Touch(worker.cmd.side) \in References
    BY <1>1, <1>5, TouchIsAReference DEF BookIsFinite, HoldsCommand, ReadSwitch, At
  <2>3. call' \in [order : Submits, reference : References, halted : BOOLEAN]
    BY <1>1, <2>1, <2>2
  <2>4. worker'.pc = "check" /\ worker'.cmd = worker.cmd
    BY <1>1, <2>1 DEF TypeOK
  <2> QED
    BY <1>1, <2>1, <2>3, <2>4, EngineConstants
<1>6. CASE Decide
  <2>1. call' = NoCheck /\ UNCHANGED killSwitch
    BY <1>6 DEF Decide, Risk!FinishCheck
  <2>2. counter' \in [Risk!RejectReason -> Nat]
    BY <1>1, <1>6, GateCounts DEF Decide
  <2>3. worker'.pc \in {"book", "tally"}
    BY <1>1, <1>6 DEF Decide, Goto, AfterCheck, TypeOK
  <2> QED
    BY <1>1, <2>1, <2>2, <2>3
<1>7. CASE Elsewhere
  <2>1. UNCHANGED <<killSwitch, counter, call>>
    BY <1>7, ElsewhereFrame
  <2>2. worker.pc # "check" /\ worker'.pc # "check"
    <3>1. CASE PopCommand \/ PopSentinel \/ Tally
      BY <1>1, <3>1 DEF PopCommand, PopSentinel, StartApply, Tally, At, Goto, TypeOK
    <3>2. CASE Journal
      BY <1>1, <3>2, EngineConstants DEF Journal, At, Goto, AfterJournal, TypeOK,
         HoldsCommand, Commands
    <3>3. CASE EnterBook \/ RemoveOrder \/ CountKind \/ CountTrades
      BY <1>1, <3>3 DEF EnterBook, RemoveOrder, CountKind, CountTrades, At, Goto, TypeOK
    <3> QED
      BY <1>7, <3>1, <3>2, <3>3 DEF Elsewhere
  <2> QED
    BY <1>1, <2>1, <2>2
<1> QED
  BY <1>2, <1>3, <1>4, <1>5, <1>6, <1>7 DEF Next, Consumer, Apply, Elsewhere, vars

(* What happens to the book: it is entered, left, or not touched.          *)
LEMMA BookMoves ==
    ASSUME [Next]_vars
    PROVE  EnterBook \/ RemoveOrder \/ UNCHANGED <<resting, result>>
BY AroundFrame DEF Next, Consumer, Apply, Around, vars, bookVars, PopCommand, PopSentinel,
   Journal, ReadSwitch, Decide, CountKind, CountTrades, Tally

(* An order that enters: the book keeps orders it had, and takes the order *)
(* in hand at most.                                                        *)
LEMMA EnteringTheBook ==
    ASSUME TypeOK, HoldsCommand, BookIsFinite, EnterBook
    PROVE  /\ worker.cmd \in Submits
           /\ BookIsFinite'
           /\ \A n \in resting' : \/ \E m \in resting : n.id = m.id
                                  \/ n.id = worker.cmd.id
<1> DEFINE c == worker.cmd
<1>1. c \in Submits /\ c.price \in MinPrice..MaxPrice
  BY EngineConstants DEF HoldsCommand, EnterBook, At
<1>2. CASE Book!Reject(c.id, c.quantity)
  <2>1. resting' = resting /\ result'.trade_count = 0
    BY <1>2 DEF Book!Reject
  <2> QED
    BY <1>1, <2>1 DEF BookIsFinite
<1>3. CASE Book!Submit(c.id, c.trader, c.side, c.price, c.quantity)
  <2> DEFINE t == [id |-> c.id, trader |-> c.trader, side |-> c.side, price |-> c.price,
                   quantity |-> c.quantity, remaining |-> c.quantity]
  <2>1. /\ resting' = Book!After(resting, t, nextSeq)
        /\ result'.trade_count = Cardinality(Book!Hit(resting, t))
    <3>1. Book!Cardinality(Book!Hit(resting, t)) = Cardinality(Book!Hit(resting, t))
      BY DEF Book!Cardinality, Cardinality
    <3>2. /\ resting' = Book!After(resting, t, nextSeq)
          /\ result'.trade_count = Book!Cardinality(Book!Hit(resting, t))
      BY <1>3 DEF Book!Submit
    <3> QED
      BY <3>1, <3>2
  <2>2. t.id = c.id /\ t.price = c.price
    OBVIOUS
  <2> HIDE DEF t
  <2>3. /\ IsFiniteSet(resting') /\ result'.trade_count \in Nat
        /\ \A n \in resting' :
               /\ {"id", "price"} \subseteq DOMAIN n
               /\ \/ \E m \in resting : n.id = m.id /\ n.price = m.price
                  \/ n.id = c.id /\ n.price = c.price
    BY <2>1, <2>2, SubmitKeepsTheBook DEF BookIsFinite
  <2> QED
    BY <1>1, <2>3 DEF BookIsFinite
<1> QED
  BY <1>2, <1>3 DEF EnterBook

LEMMA BookIsFiniteStep ==
    ASSUME Sane, [Next]_vars
    PROVE  BookIsFinite'
<1>1. TypeOK /\ HoldsCommand /\ BookIsFinite
  BY DEF Sane
<1>2. CASE UNCHANGED <<resting, result>>
  BY <1>1, <1>2 DEF BookIsFinite
<1>3. CASE EnterBook
  BY <1>1, <1>3, EnteringTheBook
<1>4. CASE RemoveOrder
  <2>1. resting' \subseteq resting /\ result'.trade_count = 0
    BY <1>4 DEF RemoveOrder, Book!Cancel
  <2>2. IsFiniteSet(resting')
    BY <1>1, <2>1, FS_Subset DEF BookIsFinite
  <2> QED
    BY <1>1, <2>1, <2>2 DEF BookIsFinite
<1> QED
  BY <1>2, <1>3, <1>4, BookMoves

LEMMA IdsAreKnownStep ==
    ASSUME Safe, [Next]_vars
    PROVE  IdsAreKnown'
<1>1. TypeOK /\ HoldsCommand /\ GateServesWorker /\ BookIsFinite /\ IdsAreKnown
  BY DEF Safe, Sane
<1> SUFFICES ASSUME UniqueIds PROVE IdsAreKnown'
  BY DEF IdsAreKnown
<1>2. CASE EnterBook
  <2>1. /\ UNCHANGED seen /\ worker'.pc = "count"
        /\ worker.cmd.id \in seen
    BY <1>1, <1>2 DEF EnterBook, riskVars, Goto, TypeOK, IdsAreKnown, At
  <2>2. \A n \in resting' : (\E m \in resting : n.id = m.id) \/ n.id = worker.cmd.id
    BY <1>1, <1>2, EnteringTheBook
  <2> QED
    BY <1>1, <2>1, <2>2 DEF IdsAreKnown
<1>3. CASE RemoveOrder
  <2>1. resting' \subseteq resting /\ UNCHANGED seen /\ worker'.pc = "count"
    BY <1>1, <1>3 DEF RemoveOrder, Book!Cancel, riskVars, Goto, TypeOK
  <2> QED
    BY <1>1, <2>1 DEF IdsAreKnown
<1>4. CASE Decide
  <2>1. /\ UNCHANGED resting /\ call.order = worker.cmd
        /\ seen' = IF Risk!Outcome = "Accepted" THEN seen \cup {worker.cmd.id} ELSE seen
        /\ worker' = [worker EXCEPT !.pc = IF Risk!Outcome = "Accepted" THEN "book"
                                           ELSE "tally"]
    BY <1>1, <1>4 DEF Decide, Risk!FinishCheck, Risk!Remembers, AfterCheck, Goto, bookVars,
       GateServesWorker, At
  <2>2. worker'.cmd = worker.cmd
        /\ worker'.pc = IF Risk!Outcome = "Accepted" THEN "book" ELSE "tally"
    BY <1>1, <2>1 DEF TypeOK
  <2>3. Risk!Outcome = "Accepted" => worker.cmd.id \notin seen
    BY <2>1, GateVerdict
  <2> QED
    BY <1>1, <2>1, <2>2, <2>3 DEF IdsAreKnown
<1>5. CASE UNCHANGED <<resting, seen>> /\ (UNCHANGED worker \/ worker'.pc # "book")
  BY <1>1, <1>5 DEF IdsAreKnown
<1>6. CASE PopCommand \/ PopSentinel \/ Tally
  <2>1. UNCHANGED <<resting, seen>> /\ worker'.pc # "book"
    BY <1>1, <1>6 DEF PopCommand, PopSentinel, Tally, StartApply, Goto, bookVars, riskVars,
       TypeOK
  <2> QED
    BY <1>5, <2>1
<1>7. CASE ReadSwitch \/ CountKind \/ CountTrades
  <2>1. UNCHANGED <<resting, seen>> /\ worker'.pc # "book"
    BY <1>1, <1>7 DEF ReadSwitch, CountKind, CountTrades, Goto, bookVars, riskVars,
       Risk!StartCheck, TypeOK
  <2> QED
    BY <1>5, <2>1
<1>8. CASE Journal
  <2>1. AfterJournal(worker.cmd) # "book"
    BY <1>1, <1>8, EngineConstants DEF Journal, At, AfterJournal, TypeOK, HoldsCommand,
       Commands
  <2>2. UNCHANGED <<resting, seen>> /\ worker'.pc # "book"
    BY <1>1, <1>8, <2>1 DEF Journal, Goto, bookVars, riskVars, TypeOK
  <2> QED
    BY <1>5, <2>2
<1> QED
  BY <1>2, <1>3, <1>4, <1>5, <1>6, <1>7, <1>8, AroundFrame
     DEF Next, Consumer, Apply, Around, vars, bookVars, riskVars

(* The switch races the gate: whoever engages it finds at most the one     *)
(* order that the gate had let pass, or was about to.                      *)
LEMMA LateOnceStep ==
    ASSUME Safe, [Next]_vars
    PROVE  LateOnce'
<1>1. TypeOK /\ HoldsCommand /\ GateServesWorker /\ LateOnce
  BY DEF Safe, Sane
<1> USE DEF LateOnce
<1>2. CASE UNCHANGED <<late, killSwitch>> /\ (MayEnter' => MayEnter)
  BY <1>1, <1>2
<1>3. CASE Operator
  <2>1. PICK on \in BOOLEAN : /\ killSwitch' = on
                              /\ late' = IF on /\ ~killSwitch THEN 0 ELSE late
                              /\ UNCHANGED <<worker, call>>
    BY <1>3 DEF Operator, ThrowSwitch, Risk!EngageKillSwitch
  <2>2. MayEnter' <=> MayEnter
    BY <2>1 DEF MayEnter
  <2> QED
    BY <1>1, <2>1, <2>2 DEF GateServesWorker
<1>4. CASE Producer \/ Controller \/ UNCHANGED vars
  <2>1. UNCHANGED <<late, killSwitch, worker, call>>
    BY <1>4 DEF Producer, ProducerEnds, Push, Controller, PushSentinel, Join, FlushLog,
       engineVars, riskVars, vars
  <2> QED
    BY <1>2, <2>1 DEF MayEnter
<1>5. CASE EnterBook
  <2>1. /\ late' = IF killSwitch THEN late + 1 ELSE late
        /\ UNCHANGED killSwitch /\ worker.pc = "book"
        /\ worker'.pc = "count"
    BY <1>1, <1>5 DEF EnterBook, At, Goto, riskVars, TypeOK
  <2>2. MayEnter /\ ~MayEnter'
    BY <2>1 DEF MayEnter
  <2> QED
    BY <1>1, <2>1, <2>2
<1>6. CASE ReadSwitch
  <2>1. /\ UNCHANGED <<late, killSwitch>> /\ worker'.pc = "check"
        /\ call' = [order |-> worker.cmd, reference |-> Touch(worker.cmd.side),
                    halted |-> killSwitch]
    BY <1>1, <1>6 DEF ReadSwitch, Goto, TypeOK, Risk!StartCheck, Risk!Loaded, engineVars
  <2>2. killSwitch => ~MayEnter'
    BY <2>1 DEF MayEnter
  <2> QED
    BY <1>1, <2>1, <2>2
<1>7. CASE Decide
  <2>1. UNCHANGED <<late, killSwitch>> /\ worker.pc = "check"
    BY <1>7 DEF Decide, Risk!FinishCheck, engineVars, At
  <2>2. worker'.pc = IF Risk!Outcome = "Accepted" THEN "book" ELSE "tally"
    BY <1>1, <1>7 DEF Decide, Goto, AfterCheck, TypeOK
  <2>3. MayEnter' => MayEnter
    BY <2>1, <2>2, GateVerdict DEF MayEnter
  <2> QED
    BY <1>2, <2>1, <2>3
<1>8. CASE PopCommand \/ PopSentinel \/ Tally
  <2>1. UNCHANGED <<late, killSwitch>> /\ worker'.pc \notin {"book", "check"}
    BY <1>1, <1>8 DEF PopCommand, PopSentinel, Tally, StartApply, Goto, engineVars, riskVars,
       TypeOK
  <2> QED
    BY <1>2, <2>1 DEF MayEnter
<1>9. CASE RemoveOrder \/ CountKind \/ CountTrades
  <2>1. UNCHANGED <<late, killSwitch>> /\ worker'.pc \notin {"book", "check"}
    BY <1>1, <1>9 DEF RemoveOrder, CountKind, CountTrades, Goto, engineVars, riskVars, TypeOK
  <2> QED
    BY <1>2, <2>1 DEF MayEnter
<1>10. CASE Journal
  <2>1. AfterJournal(worker.cmd) \in {"gate", "cancel"}
    BY <1>1, <1>10, EngineConstants DEF Journal, At, AfterJournal, TypeOK, HoldsCommand,
       Commands
  <2>2. UNCHANGED <<late, killSwitch>> /\ worker'.pc \notin {"book", "check"}
    BY <1>1, <1>10, <2>1 DEF Journal, Goto, engineVars, riskVars, TypeOK
  <2> QED
    BY <1>2, <2>2 DEF MayEnter
<1> QED
  BY <1>3, <1>4, <1>5, <1>6, <1>7, <1>8, <1>9, <1>10 DEF Next, Consumer, Apply

(* The journal is written in one place, before anything else is done about *)
(* the command.                                                            *)
LEMMA JournalStep ==
    ASSUME Safe, [Next]_vars
    PROVE  LogStaysOpen' /\ JournalLeads'
<1>1. TypeOK /\ HoldsCommand /\ LogStaysOpen /\ JournalLeads
  BY DEF Safe, Sane
<1>2. CASE Journal
  <2>1. worker.pc = "journal" /\ worker.cmd \in Commands
    BY <1>1, <1>2 DEF Journal, At, HoldsCommand, TypeOK
  <2>2. worker.cmd.type # "Shutdown" /\ AfterJournal(worker.cmd) \in {"gate", "cancel"}
    BY <2>1, EngineConstants DEF Commands, AfterJournal
  <2>3. Log!AppendRecord(worker.cmd)
    BY <1>1, <1>2, <2>2 DEF Journal, WriteAhead, LogStaysOpen
  <2>4. appended' = Append(appended, worker.cmd) /\ UNCHANGED <<stream, applied>>
    BY <1>2, <2>3 DEF Log!AppendRecord, Journal, engineVars
  <2>5. worker'.cmd = worker.cmd /\ worker'.pc \in {"gate", "cancel"}
    BY <1>1, <1>2, <2>2 DEF Journal, Goto, TypeOK
  <2> QED
    BY <1>1, <2>1, <2>4, <2>5 DEF LogStaysOpen, JournalLeads
<1>3. CASE Tally
  <2>1. /\ UNCHANGED <<stream, appended>> /\ worker.pc = "tally"
        /\ worker'.pc = "loop" /\ applied' = Append(applied, worker.cmd)
    BY <1>3 DEF Tally, logVars, At
  <2> QED
    BY <1>1, <2>1 DEF LogStaysOpen, JournalLeads
<1>4. CASE PopCommand \/ PopSentinel
  <2>1. /\ UNCHANGED <<stream, appended, applied>> /\ worker.pc = "loop"
        /\ worker'.pc \in {"journal", "exited"}
    BY <1>1, <1>4 DEF PopCommand, PopSentinel, StartApply, Goto, At, logVars, engineVars,
       TypeOK
  <2> QED
    BY <1>1, <2>1 DEF LogStaysOpen, JournalLeads
<1>5. CASE ReadSwitch \/ Decide \/ EnterBook
  <2>1. /\ UNCHANGED <<stream, appended, applied>> /\ worker'.cmd = worker.cmd
        /\ worker.pc \in {"gate", "check", "book"}
        /\ worker'.pc \in {"check", "book", "tally", "count"}
    BY <1>1, <1>5 DEF ReadSwitch, Decide, EnterBook, AfterCheck, Goto, At, logVars,
       engineVars, TypeOK
  <2> QED
    BY <1>1, <2>1 DEF LogStaysOpen, JournalLeads
<1>6. CASE RemoveOrder \/ CountKind \/ CountTrades
  <2>1. /\ UNCHANGED <<stream, appended, applied>> /\ worker'.cmd = worker.cmd
        /\ worker.pc \in {"cancel", "count", "trades"}
        /\ worker'.pc \in {"count", "trades", "tally"}
    BY <1>1, <1>6 DEF RemoveOrder, CountKind, CountTrades, Goto, At, logVars, engineVars,
       TypeOK
  <2> QED
    BY <1>1, <2>1 DEF LogStaysOpen, JournalLeads
<1>7. CASE Around \/ UNCHANGED vars
  <2>1. UNCHANGED <<stream, appended, applied, worker>>
    BY <1>7, AroundFrame DEF vars, engineVars, logVars
  <2> QED
    BY <1>1, <2>1 DEF LogStaysOpen, JournalLeads
<1> QED
  BY <1>2, <1>3, <1>4, <1>5, <1>6, <1>7 DEF Next, Consumer, Apply, Around

LEMMA SentinelIsLastStep ==
    ASSUME Safe, [Next]_vars
    PROVE  SentinelIsLast'
<1>1. TypeOK /\ HoldsCommand /\ SentinelIsLast
  BY DEF Safe, Sane
<1>2. Shutdown \notin Commands
  BY EngineConstants DEF Commands
<1>3. CASE /\ UNCHANGED <<queue, producer, control>>
           /\ worker'.pc = "exited" <=> worker.pc = "exited"
  BY <1>1, <1>3 DEF SentinelIsLast
<1>4. CASE Apply
  <2>1. UNCHANGED <<queue, producer, control>>
    BY <1>4, ApplyFrame DEF threadVars
  <2>2. worker.pc # "exited"
    BY <1>4 DEF Apply, Journal, ReadSwitch, Decide, EnterBook, RemoveOrder, CountKind,
       CountTrades, Tally, At
  <2>3. worker'.pc # "exited"
    <3>1. CASE Journal
      BY <1>1, <3>1, EngineConstants, SMTT(30) DEF Journal, At, Goto, AfterJournal, TypeOK,
         HoldsCommand, Commands
    <3>2. CASE ReadSwitch \/ Decide \/ EnterBook \/ RemoveOrder
      BY <1>1, <3>2 DEF ReadSwitch, Decide, EnterBook, RemoveOrder, Goto, AfterCheck, TypeOK
    <3>3. CASE CountKind \/ CountTrades \/ Tally
      BY <1>1, <3>3 DEF CountKind, CountTrades, Tally, Goto, TypeOK
    <3> QED
      BY <1>4, <3>1, <3>2, <3>3 DEF Apply
  <2> QED
    BY <1>3, <2>1, <2>2, <2>3
<1>5. CASE PopCommand
  <2>1. /\ queue # <<>> /\ queue' = Tail(queue) /\ UNCHANGED <<producer, control>>
        /\ worker.pc = "loop" /\ worker'.pc = "journal" /\ Head(queue) \in Commands
    BY <1>1, <1>5, HeadOfQueue DEF PopCommand, Pop, StartApply, At
  <2>2. CASE control = "running"
    <3>1. queue \in Seq(Commands) /\ Tail(queue) \in Seq(Commands)
      BY <1>1, <2>1, <2>2, HeadTailProperties DEF SentinelIsLast
    <3> QED
      BY <2>1, <2>2, <3>1 DEF SentinelIsLast
  <2>3. CASE control # "running"
    <3>1. PICK cmds \in Seq(Commands) : queue = Append(cmds, Shutdown)
      BY <1>1, <2>1, <2>3 DEF SentinelIsLast
    <3>2. cmds # <<>> /\ Tail(queue) = Append(Tail(cmds), Shutdown)
      BY <1>2, <2>1, <3>1, HeadTailAppend
    <3>3. Tail(cmds) \in Seq(Commands)
      BY <3>2, HeadTailProperties
    <3> QED
      BY <1>1, <2>1, <2>3, <3>2, <3>3 DEF SentinelIsLast
  <2> QED
    BY <2>2, <2>3
<1>6. CASE PopSentinel
  <2>1. /\ queue # <<>> /\ queue' = Tail(queue) /\ UNCHANGED <<producer, control>>
        /\ worker.pc = "loop" /\ worker'.pc = "exited" /\ Head(queue) = Shutdown
    BY <1>1, <1>6, HeadOfQueue DEF PopSentinel, Pop, Goto, At, TypeOK
  <2>2. control # "running"
    BY <1>1, <1>2, <2>1, HeadTailProperties DEF SentinelIsLast
  <2>3. PICK cmds \in Seq(Commands) : queue = Append(cmds, Shutdown)
    BY <1>1, <2>1, <2>2 DEF SentinelIsLast
  <2>4. cmds = <<>>
    BY <1>2, <2>1, <2>3, HeadTailAppend, HeadTailProperties
  <2>5. queue' = <<>>
    BY <2>1, <2>3, <2>4, HeadTailAppend
  <2> QED
    BY <1>1, <2>1, <2>2, <2>5 DEF SentinelIsLast
<1>7. CASE Producer
  <2>1. CASE ProducerEnds
    BY <1>1, <2>1 DEF ProducerEnds, SentinelIsLast
  <2>2. ASSUME NEW cmd \in Commands, Push(cmd) PROVE SentinelIsLast'
    <3>1. /\ producer = "pushing" /\ queue' = Append(queue, cmd)
          /\ UNCHANGED <<producer, control, worker>>
      BY <2>2 DEF Push
    <3>2. queue \in Seq(Commands) /\ control = "running" /\ worker.pc # "exited"
      BY <1>1, <3>1 DEF SentinelIsLast
    <3> QED
      BY <3>1, <3>2, AppendProperties DEF SentinelIsLast
  <2> QED
    BY <1>7, <2>1, <2>2 DEF Producer
<1>8. CASE PushSentinel
  BY <1>1, <1>8 DEF PushSentinel, MayDrain, SentinelIsLast
<1>9. CASE Join \/ FlushLog
  BY <1>1, <1>9 DEF Join, FlushLog, SentinelIsLast
<1>10. CASE Operator \/ UNCHANGED vars
  BY <1>3, <1>10 DEF Operator, ThrowSwitch, threadVars, vars
<1> QED
  BY <1>4, <1>5, <1>6, <1>7, <1>8, <1>9, <1>10 DEF Next, Consumer, Controller

(* The queue without its sentinel, as SentinelIsLast describes the queue.  *)
WaitingShape ==
    /\ Waiting \in Seq(Commands)
    /\ queue = IF control = "joining" /\ worker.pc # "exited"
               THEN Append(Waiting, Shutdown) ELSE Waiting

LEMMA WaitingIs == SentinelIsLast => WaitingShape
<1> SUFFICES ASSUME SentinelIsLast PROVE WaitingShape
  OBVIOUS
<1> USE DEF WaitingShape
<1>1. CASE queue \in Seq(Commands) /\ ~(control = "joining" /\ worker.pc # "exited")
  <2>1. Waiting = queue
    BY <1>1, EndOfQueue DEF Waiting
  <2> QED
    BY <1>1, <2>1
<1>2. CASE control = "joining" /\ worker.pc # "exited"
  <2>1. PICK cmds \in Seq(Commands) : queue = Append(cmds, Shutdown)
    BY <1>2 DEF SentinelIsLast
  <2>2. Waiting = cmds
    BY <2>1, EndOfQueue DEF Waiting
  <2> QED
    BY <1>2, <2>1, <2>2
<1>3. queue = <<>> => queue \in Seq(Commands)
  OBVIOUS
<1> QED
  BY <1>1, <1>2, <1>3 DEF SentinelIsLast

LEMMA EveryCommandOnceStep ==
    ASSUME Safe, [Next]_vars, SentinelIsLast', HoldsCommand'
    PROVE  EveryCommandOnce'
<1>1. TypeOK /\ HoldsCommand /\ SentinelIsLast /\ EveryCommandOnce /\ WaitingShape
  BY WaitingIs DEF Safe, Sane
<1>0. WaitingShape'
  <2>1. SentinelIsLast' => WaitingShape'
    BY WaitingIs, PTL
  <2> QED
    BY <2>1
<1>2. /\ applied \in Seq(Commands) /\ pushed \in Seq(Commands)
      /\ InHand \in Seq(Commands)
      /\ Waiting \in Seq(Commands) /\ Waiting' \in Seq(Commands)
      /\ Idle \notin Commands
  <2>1. worker.cmd # Idle => worker.cmd \in Commands
    BY <1>1 DEF TypeOK
  <2>2. InHand \in Seq(Commands)
    BY <2>1 DEF InHand
  <2> QED
    BY <1>0, <1>1, <2>2, EngineConstants DEF TypeOK, WaitingShape
<1>3. applied \o InHand \o Waiting = pushed
  BY <1>1 DEF EveryCommandOnce
<1>4. CASE PopCommand
  <2>1. /\ queue # <<>> /\ queue' = Tail(queue) /\ UNCHANGED <<control, applied, pushed>>
        /\ worker.pc = "loop" /\ worker' = [pc |-> "journal", cmd |-> Head(queue)]
        /\ Head(queue) \in Commands
    BY <1>1, <1>4, HeadOfQueue DEF PopCommand, Pop, StartApply, At, engineVars
  <2>2. InHand = <<>> /\ InHand' = <<Head(queue)>>
    BY <1>1, <1>2, <2>1 DEF InHand, HoldsCommand
  <2>3. Waiting # <<>> /\ Head(queue) = Head(Waiting) /\ Waiting' = Tail(Waiting)
    <3>1. CASE queue = Waiting /\ ~(control = "joining")
      <4>1. queue' = Waiting'
        BY <1>0, <2>1, <3>1 DEF WaitingShape
      <4> QED
        BY <2>1, <3>1, <4>1
    <3>2. CASE control = "joining"
      <4>1. queue = Append(Waiting, Shutdown) /\ queue' = Append(Waiting', Shutdown)
        BY <1>0, <1>1, <2>1, <3>2 DEF WaitingShape
      <4>2. Waiting # <<>>
        BY <1>2, <2>1, <4>1, HeadTailAppend, EngineConstants DEF Commands
      <4>3. Head(queue) = Head(Waiting) /\ Tail(queue) = Append(Tail(Waiting), Shutdown)
        BY <1>2, <4>1, <4>2, HeadTailAppend
      <4>4. Tail(Waiting) \in Seq(Commands)
        BY <1>2, <4>2, HeadTailProperties
      <4>5. Waiting' = Tail(Waiting)
        <5>1. /\ Front(Append(Waiting', Shutdown)) = Waiting'
              /\ Front(Append(Tail(Waiting), Shutdown)) = Tail(Waiting)
          BY <1>2, <4>4, EndOfQueue
        <5> QED
          BY <2>1, <4>1, <4>3, <5>1
      <4> QED
        BY <4>2, <4>3, <4>5
    <3> QED
      BY <1>1, <2>1, <3>1, <3>2 DEF WaitingShape
  <2>4. applied \o <<>> \o Waiting = applied \o <<Head(Waiting)>> \o Tail(Waiting)
    BY <1>2, <2>3, TakeTheFirst
  <2>5. control \notin {"joined", "flushed"}
    BY <1>1, <2>1 DEF SentinelIsLast
  <2> QED
    BY <1>3, <2>1, <2>2, <2>3, <2>4, <2>5 DEF EveryCommandOnce
<1>5. CASE PopSentinel
  <2>1. /\ UNCHANGED <<control, applied, pushed>> /\ queue # <<>>
        /\ worker.pc = "loop" /\ worker'.pc = "exited" /\ Head(queue) = Shutdown
    BY <1>1, <1>5, HeadOfQueue DEF PopSentinel, Pop, Goto, At, engineVars, TypeOK
  <2>2. InHand = <<>> /\ InHand' = <<>>
    BY <1>1, <2>1 DEF InHand, HoldsCommand
  <2>3. Waiting = <<>>
    <3>1. queue = Append(Waiting, Shutdown)
      BY <1>1, <1>2, <2>1, HeadTailProperties, EngineConstants
         DEF SentinelIsLast, Commands, WaitingShape
    <3>2. ASSUME Waiting # <<>> PROVE Head(queue) \in Commands
      <4>1. Head(Append(Waiting, Shutdown)) = Head(Waiting)
        BY <1>2, <3>2, HeadTailAppend
      <4> QED
        BY <1>2, <3>1, <3>2, <4>1, HeadTailProperties
    <3>3. Shutdown \notin Commands
      BY EngineConstants DEF Commands
    <3> QED
      BY <2>1, <3>2, <3>3
  <2>4. Waiting' = <<>>
    BY <2>1 DEF SentinelIsLast, Waiting
  <2>5. control \notin {"joined", "flushed"}
    BY <1>1, <2>1 DEF SentinelIsLast
  <2> QED
    BY <1>3, <2>1, <2>2, <2>3, <2>4, <2>5 DEF EveryCommandOnce
<1>6. CASE Tally
  <2>1. /\ UNCHANGED <<queue, control, pushed>> /\ worker.pc = "tally"
        /\ worker' = [pc |-> "loop", cmd |-> Idle] /\ applied' = Append(applied, worker.cmd)
    BY <1>6 DEF Tally, threadVars, At
  <2>2. worker.cmd \in Commands /\ InHand = <<worker.cmd>> /\ InHand' = <<>>
    BY <1>1, <1>2, <2>1 DEF InHand, HoldsCommand, TypeOK
  <2>3. Waiting' = Waiting
    BY <2>1 DEF Waiting
  <2>4. Append(applied, worker.cmd) \o <<>> \o Waiting
            = applied \o <<worker.cmd>> \o Waiting
    BY <1>2, <2>2, FinishTheHeld, ZenonT(30)
  <2>5. control \notin {"joined", "flushed"}
    BY <1>1, <2>1 DEF SentinelIsLast
  <2> QED
    BY <1>3, <2>1, <2>2, <2>3, <2>4, <2>5 DEF EveryCommandOnce
<1>7. CASE Apply /\ ~Tally
  <2>1. UNCHANGED <<queue, control, pushed, applied>>
    BY <1>7 DEF Apply, Journal, ReadSwitch, Decide, EnterBook, RemoveOrder, CountKind,
       CountTrades, threadVars, engineVars
  <2>2. worker'.cmd = worker.cmd
    BY <1>1, <1>7 DEF Apply, Journal, ReadSwitch, Decide, EnterBook, RemoveOrder, CountKind,
       CountTrades, Goto, TypeOK
  <2>3. InHand' = InHand /\ Waiting' = Waiting
    BY <2>1, <2>2 DEF InHand, Waiting
  <2> QED
    BY <1>1, <2>1, <2>3 DEF EveryCommandOnce
<1>8. ASSUME NEW cmd \in Commands, Push(cmd) PROVE EveryCommandOnce'
  <2>1. /\ producer = "pushing" /\ queue' = Append(queue, cmd)
        /\ pushed' = Append(pushed, cmd) /\ UNCHANGED <<producer, control, worker, applied>>
    BY <1>8 DEF Push, engineVars
  <2>2. control = "running" /\ queue = Waiting /\ queue' = Waiting'
    BY <1>0, <1>1, <2>1 DEF SentinelIsLast, WaitingShape
  <2>3. applied \o InHand \o Append(Waiting, cmd)
            = Append(applied \o InHand \o Waiting, cmd)
    BY <1>2, PushAtTheEnd, SMTT(30)
  <2>4. InHand' = InHand
    BY <2>1 DEF InHand
  <2> QED
    BY <1>3, <2>1, <2>2, <2>3, <2>4 DEF EveryCommandOnce
<1>9. CASE PushSentinel
  <2>1. /\ control = "running" /\ control' = "joining"
        /\ UNCHANGED <<worker, applied, pushed>> /\ queue' = Append(queue, Shutdown)
    BY <1>9 DEF PushSentinel, engineVars
  <2>2. worker.pc # "exited" /\ queue = Waiting
    BY <1>1, <2>1 DEF SentinelIsLast, WaitingShape
  <2>3. Waiting' = Waiting
    BY <1>2, <2>1, <2>2, EndOfQueue DEF Waiting
  <2>4. InHand' = InHand
    BY <2>1 DEF InHand
  <2> QED
    BY <1>3, <2>1, <2>3, <2>4 DEF EveryCommandOnce
<1>10. CASE Join \/ FlushLog
  <2>1. UNCHANGED <<worker, queue, applied, pushed>>
    BY <1>10 DEF Join, FlushLog, engineVars
  <2>2. InHand' = InHand /\ Waiting' = Waiting
    BY <2>1 DEF InHand, Waiting
  <2>3. CASE Join
    <3>1. worker.pc = "exited"
      BY <2>3 DEF Join
    <3>2. InHand = <<>> /\ Waiting = <<>>
      BY <1>1, <3>1 DEF InHand, HoldsCommand, SentinelIsLast, Waiting
    <3>3. applied \o <<>> \o <<>> = applied
      BY <1>2, ConcatEmptySeq
    <3> QED
      BY <1>3, <2>1, <2>2, <3>2, <3>3 DEF EveryCommandOnce
  <2>4. CASE FlushLog
    <3>1. control = "joined"
      BY <2>4 DEF FlushLog
    <3> QED
      BY <1>1, <2>1, <2>2, <3>1 DEF EveryCommandOnce
  <2> QED
    BY <1>10, <2>3, <2>4
<1>11. CASE ProducerEnds \/ Operator \/ UNCHANGED vars
  <2>1. UNCHANGED <<worker, queue, control, applied, pushed>>
    BY <1>11 DEF ProducerEnds, Operator, ThrowSwitch, threadVars, engineVars, vars
  <2>2. InHand' = InHand /\ Waiting' = Waiting
    BY <2>1 DEF InHand, Waiting
  <2> QED
    BY <1>1, <2>1, <2>2 DEF EveryCommandOnce
<1> QED
  BY <1>4, <1>5, <1>6, <1>7, <1>8, <1>9, <1>10, <1>11
     DEF Next, Consumer, Producer, Controller

(* The counters follow the command through apply(); what the operator does *)
(* to the switch changes the verdict, never the sum.                       *)
LEMMA CountsInFlightStep ==
    ASSUME Safe, [Next]_vars
    PROVE  CountsInFlight'
<1>1. TypeOK /\ HoldsCommand /\ GateServesWorker /\ BookIsFinite /\ CountsInFlight
  BY DEF Safe, Sane
<1>2. /\ stats \in [commands : Nat, submits : Nat, cancels : Nat, trades : Nat]
      /\ counter["Accepted"] \in Nat /\ Risk!total_rejected \in Nat
      /\ Len(applied) \in Nat /\ applied \in Seq(Commands)
  <2>1. Risk!RejectReason = {"KillSwitch", "MaxOrderSize", "MaxNotional",
                             "PriceCollar", "DuplicateOrder", "Accepted"}
    BY DEF Risk!RejectReason, Risk!Checks
  <2>2. \A r \in {"KillSwitch", "MaxOrderSize", "MaxNotional", "PriceCollar",
                  "DuplicateOrder", "Accepted"} : counter[r] \in Nat
    BY <1>1, <2>1 DEF GateServesWorker
  <2>3. Risk!total_rejected \in Nat /\ counter["Accepted"] \in Nat
    BY <2>2 DEF Risk!total_rejected
  <2> QED
    BY <1>1, <2>3 DEF TypeOK
<1>3. worker.cmd \in Commands =>
          /\ Orders(applied) \in Nat
          /\ Orders(Append(applied, worker.cmd))
                 = Orders(applied) + One(worker.cmd.type = "Submit")
  BY <1>2, OneMoreCommand
<1>4. /\ worker.cmd \in Submits => worker.cmd.type = "Submit"
      /\ worker.cmd \in Cancels => worker.cmd.type = "Cancel"
      /\ worker.cmd \in Commands => worker.cmd.type \in {"Submit", "Cancel"}
  BY EngineConstants DEF Commands
<1>5. worker.pc \notin {"loop", "exited"} => worker.cmd \in Commands
  BY <1>1 DEF HoldsCommand, TypeOK
<1> USE DEF CountsInFlight, One
<1>6. CASE UNCHANGED <<worker, stats, applied, counter>>
  BY <1>1, <1>6 DEF Risk!total_rejected
<1>7. CASE PopCommand \/ PopSentinel \/ Journal \/ ReadSwitch \/ RemoveOrder
  <2>1. /\ UNCHANGED <<stats, applied, counter>>
        /\ worker.pc \in {"loop", "journal", "gate", "cancel"}
    BY <1>7 DEF PopCommand, PopSentinel, StartApply, Journal, ReadSwitch, RemoveOrder,
       Risk!StartCheck, At, engineVars, riskVars
  <2>2. \/ worker'.pc \in {"journal", "exited", "gate", "cancel", "check"}
        \/ worker'.pc = "count" /\ worker'.cmd.type = "Cancel"
    <3>1. CASE Journal
      BY <1>1, <1>4, <1>5, <3>1 DEF Journal, Goto, At, AfterJournal, TypeOK
    <3>2. CASE PopCommand \/ PopSentinel \/ ReadSwitch \/ RemoveOrder
      BY <1>1, <1>4, <3>2, SMTT(30) DEF PopCommand, PopSentinel, StartApply, ReadSwitch, RemoveOrder,
         Goto, At, TypeOK, HoldsCommand
    <3> QED
      BY <1>7, <3>1, <3>2
  <2> QED
    BY <1>1, <2>1, <2>2 DEF Risk!total_rejected
<1>8. CASE Decide
  <2>1. /\ UNCHANGED <<stats, applied>> /\ worker.pc = "check"
        /\ worker'.cmd = worker.cmd
        /\ worker'.pc = IF Risk!Outcome = "Accepted" THEN "book" ELSE "tally"
    BY <1>1, <1>8 DEF Decide, Goto, At, AfterCheck, engineVars, TypeOK
  <2>2. worker.cmd.type = "Submit" /\ worker.cmd \in Commands
    BY <1>1, <1>4, <2>1 DEF HoldsCommand, Commands
  <2>3. IF Risk!Outcome = "Accepted"
        THEN /\ counter'["Accepted"] = counter["Accepted"] + 1
             /\ Risk!total_rejected' = Risk!total_rejected
        ELSE /\ counter'["Accepted"] = counter["Accepted"]
             /\ Risk!total_rejected' = Risk!total_rejected + 1
    BY <1>1, <1>8, GateCounts DEF Decide, GateServesWorker
  <2>4. /\ stats.commands = Len(applied)
        /\ stats.submits + Risk!total_rejected = Orders(applied) + 0
        /\ stats.cancels + Orders(applied) = Len(applied) + 0
        /\ counter["Accepted"] + Risk!total_rejected = Orders(applied) + 0
        /\ Orders(applied) \in Nat /\ Orders(applied') = Orders(applied)
    BY <1>1, <1>3, <2>1, <2>2
  <2>5. ASSUME NEW a \in Nat, NEW r \in Nat, NEW o \in Nat, a + r = o + 0
        PROVE  (a + 1) + r = o + 1 /\ a + (r + 1) = o + 1
    BY <2>5
  <2>6. /\ (counter["Accepted"] + 1) + Risk!total_rejected = Orders(applied) + 1
        /\ counter["Accepted"] + (Risk!total_rejected + 1) = Orders(applied) + 1
    BY <1>2, <2>4, <2>5, SMTT(30)
  <2>7. stats.submits + (Risk!total_rejected + 1) = Orders(applied) + 1
    BY <1>2, <2>4, <2>5
  <2>8. CASE Risk!Outcome = "Accepted"
    <3>1. worker'.pc = "book" /\ worker'.cmd.type = "Submit"
      BY <2>1, <2>2, <2>8
    <3>2. /\ counter'["Accepted"] + Risk!total_rejected' = Orders(applied) + 1
          /\ stats.submits + Risk!total_rejected' = Orders(applied) + 0
      BY <2>3, <2>4, <2>6, <2>8
    <3> QED
      BY <2>1, <2>4, <3>1, <3>2
  <2>9. CASE Risk!Outcome # "Accepted"
    <3>1. worker'.pc = "tally" /\ worker'.cmd.type = "Submit"
      BY <2>1, <2>2, <2>9
    <3>2. /\ counter'["Accepted"] + Risk!total_rejected' = Orders(applied) + 1
          /\ stats.submits + Risk!total_rejected' = Orders(applied) + 1
      BY <2>3, <2>6, <2>7, <2>9
    <3> QED
      BY <2>1, <2>4, <3>1, <3>2
  <2> QED
    BY <2>8, <2>9
<1>9. CASE EnterBook
  <2>1. /\ UNCHANGED <<stats, applied, counter>> /\ worker.pc = "book"
        /\ worker'.cmd = worker.cmd /\ worker'.pc = "count"
    BY <1>1, <1>9 DEF EnterBook, Goto, At, riskVars, TypeOK
  <2> QED
    BY <1>1, <2>1 DEF Risk!total_rejected
<1>10. CASE CountKind
  <2>1. /\ UNCHANGED <<applied, counter>> /\ worker.pc = "count"
        /\ worker'.cmd = worker.cmd
        /\ worker'.pc = IF worker.cmd.type = "Submit" THEN "trades" ELSE "tally"
        /\ stats' = IF worker.cmd.type = "Submit"
                    THEN [stats EXCEPT !.submits = stats.submits + 1]
                    ELSE [stats EXCEPT !.cancels = stats.cancels + 1]
    BY <1>1, <1>10 DEF CountKind, Goto, At, riskVars, TypeOK
  <2>2. worker.cmd \in Commands /\ worker.cmd.type \in {"Submit", "Cancel"}
    BY <1>4, <1>5, <2>1
  <2>3. /\ stats'.commands = stats.commands
        /\ stats'.submits = stats.submits + One(worker.cmd.type = "Submit")
        /\ stats'.cancels = stats.cancels + One(worker.cmd.type = "Cancel")
    BY <1>2, <2>1, <2>2
  <2>4. Risk!total_rejected' = Risk!total_rejected
    BY <2>1 DEF Risk!total_rejected
  <2> QED
    BY <1>1, <1>2, <1>3, <2>1, <2>2, <2>3, <2>4, SMTT(30)
<1>11. CASE CountTrades
  <2>1. /\ UNCHANGED <<applied, counter>> /\ worker.pc = "trades"
        /\ worker'.cmd = worker.cmd /\ worker'.pc = "tally"
        /\ stats' = [stats EXCEPT !.trades = stats.trades + result.trade_count]
    BY <1>1, <1>11 DEF CountTrades, Goto, At, riskVars, TypeOK
  <2>2. /\ stats'.commands = stats.commands /\ stats'.submits = stats.submits
        /\ stats'.cancels = stats.cancels
    BY <1>2, <2>1
  <2>3. worker.cmd.type = "Submit"
    BY <1>1, <1>4, <2>1 DEF HoldsCommand
  <2>4. Risk!total_rejected' = Risk!total_rejected
    BY <2>1 DEF Risk!total_rejected
  <2> QED
    BY <1>1, <2>1, <2>2, <2>3, <2>4
<1>12. CASE Tally
  <2>1. /\ UNCHANGED counter /\ worker.pc = "tally" /\ worker'.pc = "loop"
        /\ applied' = Append(applied, worker.cmd)
        /\ stats' = [stats EXCEPT !.commands = stats.commands + 1]
    BY <1>12 DEF Tally, At, riskVars
  <2>2. worker.cmd \in Commands /\ worker.cmd.type \in {"Submit", "Cancel"}
    BY <1>4, <1>5, <2>1
  <2>3. /\ stats'.commands = stats.commands + 1 /\ stats'.submits = stats.submits
        /\ stats'.cancels = stats.cancels
    BY <1>2, <2>1
  <2>4. Risk!total_rejected' = Risk!total_rejected
    BY <2>1 DEF Risk!total_rejected
  <2>5. Len(applied') = Len(applied) + 1
    BY <1>2, <2>1
  <2>6. Orders(applied') = Orders(applied) + One(worker.cmd.type = "Submit")
        /\ Orders(applied) \in Nat
    BY <1>3, <2>1, <2>2
  <2>7. /\ stats.commands = Len(applied)
        /\ stats.submits + Risk!total_rejected
               = Orders(applied) + One(worker.cmd.type = "Submit")
        /\ stats.cancels + Orders(applied) = Len(applied) + One(worker.cmd.type = "Cancel")
        /\ counter["Accepted"] + Risk!total_rejected
               = Orders(applied) + One(worker.cmd.type = "Submit")
    BY <1>1, <2>1
  <2>8. /\ stats'.commands = Len(applied')
        /\ stats'.submits + Risk!total_rejected' = Orders(applied') + 0
        /\ counter'["Accepted"] + Risk!total_rejected' = Orders(applied') + 0
    BY <2>1, <2>3, <2>4, <2>5, <2>6, <2>7
  <2>9. stats'.cancels + Orders(applied') = Len(applied') + 0
    <3>1. stats.cancels \in Nat /\ Len(applied) \in Nat
      BY <1>2
    <3>2. CASE worker.cmd.type = "Submit"
      BY <2>3, <2>5, <2>6, <2>7, <3>1, <3>2
    <3>3. CASE worker.cmd.type = "Cancel"
      BY <2>3, <2>5, <2>6, <2>7, <3>1, <3>3
    <3> QED
      BY <2>2, <3>2, <3>3
  <2> QED
    BY <2>1, <2>8, <2>9
<1> QED
  BY <1>6, <1>7, <1>8, <1>9, <1>10, <1>11, <1>12, AroundFrame
     DEF Next, Consumer, Apply, Around, vars, engineVars, riskVars

LEMMA TypeStep ==
    ASSUME Sane, [Next]_vars, GateServesWorker'
    PROVE  TypeOK'
<1>1. TypeOK /\ HoldsCommand /\ BookIsFinite
  BY DEF Sane
<1>2. (worker \in [pc : {"loop", "journal", "gate", "check", "book", "cancel", "count",
                         "trades", "tally", "exited"},
                   cmd : Commands \cup {Idle}])'
  BY WorkerTypeStep
<1>3. (call # NoCheck => call.reference \in References)'
  BY DEF GateServesWorker
<1>4. queue' \in Seq(Commands \cup {Shutdown}) /\ Len(queue') <= Capacity
  <2>1. CASE UNCHANGED queue
    BY <1>1, <2>1 DEF TypeOK
  <2>2. ASSUME NEW c \in Commands \cup {Shutdown}, Room, queue' = Append(queue, c)
        PROVE  queue' \in Seq(Commands \cup {Shutdown}) /\ Len(queue') <= Capacity
    BY <1>1, <2>2, AppendProperties, EngineConstants DEF TypeOK, Room
  <2>3. CASE Pop
    BY <1>1, <2>3, HeadOfQueue, EngineConstants DEF Pop, TypeOK
  <2>4. CASE Producer \/ Controller
    BY <2>1, <2>2, <2>4 DEF Producer, ProducerEnds, Push, Controller, PushSentinel, Join,
       FlushLog
  <2>5. CASE Apply \/ Operator
    BY <2>1, <2>5, ApplyFrame DEF Operator, ThrowSwitch, threadVars
  <2> QED
    BY <2>1, <2>3, <2>4, <2>5 DEF Next, Consumer, PopCommand, PopSentinel, vars, threadVars
<1>5. pushed' \in Seq(Commands) /\ applied' \in Seq(Commands)
  <2>1. CASE UNCHANGED <<pushed, applied>>
    BY <1>1, <2>1 DEF TypeOK
  <2>2. ASSUME NEW cmd \in Commands, Push(cmd)
        PROVE  pushed' \in Seq(Commands) /\ applied' \in Seq(Commands)
    BY <1>1, <2>2, AppendProperties DEF Push, engineVars, TypeOK
  <2>5. CASE ProducerEnds \/ Controller \/ Operator
    BY <2>1, <2>5 DEF ProducerEnds, Controller, PushSentinel, Join, FlushLog, Operator,
       ThrowSwitch, threadVars, engineVars
  <2>3. CASE Tally
    <3>1. worker.cmd \in Commands
      BY <1>1, <2>3 DEF Tally, At, HoldsCommand, TypeOK
    <3> QED
      BY <1>1, <2>3, <3>1, AppendProperties DEF Tally, threadVars, TypeOK
  <2>4. CASE Consumer /\ ~Tally
    BY <2>1, <2>4 DEF Consumer, PopCommand, PopSentinel, Pop, Apply, Journal, ReadSwitch,
       Decide, EnterBook, RemoveOrder, CountKind, CountTrades, threadVars, engineVars
  <2> QED
    BY <2>1, <2>2, <2>3, <2>4, <2>5 DEF Next, Producer, vars, threadVars, engineVars
<1>6. stats' \in [commands : Nat, submits : Nat, cancels : Nat, trades : Nat]
  <2>1. CASE UNCHANGED stats
    BY <1>1, <2>1 DEF TypeOK
  <2>2. CASE CountKind \/ Tally
    <3>1. /\ stats \in [commands : Nat, submits : Nat, cancels : Nat, trades : Nat]
          /\ \/ stats' = [stats EXCEPT !.submits = stats.submits + 1]
             \/ stats' = [stats EXCEPT !.cancels = stats.cancels + 1]
             \/ stats' = [stats EXCEPT !.commands = stats.commands + 1]
      BY <1>1, <2>2 DEF CountKind, Tally, TypeOK
    <3> QED
      BY <3>1
  <2>3. CASE CountTrades
    <3>1. /\ stats' = [stats EXCEPT !.trades = stats.trades + result.trade_count]
          /\ stats.trades + result.trade_count \in Nat
      BY <1>1, <2>3 DEF CountTrades, TypeOK, BookIsFinite
    <3> QED
      BY <1>1, <3>1 DEF TypeOK
  <2>4. CASE Consumer /\ ~CountKind /\ ~CountTrades /\ ~Tally
    BY <2>1, <2>4 DEF Consumer, PopCommand, PopSentinel, Apply, Journal, ReadSwitch,
       Decide, EnterBook, RemoveOrder, engineVars
  <2> QED
    BY <2>1, <2>2, <2>3, <2>4, AroundFrame DEF Next, Around, vars, engineVars
<1>7. producer' \in {"pushing", "done"} /\ late' \in Nat
      /\ control' \in {"running", "joining", "joined", "flushed"}
  <2>1. CASE Producer \/ Controller \/ Operator \/ UNCHANGED vars
    BY <1>1, <2>1 DEF Producer, ProducerEnds, Push, Controller, PushSentinel, Join, FlushLog,
       Operator, ThrowSwitch, threadVars, engineVars, vars, TypeOK
  <2>2. CASE Consumer
    BY <1>1, <2>2 DEF Consumer, PopCommand, PopSentinel, Pop, Apply, Journal, ReadSwitch,
       Decide, EnterBook, RemoveOrder, CountKind, CountTrades, Tally, threadVars,
       engineVars, TypeOK
  <2> QED
    BY <2>1, <2>2 DEF Next
<1> QED
  BY <1>2, <1>3, <1>4, <1>5, <1>6, <1>7 DEF TypeOK

-----------------------------------------------------------------------------
(* The theorems. *)

LEMMA SafeAtStart == Init => Safe
<1> SUFFICES ASSUME Init PROVE Safe
  OBVIOUS
<1> USE DEF Init, Fresh
<1>1. /\ queue = <<>> /\ pushed = <<>> /\ applied = <<>> /\ appended = <<>>
      /\ worker = [pc |-> "loop", cmd |-> Idle]
      /\ resting = {} /\ result.trade_count = 0
      /\ counter = [r \in Risk!RejectReason |-> 0] /\ call = NoCheck
      /\ killSwitch = FALSE
  BY DEF Book!Init, Risk!Init
<1>2. <<>> \in Seq(Commands) /\ <<>> \in Seq(Commands \cup {Shutdown}) /\ Len(<<>>) = 0
  OBVIOUS
<1>3. TypeOK
  BY <1>1, <1>2, EngineConstants DEF TypeOK
<1>4. HoldsCommand /\ SentinelIsLast /\ LogStaysOpen /\ JournalLeads
  BY <1>1, <1>2 DEF HoldsCommand, SentinelIsLast, LogStaysOpen, JournalLeads
<1>5. GateServesWorker
  <2>1. counter \in [Risk!RejectReason -> Nat]
    BY <1>1
  <2>2. worker.pc # "check"
    BY <1>1
  <2> QED
    BY <1>1, <2>1, <2>2 DEF GateServesWorker
<1>6. BookIsFinite /\ IdsAreKnown
  BY <1>1, FS_EmptySet DEF BookIsFinite, IdsAreKnown
<1>7. LateOnce
  BY <1>1 DEF LateOnce, MayEnter
<1>8. CountsInFlight
  <2>1. Orders(<<>>) = 0
    BY FS_EmptySet DEF Orders
  <2>2. Risk!total_rejected = 0 /\ counter["Accepted"] = 0
    BY <1>1 DEF Risk!total_rejected, Risk!RejectReason, Risk!Checks
  <2> QED
    BY <1>1, <1>2, <2>1, <2>2 DEF CountsInFlight, One
<1>9. EveryCommandOnce
  <2>1. InHand = <<>> /\ Waiting = <<>>
    BY <1>1 DEF InHand, Waiting
  <2>2. applied \o InHand \o Waiting = <<>>
    BY <1>1, <2>1
  <2> QED
    BY <1>1, <2>2 DEF EveryCommandOnce
<1> QED
  BY <1>3, <1>4, <1>5, <1>6, <1>7, <1>8, <1>9 DEF Safe, Sane

LEMMA SaneStep ==
    ASSUME Sane, [Next]_vars
    PROVE  Sane'
<1>1. HoldsCommand' /\ GateServesWorker' /\ BookIsFinite'
  BY HoldsCommandStep, GateServesWorkerStep, BookIsFiniteStep
<1> QED
  BY <1>1, TypeStep DEF Sane

LEMMA SafeStep ==
    ASSUME Safe, [Next]_vars
    PROVE  Safe'
<1>1. Sane' /\ SentinelIsLast'
  BY SaneStep, SentinelIsLastStep DEF Safe
<1>2. LogStaysOpen' /\ JournalLeads' /\ LateOnce' /\ IdsAreKnown' /\ CountsInFlight'
  BY JournalStep, LateOnceStep, IdsAreKnownStep, CountsInFlightStep
<1>3. EveryCommandOnce'
  BY <1>1, EveryCommandOnceStep DEF Sane
<1> QED
  BY <1>1, <1>2, <1>3 DEF Safe

(* Safe is inductive: the engine's threads keep it whatever the            *)
(* interleaving of consumer, producer, controller and operator.            *)
THEOREM EngineIsSafe == Spec => []Safe
<1>1. Safe /\ [Next]_vars => Safe'
  BY SafeStep
<1> QED
  BY SafeAtStart, <1>1, PTL DEF Spec

(* Nothing is dropped and nothing is counted twice: what the producer      *)
(* pushed has been applied, is in hand or waits, in that order, and after  *)
(* drain_and_join() has joined all of it has been applied.                 *)
THEOREM NothingDropped == Spec => []EveryCommandOnce
BY EngineIsSafe, PTL DEF Safe, Sane

(* Every command is in the journal, once and in order, before the gate,    *)
(* the book or a counter is touched on its behalf.                         *)
THEOREM WriteAheadHolds == Spec => []JournalLeads
BY EngineIsSafe, PTL DEF Safe, Sane

(* Between two commands the engine's counters and the gate's tell the same *)
(* story, and every variable has its type.                                 *)
THEOREM EveryOrderAccounted == Spec => []CountersAgree
<1>1. Safe => CountersAgree
  <2> SUFFICES ASSUME Safe PROVE CountersAgree
    OBVIOUS
  <2>1. TypeOK /\ CountsInFlight /\ GateServesWorker
    BY DEF Safe, Sane
  <2>2. /\ stats.submits \in Nat /\ stats.cancels \in Nat /\ counter["Accepted"] \in Nat
        /\ Risk!total_rejected \in Nat /\ Len(applied) \in Nat
    <3>1. Risk!RejectReason = {"KillSwitch", "MaxOrderSize", "MaxNotional",
                               "PriceCollar", "DuplicateOrder", "Accepted"}
      BY DEF Risk!RejectReason, Risk!Checks
    <3>2. \A r \in {"KillSwitch", "MaxOrderSize", "MaxNotional", "PriceCollar",
                    "DuplicateOrder", "Accepted"} : counter[r] \in Nat
      BY <2>1, <3>1 DEF GateServesWorker
    <3>3. Risk!total_rejected \in Nat /\ counter["Accepted"] \in Nat
      BY <3>2 DEF Risk!total_rejected
    <3> QED
      BY <2>1, <3>3 DEF TypeOK
  <2>3. worker.pc \in {"loop", "exited"} =>
            /\ stats.commands = Len(applied)
            /\ stats.submits + Risk!total_rejected = Orders(applied) + 0
            /\ stats.cancels + Orders(applied) = Len(applied) + 0
            /\ counter["Accepted"] + Risk!total_rejected = Orders(applied) + 0
    BY <2>1 DEF CountsInFlight, One
  <2>4. Orders(applied) \in Nat
    <3>1. IsFiniteSet(DOMAIN applied)
      <4>1. DOMAIN applied = 1..Len(applied) /\ Len(applied) \in Int
        BY <2>1 DEF TypeOK
      <4> QED
        BY <4>1, FS_Interval
    <3>2. IsFiniteSet({i \in DOMAIN applied : applied[i].type = "Submit"})
      BY <3>1, FS_Subset
    <3> QED
      BY <3>2, FS_CardinalityType DEF Orders
  <2>5. worker.pc \in {"loop", "exited"} =>
            /\ stats.commands = Len(applied)
            /\ stats.submits = Orders(applied) - Risk!total_rejected
            /\ stats.cancels = Len(applied) - Orders(applied)
            /\ counter["Accepted"] + Risk!total_rejected = Orders(applied)
    <3> DEFINE orders == Orders(applied)
    <3> SUFFICES ASSUME worker.pc \in {"loop", "exited"}
                 PROVE  /\ stats.commands = Len(applied)
                        /\ stats.submits = orders - Risk!total_rejected
                        /\ stats.cancels = Len(applied) - orders
                        /\ counter["Accepted"] + Risk!total_rejected = orders
      OBVIOUS
    <3> HIDE DEF orders
    <3>1. /\ stats.commands = Len(applied) /\ orders \in Nat
          /\ stats.submits + Risk!total_rejected = orders + 0
          /\ stats.cancels + orders = Len(applied) + 0
          /\ counter["Accepted"] + Risk!total_rejected = orders + 0
      BY <2>3, <2>4 DEF orders
    <3>2. ASSUME NEW x \in Nat, NEW y \in Nat, NEW z \in Nat, x + y = z + 0
          PROVE  x = z - y /\ x + y = z
      BY <3>2
    <3>3. stats.submits = orders - Risk!total_rejected
      BY <2>2, <3>1, <3>2, SMTT(30)
    <3>4. stats.cancels = Len(applied) - orders
      <4>1. /\ stats.cancels + orders = Len(applied) + 0
            /\ stats.cancels \in Nat /\ orders \in Nat /\ Len(applied) \in Nat
        BY <2>2, <3>1
      <4> QED
        BY <4>1, <3>2
    <3>5. counter["Accepted"] + Risk!total_rejected = orders
      BY <2>2, <3>1, <3>2
    <3> QED
      BY <3>1, <3>3, <3>4, <3>5
  <2> QED
    BY <2>1, <2>5 DEF CountersAgree
<1> QED
  BY <1>1, EngineIsSafe, PTL

(* The kill switch freezes the book but for one order at most, however the *)
(* operator's store falls between the steps of check() and submit().       *)
THEOREM KillSwitchFreezes == Spec => []AtMostOneIsLate
<1>1. Safe => AtMostOneIsLate
  BY DEF Safe, LateOnce, AtMostOneIsLate
<1> QED
  BY <1>1, EngineIsSafe, PTL

(* With unique ids enforced the gate's memory is the history of what it    *)
(* accepted, all of which was offered to the book but for the order that   *)
(* is on its way there.                                                    *)
Entries == [order : Submits, reference : References]

OfferedOnce ==
    /\ accepted \in Seq(Entries)
    /\ worker.pc = "book" => accepted # <<>> /\ Last(accepted).order = worker.cmd
    /\ UniqueIds => seen = IdsOf(accepted)
    /\ GateCoversTheIndex

(* One more entry is one more id, and the last entry's at that.            *)
LEMMA OneMoreId ==
    ASSUME NEW past \in Seq(Entries), NEW e \in Entries
    PROVE  /\ IdsOf(Append(past, e)) = IdsOf(past) \cup {e.order.id}
           /\ Append(past, e) \in Seq(Entries) /\ Append(past, e) # <<>>
           /\ Last(Append(past, e)) = e
           /\ Front(Append(past, e)) = past
<1> HIDE DEF Entries
<1>1. /\ DOMAIN Append(past, e) = DOMAIN past \cup {Len(past) + 1}
      /\ \A i \in DOMAIN past : Append(past, e)[i] = past[i]
      /\ Append(past, e)[Len(past) + 1] = e
      /\ Len(Append(past, e)) = Len(past) + 1
      /\ Append(past, e) \in Seq(Entries) /\ Append(past, e) # <<>>
  OBVIOUS
<1>2. Last(Append(past, e)) = e
  BY <1>1 DEF Last
<1>3. Front(Append(past, e)) = past
  <2>1. Front(Append(past, e)) = SubSeq(Append(past, e), 1, Len(past))
    BY <1>1 DEF Front
  <2> QED
    BY <1>1, <2>1
<1> QED
  BY <1>1, <1>2, <1>3 DEF IdsOf

(* The entries but the last, and the last, are all the entries.            *)
LEMMA LastIdAside ==
    ASSUME NEW entries \in Seq(Entries), entries # <<>>
    PROVE  IdsOf(entries) = IdsOf(Front(entries)) \cup {Last(entries).order.id}
<1> HIDE DEF Entries
<1>1. Front(entries) \in Seq(Entries) /\ Last(entries) \in Entries
  BY DEF Front, Last
<1>2. entries = Append(Front(entries), Last(entries))
  BY DEF Front, Last
<1> QED
  BY <1>1, <1>2, OneMoreId

(* What submit() says of an order whose id does not rest.                  *)
LEMMA RefusedWhenEmpty ==
    ASSUME NEW c, ~Book!Resting(c.id),
           \/ Book!Submit(c.id, c.trader, c.side, c.price, c.quantity)
           \/ Book!Reject(c.id, c.quantity)
    PROVE  result'.status = "Rejected" <=> c.quantity = 0
<1>1. CASE Book!Reject(c.id, c.quantity)
  BY <1>1 DEF Book!Reject
<1>2. CASE Book!Submit(c.id, c.trader, c.side, c.price, c.quantity)
  <2> DEFINE t == [id |-> c.id, trader |-> c.trader, side |-> c.side, price |-> c.price,
                   quantity |-> c.quantity, remaining |-> c.quantity]
  <2>1. result'.status = Book!StatusOf(resting, t) /\ c.quantity > 0
    BY <1>2 DEF Book!Submit
  <2> HIDE DEF t
  <2>2. Book!StatusOf(resting, t) # "Rejected"
    BY DEF Book!StatusOf
  <2> QED
    BY <2>1, <2>2
<1> QED
  BY <1>1, <1>2

LEMMA OfferedOnceStep ==
    ASSUME Safe, OfferedOnce, [Next]_vars
    PROVE  OfferedOnce'
<1>1. TypeOK /\ HoldsCommand /\ GateServesWorker /\ BookIsFinite /\ IdsAreKnown
  BY DEF Safe, Sane
<1> USE DEF OfferedOnce, GateCoversTheIndex, OfferedIds
<1>2. CASE EnterBook
  <2>1. /\ UNCHANGED <<seen, accepted>>
        /\ worker.pc = "book" /\ worker'.pc = "count" /\ worker'.cmd = worker.cmd
    BY <1>1, <1>2 DEF EnterBook, riskVars, Goto, TypeOK, At
  <2>2. IdsOf(accepted) = OfferedIds \cup {worker.cmd.id}
    BY <2>1, LastIdAside
  <2>3. OfferedIds' = IdsOf(accepted)
    BY <2>1 DEF IdsOf
  <2>4. \A n \in resting' : (\E m \in resting : n.id = m.id) \/ n.id = worker.cmd.id
    BY <1>1, <1>2, EnteringTheBook
  <2>5. UniqueIds => \A n \in resting' : n.id \in OfferedIds'
    BY <2>2, <2>3, <2>4
  <2>6. UniqueIds => ~Book!Resting(worker.cmd.id)
    BY <1>1, <2>1 DEF IdsAreKnown, Book!Resting
  <2>7. UniqueIds => (result'.status = "Rejected" <=> worker.cmd.quantity = 0)
    BY <1>2, <2>6, RefusedWhenEmpty DEF EnterBook
  <2>8. UniqueIds => seen' = IdsOf(accepted)'
    BY <2>1 DEF IdsOf
  <2> QED
    BY <2>1, <2>5, <2>7, <2>8
<1>3. CASE RemoveOrder
  <2>1. /\ resting' \subseteq resting /\ UNCHANGED <<seen, accepted>>
        /\ worker.pc = "cancel" /\ worker'.pc = "count" /\ worker'.cmd.type = "Cancel"
    BY <1>1, <1>3, EngineConstants DEF RemoveOrder, Book!Cancel, riskVars, Goto, TypeOK, At,
       HoldsCommand
  <2>2. OfferedIds' = OfferedIds /\ IdsOf(accepted)' = IdsOf(accepted)
    BY <2>1 DEF IdsOf
  <2> QED
    BY <2>1, <2>2
<1>4. CASE Decide
  <2> DEFINE e == [order |-> call.order, reference |-> call.reference]
  <2>1. /\ UNCHANGED resting /\ call.order = worker.cmd /\ worker.pc = "check"
        /\ worker'.cmd = worker.cmd
    BY <1>1, <1>4 DEF Decide, Goto, bookVars, GateServesWorker, At, TypeOK
  <2>2. e \in Entries /\ e.order = worker.cmd
    BY <1>1, <2>1 DEF GateServesWorker, Entries
  <2>3. CASE Risk!Outcome = "Accepted"
    <3>1. /\ accepted' = Append(accepted, e) /\ worker'.pc = "book"
          /\ seen' = IF UniqueIds THEN seen \cup {worker.cmd.id} ELSE seen
      BY <1>1, <1>4, <2>1, <2>3 DEF Decide, Risk!FinishCheck, Risk!Remembers, AfterCheck,
         Goto, TypeOK
    <3>2. UniqueIds => worker.cmd.id \notin seen
      BY <2>1, <2>3, GateVerdict
    <3> HIDE DEF e
    <3>3. /\ accepted' \in Seq(Entries) /\ accepted' # <<>> /\ Last(accepted') = e
          /\ Front(accepted') = accepted
          /\ IdsOf(accepted') = IdsOf(accepted) \cup {worker.cmd.id}
      BY <2>2, <3>1, OneMoreId
    <3>4. OfferedIds' = IdsOf(accepted) /\ OfferedIds = IdsOf(accepted)
      BY <2>1, <3>1, <3>3 DEF IdsOf
    <3>5. IdsOf(accepted)' = IdsOf(accepted')
      BY DEF IdsOf
    <3> QED
      BY <2>1, <2>2, <3>1, <3>2, <3>3, <3>4, <3>5
  <2>4. CASE Risk!Outcome # "Accepted"
    <3>1. UNCHANGED <<accepted, seen>> /\ worker'.pc = "tally"
      BY <1>1, <1>4, <2>4 DEF Decide, Risk!FinishCheck, Risk!Remembers, AfterCheck, Goto,
         TypeOK
    <3>2. OfferedIds' = OfferedIds /\ IdsOf(accepted)' = IdsOf(accepted)
      BY <2>1, <3>1 DEF IdsOf
    <3> QED
      BY <2>1, <3>1, <3>2
  <2> QED
    BY <2>3, <2>4
<1>5. CASE /\ UNCHANGED <<resting, result, seen, accepted>>
           /\ UNCHANGED worker \/ (worker.pc # "book" /\ worker'.pc \notin {"book", "count"})
  <2>1. OfferedIds' = OfferedIds /\ IdsOf(accepted)' = IdsOf(accepted)
    BY <1>5 DEF IdsOf
  <2> QED
    BY <1>5, <2>1
<1>6. CASE PopCommand \/ PopSentinel \/ Tally
  <2>1. /\ UNCHANGED <<resting, result, seen, accepted>>
        /\ worker.pc # "book" /\ worker'.pc \notin {"book", "count"}
    BY <1>1, <1>6 DEF PopCommand, PopSentinel, Tally, StartApply, Goto, At, bookVars,
       riskVars, TypeOK
  <2> QED
    BY <1>5, <2>1
<1>7. CASE ReadSwitch \/ CountKind \/ CountTrades
  <2>1. /\ UNCHANGED <<resting, result, seen, accepted>>
        /\ worker.pc # "book" /\ worker'.pc \notin {"book", "count"}
    BY <1>1, <1>7 DEF ReadSwitch, CountKind, CountTrades, Goto, At, bookVars, riskVars,
       Risk!StartCheck, TypeOK
  <2> QED
    BY <1>5, <2>1
<1>8. CASE Journal
  <2>1. AfterJournal(worker.cmd) \notin {"book", "count"}
    BY <1>1, <1>8, EngineConstants DEF Journal, At, AfterJournal, TypeOK, HoldsCommand,
       Commands
  <2>2. /\ UNCHANGED <<resting, result, seen, accepted>>
        /\ worker.pc # "book" /\ worker'.pc \notin {"book", "count"}
    BY <1>1, <1>8, <2>1 DEF Journal, Goto, At, bookVars, riskVars, TypeOK
  <2> QED
    BY <1>5, <2>2
<1>9. CASE Around \/ UNCHANGED vars
  BY <1>5, <1>9, AroundFrame DEF vars, bookVars, riskVars
<1> QED
  BY <1>2, <1>3, <1>4, <1>6, <1>7, <1>8, <1>9 DEF Next, Consumer, Apply, Around

(* With unique ids enforced the book is never offered an id twice, and     *)
(* refuses nothing of what the gate let pass but the empty order.          *)
THEOREM GateCovers == Spec => []GateCoversTheIndex
<1>1. Init => OfferedOnce
  <2> SUFFICES ASSUME Init PROVE OfferedOnce
    OBVIOUS
  <2>1. accepted = <<>> /\ seen = {} /\ resting = {} /\ worker.pc = "loop"
    BY DEF Init, Fresh, Risk!Init, Book!Init
  <2>2. accepted \in Seq(Entries) /\ DOMAIN accepted = {}
    BY <2>1
  <2> QED
    BY <2>1, <2>2 DEF OfferedOnce, GateCoversTheIndex, IdsOf
<1>2. Safe /\ OfferedOnce /\ [Next]_vars => OfferedOnce'
  BY OfferedOnceStep
<1>3. OfferedOnce => GateCoversTheIndex
  BY DEF OfferedOnce
<1> QED
  BY <1>1, <1>2, <1>3, EngineIsSafe, PTL DEF Spec
==============================================================================
