---------------------------- MODULE MatchingEngine ----------------------------
(***************************************************************************)
(* obe::MatchingEngine and the threads around it: a producer that pushes   *)
(* commands, the engine's own consumer thread, a controller that shuts it  *)
(* down, and an operator at the kill switch.                               *)
(*                                                                         *)
(* It composes the specifications of the parts: the queue is a bounded     *)
(* FIFO (which RingBuffer implements), the book is PriceTimeBook (which    *)
(* OrderBook implements), the gate is RiskControls and the journal is      *)
(* EventLog.  apply() is a step per access to something another thread or  *)
(* a crash can tell apart.  The gate is installed; an engine without one   *)
(* behaves as with a gate whose checks are all disabled.                   *)
(***************************************************************************)
EXTENDS Market, Sequences, FiniteSets, FiniteSetsExt, SequencesExt

CONSTANTS
    Submits,    \* [type, id, trader, side, price, quantity]
    Cancels,    \* [type, id]
    Shutdown,   \* the sentinel
    Idle,       \* the worker holds no command
    Capacity,   \* of the queue
    MaxPushes,  \* bound: how many commands the producer sends
    \* of the book
    Stp, OrderIds, Traders, MinPrice, MaxPrice, MaxQty,
    \* of the gate
    Word, BpsScale, MaxOrderSize, MaxNotional, CollarBps, UniqueIds,
    NoReference, NoCheck,
    \* of the journal
    HeaderUnits, RecordUnits, Unreadable

Commands == Submits \cup Cancels

References == (MinPrice..MaxPrice) \cup {NoReference}

ASSUME EngineConstants ==
    /\ MinPrice \in Int /\ MaxPrice \in Int
    /\ \A c \in Submits : /\ c.type = "Submit"
                          /\ c.side \in Side
                          /\ c.price \in MinPrice..MaxPrice
    /\ \A c \in Cancels : c.type = "Cancel"
    /\ Shutdown.type = "Shutdown"
    /\ Idle \notin Commands
    /\ NoCheck \notin [order : Submits, reference : References, halted : BOOLEAN]
    /\ UniqueIds \in BOOLEAN
    /\ Capacity \in Nat \ {0} /\ MaxPushes \in Nat

ASSUME JournalConstants ==
    /\ HeaderUnits \in Nat \ {0} /\ RecordUnits \in Nat \ {0}
    /\ Unreadable \notin Seq(Commands)

VARIABLES
    queue,      \* queue_
    producer,   \* "pushing" or "done"
    control,    \* drain_and_join(): "running", "joining", "joined", "flushed"
    worker,     \* [pc, cmd]: the consumer thread
    stats,      \* commands_, submits_, cancels_, trades_
    \* history
    pushed,     \* the commands the producer has pushed
    applied,    \* the commands apply() has finished with
    late        \* orders that entered the book since the switch was engaged

VARIABLES resting, trades, result, nextSeq
bookVars == <<resting, trades, result, nextSeq>>
Book == INSTANCE PriceTimeBook

VARIABLES killSwitch, seen, counter, call, accepted
riskVars == <<killSwitch, seen, counter, call, accepted>>
Risk == INSTANCE RiskControls
    WITH Orders <- Submits, MaxChecks <- MaxPushes

VARIABLES file, buffer, stream, appended, flushed
logVars == <<file, buffer, stream, appended, flushed>>
Log == INSTANCE EventLog WITH MaxRecords <- MaxPushes

threadVars == <<queue, producer, control, pushed>>
engineVars == <<stats, applied, late>>
vars == <<threadVars, worker, engineVars, bookVars, riskVars, logVars>>

Fresh ==
    /\ worker = [pc |-> "loop", cmd |-> Idle]
    /\ stats = [commands |-> 0, submits |-> 0, cancels |-> 0, trades |-> 0]
    /\ Book!Init
    /\ Risk!Init

\* Logging is enabled before the threads start.
Init ==
    /\ Fresh
    /\ queue = <<>>
    /\ producer = "pushing"
    /\ control = "running"
    /\ pushed = <<>> /\ applied = <<>> /\ late = 0
    /\ file = <<>> /\ buffer = Log!Header /\ stream = "good"
    /\ appended = <<>> /\ flushed = 0

-----------------------------------------------------------------------------
(* The threads around the engine. *)

Room == Len(queue) < Capacity

Push(cmd) ==
    /\ producer = "pushing"
    /\ Len(pushed) < MaxPushes
    /\ Room
    /\ queue' = Append(queue, cmd)
    /\ pushed' = Append(pushed, cmd)
    /\ UNCHANGED <<producer, control, worker, engineVars, bookVars, riskVars, logVars>>

ProducerEnds ==
    /\ producer = "pushing"
    /\ producer' = "done"
    /\ UNCHANGED <<queue, control, pushed, worker, engineVars, bookVars, riskVars,
                   logVars>>

\* Contract of drain_and_join(): the producer has finished pushing.
AnyTime == TRUE     \* mutant: the contract is not kept
MayDrain == producer = "done"

PushSentinel ==
    /\ control = "running" /\ MayDrain
    /\ Room
    /\ queue' = Append(queue, Shutdown)
    /\ control' = "joining"
    /\ UNCHANGED <<producer, pushed, worker, engineVars, bookVars, riskVars, logVars>>

Join ==
    /\ control = "joining"
    /\ worker.pc = "exited"
    /\ control' = "joined"
    /\ UNCHANGED <<queue, producer, pushed, worker, engineVars, bookVars, riskVars,
                   logVars>>

FlushLog ==
    /\ control = "joined"
    /\ IF stream = "good" THEN Log!Flush ELSE UNCHANGED logVars
    /\ control' = "flushed"
    /\ UNCHANGED <<queue, producer, pushed, worker, engineVars, bookVars, riskVars>>

ThrowSwitch(on) ==
    /\ Risk!EngageKillSwitch(on)
    /\ late' = IF on /\ ~killSwitch THEN 0 ELSE late
    /\ UNCHANGED <<threadVars, worker, stats, applied, bookVars, logVars>>

-----------------------------------------------------------------------------
(* apply(), step by step. *)

At(pc) == worker.pc = pc

Goto(pc) == worker' = [worker EXCEPT !.pc = pc]

StartApply(cmd) ==
    /\ At("loop")
    /\ worker' = [pc |-> "journal", cmd |-> cmd]

AfterJournal(cmd) ==
    CASE cmd.type = "Submit"   -> "gate"
      [] cmd.type = "Cancel"   -> "cancel"
      [] cmd.type = "Shutdown" -> "loop"

\* log_ is null when no log is open.
JournalsOrders(cmd) ==      \* mutant: cancels are not journaled
    IF stream # "closed" /\ cmd.type = "Submit"
    THEN Log!AppendRecord(cmd) ELSE UNCHANGED logVars
WriteAhead(cmd) ==
    IF stream # "closed" /\ cmd.type # "Shutdown"
    THEN Log!AppendRecord(cmd) ELSE UNCHANGED logVars

Journal ==
    /\ At("journal")
    /\ WriteAhead(worker.cmd)
    /\ Goto(AfterJournal(worker.cmd))
    /\ UNCHANGED <<threadVars, engineVars, bookVars, riskVars>>

\* best_ask() for a buy, best_bid() for a sell.
Touch(side) ==
    LET prices == {m.price : m \in {o \in resting : o.side = Opposite(side)}}
    IN  IF prices = {} THEN NoReference
        ELSE IF side = "Buy" THEN Min(prices) ELSE Max(prices)

IgnoresVerdict(verdict) == "book"       \* mutant
ReturnsUncounted(verdict) == IF verdict = "Accepted" THEN "book" ELSE "loop"  \* mutant
AfterCheck(verdict) == IF verdict = "Accepted" THEN "book" ELSE "tally"

ReadSwitch ==
    /\ At("gate")
    /\ Risk!StartCheck(worker.cmd, Touch(worker.cmd.side))
    /\ Goto("check")
    /\ UNCHANGED <<threadVars, engineVars, bookVars, logVars>>

Decide ==
    /\ At("check")
    /\ Risk!FinishCheck
    /\ Goto(AfterCheck(Risk!Outcome))
    /\ UNCHANGED <<threadVars, engineVars, bookVars, logVars>>

EnterBook ==
    LET c == worker.cmd
    IN  /\ At("book")
        /\ \/ Book!Submit(c.id, c.trader, c.side, c.price, c.quantity)
           \/ Book!Reject(c.id, c.quantity)
        /\ late' = IF killSwitch THEN late + 1 ELSE late
        /\ Goto("count")
        /\ UNCHANGED <<threadVars, stats, applied, riskVars, logVars>>

RemoveOrder ==
    /\ At("cancel")
    /\ Book!Cancel(worker.cmd.id)
    /\ Goto("count")
    /\ UNCHANGED <<threadVars, engineVars, riskVars, logVars>>

\* The three counters a command moves are bumped one after the other.
CountKind ==
    /\ At("count")
    /\ stats' = IF worker.cmd.type = "Submit" THEN [stats EXCEPT !.submits = @ + 1]
                ELSE [stats EXCEPT !.cancels = @ + 1]
    /\ Goto(IF worker.cmd.type = "Submit" THEN "trades" ELSE "tally")
    /\ UNCHANGED <<threadVars, applied, late, bookVars, riskVars, logVars>>

CountTrades ==
    /\ At("trades")
    /\ stats' = [stats EXCEPT !.trades = @ + result.trade_count]
    /\ Goto("tally")
    /\ UNCHANGED <<threadVars, applied, late, bookVars, riskVars, logVars>>

Tally ==
    /\ At("tally")
    /\ stats' = [stats EXCEPT !.commands = @ + 1]
    /\ applied' = Append(applied, worker.cmd)
    /\ worker' = [pc |-> "loop", cmd |-> Idle]
    /\ UNCHANGED <<threadVars, late, bookVars, riskVars, logVars>>

Apply ==
    \/ Journal
    \/ ReadSwitch \/ Decide \/ EnterBook
    \/ RemoveOrder
    \/ CountKind \/ CountTrades \/ Tally

-----------------------------------------------------------------------------
(* consume_loop() *)

AllIsWork(cmd) == TRUE      \* mutant: the sentinel goes to apply()
IsWork(cmd) == cmd.type # "Shutdown"

Pop ==
    /\ queue # <<>>
    /\ queue' = Tail(queue)
    /\ UNCHANGED <<producer, control, pushed>>

PopCommand ==
    /\ Pop
    /\ IsWork(Head(queue))
    /\ StartApply(Head(queue))
    /\ UNCHANGED <<engineVars, bookVars, riskVars, logVars>>

PopSentinel ==
    /\ Pop
    /\ At("loop")
    /\ ~IsWork(Head(queue))
    /\ Goto("exited")
    /\ UNCHANGED <<engineVars, bookVars, riskVars, logVars>>

Consumer == PopCommand \/ PopSentinel \/ Apply

Producer == ProducerEnds \/ \E cmd \in Commands : Push(cmd)

Controller == PushSentinel \/ Join \/ FlushLog

Operator == \E on \in BOOLEAN : ThrowSwitch(on)

Next == Consumer \/ Producer \/ Controller \/ Operator

Spec == Init /\ [][Next]_vars

\* Threads that have work are scheduled; the operator need not do anything.
FairSpec == Spec /\ WF_vars(Consumer) /\ WF_vars(Producer) /\ WF_vars(Controller)
==============================================================================
