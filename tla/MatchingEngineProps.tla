------------------------- MODULE MatchingEngineProps -------------------------
(***************************************************************************)
(* What must be true of MatchingEngine.                                    *)
(***************************************************************************)
EXTENDS MatchingEngine

\* Every variable of the engine's own keeps its type, the queue its bound, and
\* the gate is asked about a price of the book or about none.
TypeOK ==
    /\ queue \in Seq(Commands \cup {Shutdown}) /\ Len(queue) <= Capacity
    /\ producer \in {"pushing", "done"}
    /\ control \in {"running", "joining", "joined", "flushed"}
    /\ worker \in [pc : {"loop", "journal", "gate", "check", "book", "cancel", "count",
                         "trades", "tally", "exited"},
                   cmd : Commands \cup {Idle}]
    /\ stats \in [commands : Nat, submits : Nat, cancels : Nat, trades : Nat]
    /\ pushed \in Seq(Commands) /\ applied \in Seq(Commands)
    /\ late \in Nat
    /\ call # NoCheck => call.reference \in References

InHand == IF worker.cmd = Idle THEN <<>> ELSE <<worker.cmd>>

\* What waits in the queue: all of it, but for a sentinel at its end.
Waiting == IF queue # <<>> /\ Last(queue) = Shutdown THEN Front(queue) ELSE queue

\* `Nothing dropped, nothing double-counted': what was pushed has been applied,
\* is being applied or waits in the queue, in that order; when the controller
\* has joined, all of it has been applied (the sentinel is behind it).
EveryCommandOnce ==
    /\ applied \o InHand \o Waiting = pushed
    /\ control \in {"joined", "flushed"} => applied = pushed

\* Every command is journaled exactly once, in apply order, before anything
\* else is done about it, the rejected ones included: `journaled before the risk
\* check runs' (EVENT_SOURCING.md).  The data flow in the repository's README,
\* where the gate comes before the journal, is not what apply() does.
JournalLeads ==
    appended = IF worker.pc \in {"loop", "journal", "exited"} THEN applied
               ELSE Append(applied, worker.cmd)

Orders(cmds) == Cardinality({i \in DOMAIN cmds : cmds[i].type = "Submit"})

\* `Every order accounted for' (test_concurrency.cpp): between two commands the
\* engine's four counters and the gate's six tell the same story, whatever the
\* operator did to the switch meanwhile.
CountersAgree ==
    TypeOK /\ (worker.pc \in {"loop", "exited"} =>
        /\ stats.commands = Len(applied)
        /\ stats.submits = Orders(applied) - Risk!total_rejected
        /\ stats.cancels = Len(applied) - Orders(applied)
        /\ counter["Accepted"] + Risk!total_rejected = Orders(applied))

\* The kill switch freezes the book: once it is engaged, at most the one order
\* that had passed the gate before still enters, until it is released.
AtMostOneIsLate == late <= 1

IdsOf(entries) == {entries[i].order.id : i \in DOMAIN entries}

\* The ids submit() has been called with: of all the gate has let pass, but
\* for the order that is on its way from the gate to the book.
OfferedIds == IdsOf(IF worker.pc = "book" THEN Front(accepted) ELSE accepted)

\* With the gate enforcing unique ids the book is never offered an id twice,
\* whatever became of the order that had it: resting, traded away, cancelled
\* or refused.  What submit() then refuses is the empty order alone, which the
\* gate does not look for: its id is used up all the same.
GateCoversTheIndex ==
    UniqueIds =>
        /\ \A m \in resting : m.id \in OfferedIds
        /\ worker.pc = "book" => worker.cmd.id \notin OfferedIds
        /\ worker.pc = "count" /\ worker.cmd.type = "Submit" =>
               (result.status = "Rejected" <=> worker.cmd.quantity = 0)

\* drain_and_join() returns: the sentinel gets into a full queue, the consumer
\* reaches it, and the controller joins and flushes.
Drains == <>(control = "flushed")
==============================================================================
