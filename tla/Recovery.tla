------------------------------- MODULE Recovery -------------------------------
(***************************************************************************)
(* A session of MatchingEngine that may die at any point, and the replay   *)
(* of its journal: read_event_log() and replay() into a fresh engine with  *)
(* the same configuration and no logging.  The replayed commands go        *)
(* through the same apply() as the live ones.                              *)
(***************************************************************************)
EXTENDS MatchingEngine

VARIABLES
    phase,      \* "live", "replaying", "recovered" or "failed" (the reader threw)
    todo,       \* the events replay() has not applied yet
    states      \* history: what the live engine had become after each command

recoveryVars == <<phase, todo, states>>
allVars == <<vars, recoveryVars>>

\* What an observer of an engine can compare.
Observed == [resting |-> resting, nextSeq |-> nextSeq, stats |-> stats,
             seen |-> seen, counter |-> counter]

RecoveryInit ==
    /\ Init
    /\ phase = "live"
    /\ todo = <<>>
    /\ states = <<Observed>>

Live ==
    /\ phase = "live"
    /\ Next
    /\ states' = IF applied' # applied THEN Append(states, Observed') ELSE states
    /\ UNCHANGED <<phase, todo>>

\* The stream spills, or a write fails, whenever it likes.
Disk ==
    /\ phase = "live"
    /\ \E n \in 0..Len(buffer) : Log!Spill(n) \/ Log!WriteFails(n)
    /\ UNCHANGED <<threadVars, worker, engineVars, bookVars, riskVars, recoveryVars>>

\* A new engine: empty book, fresh gate, counters at zero.
NewEngine ==
    /\ worker' = [pc |-> "loop", cmd |-> Idle]
    /\ stats' = [commands |-> 0, submits |-> 0, cancels |-> 0, trades |-> 0]
    /\ resting' = {} /\ nextSeq' = 1 /\ trades' = <<>>
    /\ result' = [status |-> "None", filled |-> 0, resting |-> 0, trade_count |-> 0]
    /\ killSwitch' = FALSE /\ seen' = {} /\ call' = NoCheck /\ accepted' = <<>>
    /\ counter' = [r \in Risk!RejectReason |-> 0]

\* All memory is gone; a new process makes an engine and reads the file.
Crash ==
    /\ phase = "live"
    /\ Log!ProcessDies
    /\ phase' = IF Log!Read(file) = Unreadable THEN "failed" ELSE "replaying"
    /\ todo' = IF Log!Read(file) = Unreadable THEN <<>> ELSE Log!Read(file)
    /\ NewEngine
    /\ queue' = <<>>
    /\ applied' = <<>> /\ late' = 0
    /\ UNCHANGED <<producer, control, pushed, states>>

\* replay() hands the next event to apply().
SkipsCancels(events) == SelectSeq(Tail(events), LAMBDA c : c.type = "Submit")  \* mutant
Rest(events) == Tail(events)

ReplayNext ==
    /\ phase = "replaying"
    /\ todo # <<>>
    /\ StartApply(Head(todo))
    /\ todo' = Rest(todo)
    /\ UNCHANGED <<threadVars, engineVars, bookVars, riskVars, logVars, phase, states>>

ReplayStep ==
    /\ phase = "replaying"
    /\ Apply
    /\ UNCHANGED recoveryVars

ReplayEnds ==
    /\ phase = "replaying"
    /\ todo = <<>> /\ At("loop")
    /\ phase' = "recovered"
    /\ UNCHANGED <<vars, todo, states>>

RecoveryNext == Live \/ Disk \/ Crash \/ ReplayNext \/ ReplayStep \/ ReplayEnds

RecoverySpec == RecoveryInit /\ [][RecoveryNext]_allVars
==============================================================================
