---------------------------- MODULE RecoveryProps ----------------------------
(***************************************************************************)
(* What a replay of the journal must give back.                            *)
(***************************************************************************)
EXTENDS Recovery

\* Every variable of the recovery's own keeps its type.
RecoveryTypeOK ==
    /\ phase \in {"live", "replaying", "recovered", "failed"}
    /\ todo \in Seq(Commands)
    /\ \A k \in DOMAIN states :
          states[k].stats \in [commands : Nat, submits : Nat, cancels : Nat, trades : Nat]

Events == Log!Read(file)

\* `Replay reproduces the live state bit-for-bit': the recovered engine is the
\* live one as it was after the commands the journal kept (at most one more than
\* it had finished), with book, sequence numbers, counters and seen ids; unless
\* the kill switch, which is not journaled, had turned an order away.
RecoversALiveState ==
    RecoveryTypeOK /\ (phase = "recovered" =>
        /\ applied = Events
        /\ Len(Events) <= Len(states)
        /\ Len(Events) < Len(states) =>
               LET live == states[Len(Events) + 1]
               IN  live.counter["KillSwitch"] = 0 => Observed = live)

\* The same with no exception for the kill switch, as the documentation has it:
\* same policy, same RiskConfig, no logging on the replay engine.
ReplayIsLive ==
    phase = "recovered" /\ Len(Events) < Len(states) =>
        Observed = states[Len(Events) + 1]

\* After an orderly end, with every write a success, replay applies every command
\* that was pushed and gives back the engine as it ended; unless the kill switch
\* had turned an order away in the session.
FlushedSessionIsWhole ==
    phase = "recovered" /\ control = "flushed" /\ flushed = Len(appended) =>
        /\ applied = pushed
        /\ Last(states).counter["KillSwitch"] = 0 => Observed = Last(states)
==============================================================================
