----------------------------- MODULE EventLogProps -----------------------------
(***************************************************************************)
(* What must be true of EventLog, at any moment the process might die.     *)
(***************************************************************************)
EXTENDS EventLog

Unit == [of : Commands \cup {Magic}, part : Nat]

\* Every variable keeps its type.
TypeOK ==
    /\ file \in Seq(Unit) /\ buffer \in Seq(Unit)
    /\ stream \in {"closed", "good", "bad"}
    /\ appended \in Seq(Commands)
    /\ flushed \in 0..count

\* Whatever was spilled, torn or lost, reading the file back throws or gives
\* the first commands appended since it was opened, in order.
ReadsAPrefix ==
    /\ TypeOK
    /\ Read(file) # Unreadable => IsPrefix(Read(file), appended)

\* A file that was flushed is readable and holds every record the flush covered.
FlushIsKept ==
    flushed > 0 => /\ Read(file) # Unreadable
                   /\ Len(Read(file)) >= flushed

\* `journal every applied command ... so the session can be replayed/recovered'
\* (MatchingEngine.hpp): a log that was closed in good order, and can be read,
\* gives back all that was appended to it.  Neither append() nor the destructor
\* looks at the state of the stream.
ClosedIsComplete ==
    [][Close /\ Read(file') # Unreadable => Read(file') = appended]_vars
==============================================================================
