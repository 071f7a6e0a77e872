------------------------------- MODULE EventLog -------------------------------
(***************************************************************************)
(* obe::EventLogWriter and read_event_log(): an append-only file of        *)
(* fixed-width records behind a header, written through a buffered stream. *)
(*                                                                         *)
(* The file is a sequence of units; a record is RecordUnits of them, so    *)
(* that a write can be torn inside a record (40 bytes in the code) and     *)
(* inside the header (8 bytes).  Bytes reach the file whenever the stream  *)
(* spills its buffer; the process may die at any point, and a write may    *)
(* fail, after which the stream is bad and swallows everything.            *)
(***************************************************************************)
EXTENDS Integers, Sequences, SequencesExt

CONSTANTS
    Commands,       \* the domain commands (not the shutdown sentinel)
    HeaderUnits,    \* kMagic and kVersion
    RecordUnits,    \* kRecordSize
    MaxRecords,     \* bound: number of append()s
    Unreadable      \* read_event_log() throws

ASSUME LogConstants ==
    /\ HeaderUnits \in Nat \ {0} /\ RecordUnits \in Nat \ {0}
    /\ MaxRecords \in Nat
    /\ Unreadable \notin Seq(Commands)

VARIABLES
    file,       \* what the operating system has
    buffer,     \* what the stream holds back
    stream,     \* "closed", "good" or "bad"
    appended,   \* history: the commands appended to this file, in order
    flushed     \* history: how many of them a successful flush covered

vars == <<file, buffer, stream, appended, flushed>>

count == Len(appended)      \* count_: append() counts whatever the stream does

Init ==
    /\ file = <<>> /\ buffer = <<>>
    /\ stream = "closed"
    /\ appended = <<>> /\ flushed = 0

-----------------------------------------------------------------------------
(* Layout. *)

Magic == [type |-> "magic and version"]

Header == [k \in 1..HeaderUnits |-> [of |-> Magic, part |-> k]]

Encode(cmd) == [k \in 1..RecordUnits |-> [of |-> cmd, part |-> k]]

\* Complete records behind the header; a torn one at the end is not read.
StopsEarly(units) == (Len(units) - HeaderUnits - 1) \div RecordUnits      \* mutant
Complete(units) == (Len(units) - HeaderUnits) \div RecordUnits

Decode(units, k) == units[HeaderUnits + (k - 1) * RecordUnits + 1].of

\* read_event_log(): throws on a short or wrong header.
Read(units) ==
    IF Len(units) < HeaderUnits \/ SubSeq(units, 1, HeaderUnits) # Header
    THEN Unreadable
    ELSE [k \in 1..Complete(units) |-> Decode(units, k)]

-----------------------------------------------------------------------------
(* The writer.  Put is ostream::write(): a bad stream takes nothing. *)

IgnoresBad(units) == buffer' = buffer \o units      \* mutant: badbit is cleared
Put(units) == buffer' = IF stream = "good" THEN buffer \o units ELSE buffer

\* The constructor truncates the file and writes the header.
Truncated == <<>>

Open ==
    /\ stream = "closed"
    /\ stream' = "good"
    /\ file' = Truncated
    /\ buffer' = Header
    /\ appended' = <<>> /\ flushed' = 0

AppendRecord(cmd) ==
    /\ stream # "closed"
    /\ Put(Encode(cmd))
    /\ appended' = Append(appended, cmd)
    /\ UNCHANGED <<file, stream, flushed>>

\* The stream hands its n oldest units to the operating system.
Oldest(n) == SubSeq(buffer, 1, n)

Spill(n) ==
    /\ stream = "good"
    /\ n \in 1..Len(buffer)
    /\ file' = file \o Oldest(n)
    /\ buffer' = SubSeq(buffer, n + 1, Len(buffer))
    /\ UNCHANGED <<stream, appended, flushed>>

Flush ==
    /\ stream = "good"
    /\ file' = file \o buffer
    /\ buffer' = <<>>
    /\ flushed' = count
    /\ UNCHANGED <<stream, appended>>

\* A write (disk full, say) stops after n units: badbit is set, nobody looks.
WriteFails(n) ==
    /\ stream = "good"
    /\ n \in 0..(Len(buffer) - 1)
    /\ file' = file \o SubSeq(buffer, 1, n)
    /\ buffer' = <<>>
    /\ stream' = "bad"
    /\ UNCHANGED <<appended, flushed>>

\* The destructor flushes what it can and closes.
Close ==
    /\ stream # "closed"
    /\ file' = file \o buffer
    /\ buffer' = <<>>
    /\ stream' = "closed"
    /\ flushed' = IF stream = "good" THEN count ELSE flushed
    /\ UNCHANGED appended

\* The process dies: what the stream held back is gone.
ProcessDies ==
    /\ stream # "closed"
    /\ stream' = "closed"
    /\ buffer' = <<>>
    /\ UNCHANGED <<file, appended, flushed>>

Next ==
    \/ Open \/ Flush \/ Close \/ ProcessDies
    \/ \E cmd \in Commands : count < MaxRecords /\ AppendRecord(cmd)
    \/ \E n \in 0..Len(buffer) : Spill(n) \/ WriteFails(n)

Spec == Init /\ [][Next]_vars
==============================================================================
