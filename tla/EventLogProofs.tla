---------------------------- MODULE EventLogProofs ----------------------------
(***************************************************************************)
(* Theorems about the journal for every record width, header width and     *)
(* number of records: what a crash at any moment leaves readable.          *)
(***************************************************************************)
EXTENDS EventLogProps, SequenceTheorems, TLAPS

-----------------------------------------------------------------------------
(* Division with remainder, for offsets into a file of fixed-width records. *)

(* A multiple of the width, plus an offset inside a record.                *)
LEMMA Offset ==
    ASSUME NEW r \in Nat \ {0}, NEW q \in Int, NEW k \in 0..(r - 1)
    PROVE  (q * r + k) \div r = q /\ (q * r + k) % r = k
<1> DEFINE x == q * r + k
           d == x \div r
           m == x % r
<1>1. q * r \in Int /\ x \in Int
  OBVIOUS
<1>2. d \in Int /\ m \in 0..(r - 1) /\ x = d * r + m
  BY <1>1
<1>3. d = q
  <2>1. d * r \in Int /\ (q + 1) * r = q * r + r /\ (d + 1) * r = d * r + r
    BY <1>2
  <2>2. ASSUME d > q PROVE FALSE
    <3>1. d * r >= (q + 1) * r
      BY <1>2, <2>2
    <3> QED
      BY <1>1, <1>2, <2>1, <3>1
  <2>3. ASSUME d < q PROVE FALSE
    <3>1. q * r >= (d + 1) * r
      BY <1>2, <2>3
    <3> QED
      BY <1>1, <1>2, <2>1, <3>1
  <2> QED
    BY <1>2, <2>2, <2>3
<1> QED
  BY <1>1, <1>2, <1>3

(* The number of whole records in x units.                                 *)
LEMMA WholeRecords ==
    ASSUME NEW r \in Nat \ {0}, NEW x \in Nat, NEW n \in Nat
    PROVE  /\ x \div r \in Nat /\ x % r \in 0..(r - 1)
           /\ (x \div r) * r <= x
           /\ x < n * r => x \div r < n
           /\ x >= n * r => x \div r >= n
<1> DEFINE d == x \div r
           m == x % r
<1>1. d \in Int /\ m \in 0..(r - 1) /\ x = d * r + m /\ d * r \in Int /\ n * r \in Int
  OBVIOUS
<1> HIDE DEF d, m
<1>2. d \in Nat
  <2>1. ASSUME d <= -1 PROVE FALSE
    <3>1. d * r <= (-1) * r
      BY <1>1, <2>1
    <3> QED
      BY <1>1, <3>1
  <2> QED
    BY <1>1, <2>1
<1>3. d * r <= x
  BY <1>1
<1>4. ASSUME x < n * r PROVE d < n
  <2>1. ASSUME d >= n PROVE FALSE
    <3>1. d * r >= n * r
      BY <1>1, <2>1
    <3> QED
      BY <1>1, <1>4, <3>1
  <2> QED
    BY <1>1, <2>1
<1>5. ASSUME x >= n * r PROVE d >= n
  <2>1. ASSUME d + 1 <= n PROVE FALSE
    <3>1. n * r >= (d + 1) * r /\ (d + 1) * r = d * r + r
      BY <1>1, <2>1
    <3> QED
      BY <1>1, <1>5, <3>1
  <2> QED
    BY <1>1, <2>1
<1> QED
  BY <1>1, <1>2, <1>3, <1>4, <1>5 DEF d, m

-----------------------------------------------------------------------------
(* The inductive invariant. *)

\* The unit at position i of a file that holds the header and the records of
\* cmds, and the size of that file.
UnitAt(cmds, i) ==
    LET x == i - HeaderUnits - 1
    IN  IF i <= HeaderUnits THEN [of |-> Magic, part |-> i]
        ELSE [of |-> cmds[x \div RecordUnits + 1], part |-> (x % RecordUnits) + 1]

Size(cmds) == HeaderUnits + Len(cmds) * RecordUnits

\* The file and what the stream holds back are together a prefix of the file
\* the appended commands make, all of it while the stream is good; a flushed
\* record has left the stream.
WritesInOrder ==
    /\ \A i \in 1..Len(file) : file[i] = UnitAt(appended, i)
    /\ \A i \in 1..Len(buffer) : buffer[i] = UnitAt(appended, Len(file) + i)
    /\ Len(file) + Len(buffer) <= Size(appended)
    /\ stream = "good" => Len(file) + Len(buffer) = Size(appended)
    /\ stream # "good" => buffer = <<>>
    /\ flushed > 0 => Len(file) >= HeaderUnits + flushed * RecordUnits

Durable == TypeOK /\ WritesInOrder

(* Sizes are numbers.                                                      *)
LEMMA Sizes ==
    ASSUME TypeOK
    PROVE  /\ HeaderUnits \in Nat \ {0} /\ RecordUnits \in Nat \ {0}
           /\ Len(file) \in Nat /\ Len(buffer) \in Nat /\ Len(appended) \in Nat
           /\ Size(appended) \in Nat /\ flushed \in Nat /\ flushed <= Len(appended)
BY LogConstants, SMTT(30) DEF TypeOK, Size, count

(* A position behind the header is inside a record.                        *)
LEMMA RecordPlace ==
    ASSUME NEW cmds, NEW i \in Int, i > HeaderUnits,
           NEW x, x = i - HeaderUnits - 1
    PROVE  UnitAt(cmds, i) = [of   |-> cmds[x \div RecordUnits + 1],
                              part |-> (x % RecordUnits) + 1]
BY LogConstants DEF UnitAt

(* Appending a record changes no earlier position, and the positions it    *)
(* adds hold the record.                                                   *)
LEMMA AppendExtends ==
    ASSUME NEW cmds \in Seq(Commands), NEW cmd \in Commands
    PROVE  /\ Size(cmds) \in Nat /\ Size(Append(cmds, cmd)) = Size(cmds) + RecordUnits
           /\ \A i \in 1..Size(cmds) : UnitAt(Append(cmds, cmd), i) = UnitAt(cmds, i)
           /\ \A k \in 1..RecordUnits :
                  UnitAt(Append(cmds, cmd), Size(cmds) + k) = [of |-> cmd, part |-> k]
<1> DEFINE n    == Len(cmds)
           more == Append(cmds, cmd)
<1>1. /\ HeaderUnits \in Nat \ {0} /\ RecordUnits \in Nat \ {0} /\ n \in Nat
      /\ Size(cmds) \in Nat /\ n * RecordUnits \in Nat
  BY LogConstants DEF Size
<1>2. /\ Len(more) = n + 1
      /\ \A j \in 1..n : more[j] = cmds[j]
      /\ more[n + 1] = cmd
  OBVIOUS
<1> HIDE DEF more
<1>3. Size(more) = Size(cmds) + RecordUnits
  BY <1>1, <1>2 DEF Size
<1>4. ASSUME NEW i \in 1..Size(cmds) PROVE UnitAt(more, i) = UnitAt(cmds, i)
  <2>1. CASE i <= HeaderUnits
    BY <2>1 DEF UnitAt
  <2>2. CASE i > HeaderUnits
    <3> DEFINE x == i - HeaderUnits - 1
    <3>1. x \in Nat /\ x < n * RecordUnits
      BY <1>1, <2>2 DEF Size
    <3> HIDE DEF x
    <3>2. x \div RecordUnits \in Nat /\ x \div RecordUnits < n
      BY <1>1, <3>1, WholeRecords
    <3>3. x \div RecordUnits + 1 \in 1..n
      BY <1>1, <3>2
    <3>4. more[x \div RecordUnits + 1] = cmds[x \div RecordUnits + 1]
      BY <1>2, <3>3
    <3> QED
      BY <1>1, <2>2, <3>4 DEF UnitAt, x
  <2> QED
    BY <1>1, <2>1, <2>2
<1>5. ASSUME NEW k \in 1..RecordUnits
      PROVE  UnitAt(more, Size(cmds) + k) = [of |-> cmd, part |-> k]
  <2> DEFINE pos == Size(cmds) + k
             x   == pos - HeaderUnits - 1
             j   == k - 1
  <2>1. /\ pos \in Int /\ pos > HeaderUnits
        /\ x = n * RecordUnits + j /\ j \in 0..(RecordUnits - 1)
    BY <1>1 DEF Size
  <2>2. x \div RecordUnits = n /\ x % RecordUnits = j
    <3> HIDE DEF j, n, x
    <3>1. n \in Int /\ RecordUnits \in Nat \ {0} /\ j \in 0..(RecordUnits - 1)
      BY <1>1, <2>1
    <3>2. /\ (n * RecordUnits + j) \div RecordUnits = n
          /\ (n * RecordUnits + j) % RecordUnits = j
      BY <3>1, Offset, Zenon
    <3> QED
      BY <2>1, <3>2
  <2> HIDE DEF pos
  <2>3. UnitAt(more, pos) = [of   |-> more[x \div RecordUnits + 1],
                             part |-> (x % RecordUnits) + 1]
    BY <2>1, RecordPlace
  <2> HIDE DEF x
  <2>4. more[x \div RecordUnits + 1] = cmd /\ (x % RecordUnits) + 1 = k
    BY <1>1, <1>2, <2>2
  <2> QED
    BY <2>3, <2>4 DEF pos
<1> QED
  BY <1>1, <1>3, <1>4, <1>5 DEF more

LEMMA ConcatPlaces ==
    ASSUME NEW S, NEW s \in Seq(S), NEW t \in Seq(S)
    PROVE  /\ s \o t \in Seq(S) /\ Len(s) \in Nat /\ Len(t) \in Nat
           /\ Len(s \o t) = Len(s) + Len(t)
           /\ \A i \in 1..Len(s) : (s \o t)[i] = s[i]
           /\ \A i \in 1..Len(t) : (s \o t)[Len(s) + i] = t[i]
OBVIOUS

(* Handing the n oldest units of the stream to the file keeps the file a   *)
(* prefix, wherever in a record the cut falls.                             *)
LEMMA HandOver ==
    ASSUME Durable, NEW n \in 0..Len(buffer)
    PROVE  LET longer == file \o SubSeq(buffer, 1, n)
           IN  /\ longer \in Seq(Unit) /\ Len(longer) = Len(file) + n
               /\ \A i \in 1..Len(longer) : longer[i] = UnitAt(appended, i)
<1> DEFINE part   == SubSeq(buffer, 1, n)
           longer == file \o part
<1>1. file \in Seq(Unit) /\ buffer \in Seq(Unit) /\ Len(file) \in Nat /\ Len(buffer) \in Nat
  BY DEF Durable, TypeOK
<1>2. /\ part \in Seq(Unit) /\ Len(part) = n
      /\ \A i \in 1..n : part[i] = buffer[i]
  BY <1>1
<1> HIDE DEF part
<1>3. /\ longer \in Seq(Unit) /\ Len(longer) = Len(file) + Len(part)
      /\ \A i \in 1..Len(file) : longer[i] = file[i]
      /\ \A i \in 1..Len(part) : longer[Len(file) + i] = part[i]
  <2>1. file \in Seq(Unit) /\ part \in Seq(Unit)
    BY <1>1, <1>2
  <2>2. longer \in Seq(Unit)
    BY <2>1
  <2>3. Len(longer) = Len(file) + Len(part)
    BY <2>1
  <2>4. \A i \in 1..Len(file) : longer[i] = file[i]
    BY <2>1
  <2>5. \A i \in 1..Len(part) : longer[Len(file) + i] = part[i]
    BY <2>1
  <2> QED
    BY <2>2, <2>3, <2>4, <2>5
<1> HIDE DEF longer
<1>4. ASSUME NEW i \in 1..(Len(file) + n) PROVE longer[i] = UnitAt(appended, i)
  <2>1. CASE i <= Len(file)
    BY <1>1, <1>3, <2>1, SMTT(30) DEF Durable, WritesInOrder
  <2>2. CASE i > Len(file)
    <3> DEFINE j == i - Len(file)
    <3>1. j \in 1..n /\ j \in 1..Len(buffer) /\ i = Len(file) + j
      BY <1>1, <2>2
    <3> HIDE DEF j
    <3> QED
      BY <1>2, <1>3, <3>1 DEF Durable, WritesInOrder
  <2> QED
    BY <1>1, <2>1, <2>2
<1>5. /\ longer \in Seq(Unit) /\ Len(longer) = Len(file) + n
      /\ \A i \in 1..Len(longer) : longer[i] = UnitAt(appended, i)
  BY <1>2, <1>3, <1>4
<1> QED
  BY <1>5 DEF part, longer

\* A log that has just been opened: the header, and nothing on disk.
NewLog == file = <<>> /\ buffer = Header /\ stream = "good" /\ appended = <<>> /\ flushed = 0

LEMMA NewLogIsDurable == NewLog => Durable
<1> SUFFICES ASSUME NewLog PROVE Durable
  OBVIOUS
<1>1. /\ HeaderUnits \in Nat \ {0} /\ RecordUnits \in Nat \ {0}
  BY LogConstants
<1>2. /\ Header \in Seq(Unit) /\ Len(Header) = HeaderUnits
      /\ \A i \in 1..HeaderUnits : Header[i] = [of |-> Magic, part |-> i]
  <2>1. \A i \in 1..HeaderUnits : [of |-> Magic, part |-> i] \in Unit
    BY <1>1 DEF Unit
  <2> QED
    BY <1>1, <2>1 DEF Header
<1>3. Size(<<>>) = HeaderUnits
  BY <1>1 DEF Size
<1>4. \A i \in 1..HeaderUnits : UnitAt(<<>>, 0 + i) = Header[i]
  BY <1>1, <1>2 DEF UnitAt
<1>5. TypeOK
  BY <1>2 DEF NewLog, TypeOK, count
<1>6. WritesInOrder
  BY <1>1, <1>2, <1>3, <1>4 DEF NewLog, WritesInOrder
<1> QED
  BY <1>5, <1>6 DEF Durable

LEMMA OpenKeeps ==
    ASSUME Open
    PROVE  Durable'
<1>1. NewLog'
  BY DEF Open, Truncated, NewLog, Header, Magic
<1>2. NewLog' => Durable'
  BY NewLogIsDurable, PTL
<1> QED
  BY <1>1, <1>2

LEMMA AppendRecordKeeps ==
    ASSUME Durable, NEW cmd \in Commands, AppendRecord(cmd)
    PROVE  Durable'
<1>1. TypeOK /\ WritesInOrder
  BY DEF Durable
<1>2. /\ appended' = Append(appended, cmd) /\ UNCHANGED <<file, stream, flushed>>
      /\ buffer' = IF stream = "good" THEN buffer \o Encode(cmd) ELSE buffer
  BY DEF AppendRecord, Put
<1>3. /\ HeaderUnits \in Nat \ {0} /\ RecordUnits \in Nat \ {0}
      /\ Len(file) \in Nat /\ Len(buffer) \in Nat /\ Size(appended) \in Nat
      /\ appended \in Seq(Commands) /\ buffer \in Seq(Unit)
      /\ flushed \in 0..Len(appended) /\ Len(appended) \in Nat
  BY <1>1, Sizes DEF TypeOK, count
<1>4. /\ Size(appended') = Size(appended) + RecordUnits
      /\ \A i \in 1..Size(appended) : UnitAt(appended', i) = UnitAt(appended, i)
      /\ \A k \in 1..RecordUnits :
             UnitAt(appended', Size(appended) + k) = [of |-> cmd, part |-> k]
  BY <1>2, <1>3, AppendExtends
<1>5. /\ Encode(cmd) \in Seq(Unit) /\ Len(Encode(cmd)) = RecordUnits
      /\ \A k \in 1..RecordUnits : Encode(cmd)[k] = [of |-> cmd, part |-> k]
  <2>1. \A k \in 1..RecordUnits : [of |-> cmd, part |-> k] \in Unit
    BY <1>3 DEF Unit
  <2> QED
    BY <1>3, <2>1 DEF Encode
<1>6. TypeOK'
  <2>1. buffer' \in Seq(Unit)
    BY <1>2, <1>3, <1>5
  <2>2. appended' \in Seq(Commands) /\ Len(appended') = Len(appended) + 1
    BY <1>2, <1>3
  <2> QED
    BY <1>1, <1>2, <1>3, <2>1, <2>2 DEF TypeOK, count
<1>7. \A i \in 1..Len(file') : file'[i] = UnitAt(appended', i)
  <2> SUFFICES ASSUME NEW i \in 1..Len(file) PROVE file[i] = UnitAt(appended', i)
    BY <1>2
  <2>1. i \in 1..Size(appended)
    BY <1>1, <1>3 DEF WritesInOrder
  <2> QED
    BY <1>1, <1>4, <2>1 DEF WritesInOrder
<1>8. CASE stream = "good"
  <2>1. Len(file) + Len(buffer) = Size(appended)
    BY <1>1, <1>8 DEF WritesInOrder
  <2>2. /\ Len(buffer') = Len(buffer) + RecordUnits
        /\ \A i \in 1..Len(buffer) : buffer'[i] = buffer[i]
        /\ \A k \in 1..RecordUnits : buffer'[Len(buffer) + k] = Encode(cmd)[k]
    <3> DEFINE rec == Encode(cmd)
    <3> HIDE DEF rec
    <3>1. buffer' = buffer \o rec /\ buffer \in Seq(Unit) /\ rec \in Seq(Unit)
      BY <1>2, <1>3, <1>5, <1>8 DEF rec
    <3>2. Len(buffer') = Len(buffer) + Len(rec)
      BY <3>1
    <3>3. \A i \in 1..Len(buffer) : buffer'[i] = buffer[i]
      BY <3>1
    <3>4. \A k \in 1..Len(rec) : buffer'[Len(buffer) + k] = rec[k]
      BY <3>1
    <3> QED
      BY <1>5, <3>2, <3>3, <3>4 DEF rec
  <2>3. ASSUME NEW i \in 1..Len(buffer') PROVE buffer'[i] = UnitAt(appended', Len(file) + i)
    <3>1. CASE i <= Len(buffer)
      <4>1. Len(file) + i \in 1..Size(appended) /\ i \in 1..Len(buffer)
        BY <1>3, <2>1, <2>2, <3>1
      <4> QED
        BY <1>1, <1>4, <2>2, <4>1 DEF WritesInOrder
    <3>2. CASE i > Len(buffer)
      <4> DEFINE k == i - Len(buffer)
      <4>1. /\ k \in 1..RecordUnits /\ i = Len(buffer) + k
            /\ Len(file) + i = Size(appended) + k
        BY <1>3, <2>1, <2>2, <3>2, SMTT(30)
      <4> HIDE DEF k
      <4>2. buffer'[Len(buffer) + k] = [of |-> cmd, part |-> k]
        BY <1>5, <2>2, <4>1
      <4> QED
        BY <1>4, <4>1, <4>2
    <3> QED
      BY <1>3, <2>2, <3>1, <3>2
  <2>4. Len(file) + Len(buffer') = Size(appended')
    BY <1>3, <1>4, <2>1, <2>2
  <2> QED
    BY <1>1, <1>2, <1>3, <1>4, <1>6, <1>7, <1>8, <2>3, <2>4, SMTT(30) DEF Durable, WritesInOrder
<1>9. CASE stream # "good"
  <2>1. buffer' = <<>> /\ buffer = <<>>
    BY <1>1, <1>2, <1>9 DEF WritesInOrder
  <2>2. Len(file) + Len(buffer) <= Size(appended')
    BY <1>1, <1>3, <1>4 DEF WritesInOrder
  <2> QED
    BY <1>1, <1>2, <1>6, <1>7, <1>9, <2>1, <2>2 DEF Durable, WritesInOrder
<1> QED
  BY <1>8, <1>9

(* Whatever part of its buffer the stream gets rid of, and however, the    *)
(* file stays a prefix.                                                    *)
LEMMA WritingKeeps ==
    ASSUME Durable,
           \/ \E n \in 0..Len(buffer) : Spill(n) \/ WriteFails(n)
           \/ Flush \/ Close \/ ProcessDies
    PROVE  Durable'
<1>1. TypeOK /\ WritesInOrder
  BY DEF Durable
<1>2. /\ HeaderUnits \in Nat \ {0} /\ RecordUnits \in Nat \ {0}
      /\ Len(file) \in Nat /\ Len(buffer) \in Nat /\ Size(appended) \in Nat
      /\ appended \in Seq(Commands) /\ buffer \in Seq(Unit) /\ file \in Seq(Unit)
      /\ flushed \in 0..Len(appended) /\ Len(appended) \in Nat
      /\ flushed * RecordUnits \in Nat /\ Len(appended) * RecordUnits \in Nat
  BY <1>1, Sizes DEF TypeOK, count
<1>3. SubSeq(buffer, 1, Len(buffer)) = buffer
  BY <1>2, SubSeqFull
<1>4. ASSUME NEW n \in 0..Len(buffer), Spill(n) PROVE Durable'
  <2>1. /\ file' = file \o SubSeq(buffer, 1, n) /\ stream = "good"
        /\ buffer' = SubSeq(buffer, n + 1, Len(buffer))
        /\ UNCHANGED <<stream, appended, flushed>>
    BY <1>4 DEF Spill, Oldest
  <2>2. /\ file' \in Seq(Unit) /\ Len(file') = Len(file) + n
        /\ \A i \in 1..Len(file') : file'[i] = UnitAt(appended, i)
    BY <2>1, HandOver
  <2>3. /\ buffer' \in Seq(Unit) /\ Len(buffer') = Len(buffer) - n
        /\ \A i \in 1..(Len(buffer) - n) : buffer'[i] = buffer[n + i]
    BY <1>2, <2>1, SMTT(30)
  <2>4. ASSUME NEW i \in 1..Len(buffer') PROVE buffer'[i] = UnitAt(appended, Len(file') + i)
    <3>1. n + i \in 1..Len(buffer) /\ Len(file) + (n + i) = Len(file') + i
      BY <1>2, <2>2, <2>3, SMTT(30)
    <3> QED
      BY <1>1, <2>3, <3>1 DEF WritesInOrder
  <2>5. /\ Len(file') + Len(buffer') = Size(appended)
        /\ flushed > 0 => Len(file') >= HeaderUnits + flushed * RecordUnits
    <3>1. /\ Len(file) + Len(buffer) = Size(appended)
          /\ flushed > 0 => Len(file) >= HeaderUnits + flushed * RecordUnits
      BY <1>1, <2>1 DEF WritesInOrder
    <3> QED
      BY <1>2, <2>2, <2>3, <3>1
  <2> QED
    BY <1>1, <1>2, <2>1, <2>2, <2>3, <2>4, <2>5 DEF Durable, TypeOK, WritesInOrder, count
<1>5. ASSUME NEW n \in 0..Len(buffer), WriteFails(n) PROVE Durable'
  <2>1. /\ file' = file \o SubSeq(buffer, 1, n) /\ stream = "good" /\ stream' = "bad"
        /\ buffer' = <<>> /\ UNCHANGED <<appended, flushed>>
    BY <1>5 DEF WriteFails
  <2>2. /\ file' \in Seq(Unit) /\ Len(file') = Len(file) + n
        /\ \A i \in 1..Len(file') : file'[i] = UnitAt(appended, i)
    BY <2>1, HandOver
  <2>3. /\ Len(file') + Len(buffer') <= Size(appended)
        /\ flushed > 0 => Len(file') >= HeaderUnits + flushed * RecordUnits
    BY <1>1, <1>2, <2>1, <2>2 DEF WritesInOrder
  <2> QED
    BY <1>1, <1>2, <2>1, <2>2, <2>3, SMTT(30) DEF Durable, TypeOK, WritesInOrder, count
<1>6. CASE Flush \/ Close
  <2>1. /\ file' = file \o buffer /\ buffer' = <<>> /\ UNCHANGED appended
        /\ stream' \in {"good", "closed"} /\ (stream' = "good" => stream = "good")
        /\ flushed' = IF stream = "good" THEN Len(appended) ELSE flushed
    BY <1>6 DEF Flush, Close, count
  <2>2. /\ file' \in Seq(Unit) /\ Len(file') = Len(file) + Len(buffer)
        /\ \A i \in 1..Len(file') : file'[i] = UnitAt(appended, i)
    <3>1. Len(buffer) \in 0..Len(buffer)
      BY <1>2
    <3>2. file' = file \o SubSeq(buffer, 1, Len(buffer))
      BY <1>3, <2>1
    <3> QED
      BY <3>1, <3>2, HandOver
  <2>3. /\ Len(file') + Len(buffer') <= Size(appended)
        /\ stream = "good" => Len(file') + Len(buffer') = Size(appended)
    BY <1>1, <1>2, <2>1, <2>2 DEF WritesInOrder
  <2>4. flushed' > 0 => Len(file') >= HeaderUnits + flushed' * RecordUnits
    <3>1. CASE stream = "good"
      BY <1>2, <2>1, <2>2, <2>3, <3>1 DEF Size
    <3>2. CASE stream # "good"
      BY <1>1, <1>2, <2>1, <2>2, <3>2 DEF WritesInOrder
    <3> QED
      BY <3>1, <3>2
  <2> QED
    BY <1>1, <1>2, <2>1, <2>2, <2>3, <2>4 DEF Durable, TypeOK, WritesInOrder, count
<1>7. CASE ProcessDies
  <2>1. stream' = "closed" /\ buffer' = <<>> /\ UNCHANGED <<file, appended, flushed>>
    BY <1>7 DEF ProcessDies
  <2>2. Len(file) + 0 <= Size(appended)
    BY <1>1, <1>2 DEF WritesInOrder
  <2> QED
    BY <1>1, <1>2, <2>1, <2>2 DEF Durable, TypeOK, WritesInOrder, count
<1> QED
  BY <1>4, <1>5, <1>6, <1>7

-----------------------------------------------------------------------------
(* The theorems. *)

(* Durable is inductive: the file holds a prefix of what was appended at   *)
(* every moment, through spills, failed writes, crashes and reopening.     *)
THEOREM LogIsDurable == Spec => []Durable
<1>1. Init => Durable
  <2> SUFFICES ASSUME Init PROVE Durable
    OBVIOUS
  <2>1. <<>> \in Seq(Unit) /\ <<>> \in Seq(Commands) /\ Len(<<>>) = 0
    OBVIOUS
  <2>2. TypeOK
    BY <2>1 DEF Init, TypeOK, count
  <2>3. Size(appended) \in Nat
    BY <2>2, Sizes
  <2> QED
    BY <2>1, <2>2, <2>3 DEF Init, Durable, WritesInOrder
<1>2. Durable /\ [Next]_vars => Durable'
  <2> SUFFICES ASSUME Durable, [Next]_vars PROVE Durable'
    OBVIOUS
  <2>1. CASE UNCHANGED vars
    BY <2>1 DEF vars, Durable, TypeOK, WritesInOrder, count
  <2> QED
    BY <2>1, OpenKeeps, AppendRecordKeeps, WritingKeeps DEF Next
<1> QED
  BY <1>1, <1>2, PTL DEF Spec

(* What read_event_log() makes of such a file: it throws while the header  *)
(* is not complete; otherwise it returns exactly the first commands whose  *)
(* records are complete.                                                   *)
LEMMA ReadOf ==
    ASSUME NEW units \in Seq(Unit), NEW cmds \in Seq(Commands),
           \A i \in 1..Len(units) : units[i] = UnitAt(cmds, i),
           Len(units) <= Size(cmds)
    PROVE  /\ Read(units) # Unreadable <=> Len(units) >= HeaderUnits
           /\ Len(units) >= HeaderUnits =>
                  /\ Complete(units) \in 0..Len(cmds)
                  /\ Complete(units) * RecordUnits <= Len(units) - HeaderUnits
                  /\ Read(units) \in Seq(Commands)
                  /\ Len(Read(units)) = Complete(units)
                  /\ \A k \in 1..Complete(units) : Read(units)[k] = cmds[k]
<1>1. /\ HeaderUnits \in Nat \ {0} /\ RecordUnits \in Nat \ {0}
      /\ Len(units) \in Nat /\ Len(cmds) \in Nat /\ Len(cmds) * RecordUnits \in Nat
      /\ Unreadable \notin Seq(Commands)
  BY LogConstants
<1>2. CASE Len(units) < HeaderUnits
  <2>1. Read(units) = Unreadable
    BY <1>2 DEF Read
  <2> QED
    BY <1>1, <1>2, <2>1
<1>3. CASE Len(units) >= HeaderUnits
  <2> DEFINE body == Len(units) - HeaderUnits
             n    == body \div RecordUnits
  <2>1. SubSeq(units, 1, HeaderUnits) = Header
    <3> DEFINE head == SubSeq(units, 1, HeaderUnits)
    <3>1. \A i \in 1..HeaderUnits : units[i] = [of |-> Magic, part |-> i]
      <4> SUFFICES ASSUME NEW i \in 1..HeaderUnits
                   PROVE  units[i] = [of |-> Magic, part |-> i]
        OBVIOUS
      <4>1. i \in 1..Len(units) /\ i <= HeaderUnits
        BY <1>1, <1>3
      <4>2. UnitAt(cmds, i) = [of |-> Magic, part |-> i]
        BY <4>1 DEF UnitAt
      <4> QED
        BY <4>1, <4>2
    <3>2. /\ head \in Seq(Unit) /\ Len(head) = HeaderUnits
          /\ \A i \in 1..HeaderUnits : head[i] = units[i]
      BY <1>1, <1>3
    <3>3. /\ Header \in Seq(Unit) /\ Len(Header) = HeaderUnits
          /\ \A i \in 1..HeaderUnits : Header[i] = [of |-> Magic, part |-> i]
      <4>1. \A i \in 1..HeaderUnits : [of |-> Magic, part |-> i] \in Unit
        BY <1>1 DEF Unit
      <4> QED
        BY <1>1, <4>1 DEF Header
    <3> HIDE DEF head
    <3>4. \A i \in 1..Len(head) : head[i] = Header[i]
      BY <3>1, <3>2, <3>3
    <3>5. head = Header
      BY <3>2, <3>3, <3>4, SeqEqual
    <3> QED
      BY <3>5 DEF head
  <2>2. body \in Nat /\ body <= Len(cmds) * RecordUnits
    BY <1>1, <1>3 DEF Size
  <2> HIDE DEF body
  <2>3. n \in Nat /\ n * RecordUnits <= body /\ n <= Len(cmds)
    <3>1. n \in Nat /\ n * RecordUnits <= body
      BY <1>1, <2>2, WholeRecords
    <3>2. n <= Len(cmds)
      <4>1. Len(cmds) + 1 \in Nat /\ body < (Len(cmds) + 1) * RecordUnits
        BY <1>1, <2>2
      <4>2. n < Len(cmds) + 1
        BY <1>1, <2>2, <4>1, WholeRecords
      <4> QED
        BY <1>1, <3>1, <4>2
    <3> QED
      BY <3>1, <3>2
  <2>4. Complete(units) = n
    BY DEF Complete, body
  <2>5. Read(units) = [k \in 1..n |-> Decode(units, k)]
    BY <1>1, <1>3, <2>1, <2>4 DEF Read
  <2> HIDE DEF n
  <2>6. ASSUME NEW k \in 1..n PROVE Decode(units, k) = cmds[k]
    <3> DEFINE q   == k - 1
               x   == q * RecordUnits
               pos == HeaderUnits + q * RecordUnits + 1
    <3>1. q \in Nat /\ x \in Nat /\ x + RecordUnits = k * RecordUnits
      BY <1>1, <2>3
    <3>2. k * RecordUnits <= n * RecordUnits
      BY <1>1, <2>3
    <3>3. pos \in 1..Len(units) /\ pos > HeaderUnits /\ x = pos - HeaderUnits - 1
      <4> DEFINE end == k * RecordUnits
                 all == n * RecordUnits
      <4>1. end \in Nat /\ all \in Nat /\ end <= all /\ all <= body
        BY <1>1, <2>3, <3>2
      <4>2. x + RecordUnits = end /\ pos = HeaderUnits + x + 1
        BY <3>1
      <4>3. body = Len(units) - HeaderUnits
        BY DEF body
      <4> HIDE DEF end, all, x, pos
      <4> QED
        BY <1>1, <3>1, <4>1, <4>2, <4>3
    <3>4. Decode(units, k) = units[pos].of
      BY DEF Decode
    <3> HIDE DEF pos, q
    <3>5. x \div RecordUnits = q
      <4>1. RecordUnits \in Nat \ {0} /\ q \in Int /\ 0 \in 0..(RecordUnits - 1)
        BY <1>1, <3>1
      <4>2. (q * RecordUnits + 0) \div RecordUnits = q
        BY <4>1, Offset
      <4>3. q * RecordUnits + 0 = x
        BY <3>1
      <4> QED
        BY <4>2, <4>3
    <3> HIDE DEF x
    <3>6. UnitAt(cmds, pos) = [of   |-> cmds[x \div RecordUnits + 1],
                               part |-> (x % RecordUnits) + 1]
      BY <3>3, RecordPlace
    <3>7. units[pos].of = cmds[q + 1]
      BY <3>3, <3>5, <3>6
    <3> QED
      BY <3>4, <3>7 DEF q
  <2>7. \A k \in 1..n : cmds[k] \in Commands
    BY <1>1, <2>3
  <2>8. Read(units) = [k \in 1..n |-> cmds[k]]
    BY <2>5, <2>6
  <2>9. /\ Read(units) \in Seq(Commands) /\ Len(Read(units)) = n
        /\ \A k \in 1..n : Read(units)[k] = cmds[k]
    BY <2>3, <2>7, <2>8
  <2> QED
    BY <1>1, <1>3, <2>3, <2>4, <2>9 DEF body
<1> QED
  BY <1>1, <1>2, <1>3

(* The file of a durable log, read back.                                   *)
LEMMA ReadBack ==
    ASSUME Durable
    PROVE  /\ Read(file) # Unreadable <=> Len(file) >= HeaderUnits
           /\ Len(file) >= HeaderUnits =>
                  /\ Complete(file) \in 0..Len(appended)
                  /\ Read(file) \in Seq(Commands)
                  /\ Len(Read(file)) = Complete(file)
                  /\ \A k \in 1..Complete(file) : Read(file)[k] = appended[k]
<1>1. /\ file \in Seq(Unit) /\ appended \in Seq(Commands)
      /\ \A i \in 1..Len(file) : file[i] = UnitAt(appended, i)
      /\ Len(file) <= Size(appended)
  <2>1. Len(file) \in Nat /\ Len(buffer) \in Nat /\ Size(appended) \in Nat
    BY Sizes DEF Durable
  <2> QED
    BY <2>1 DEF Durable, TypeOK, WritesInOrder
<1> QED
  BY <1>1, ReadOf

(* Whatever was spilled, torn, refused by the disk or lost in a crash, the *)
(* file gives back the first commands appended to it, in order, or throws. *)
THEOREM CrashLeavesAPrefix == Spec => []ReadsAPrefix
<1>1. Durable => ReadsAPrefix
  <2> SUFFICES ASSUME Durable, Read(file) # Unreadable
               PROVE  IsPrefix(Read(file), appended)
    BY DEF Durable, ReadsAPrefix
  <2> DEFINE r == Read(file)
             n == Complete(file)
  <2>1. /\ r \in Seq(Commands) /\ Len(r) = n /\ n \in 0..Len(appended)
        /\ \A k \in 1..n : r[k] = appended[k]
    BY ReadBack
  <2>2. appended \in Seq(Commands) /\ Len(appended) \in Nat
    BY DEF Durable, TypeOK
  <2> HIDE DEF r, n
  <2>3. /\ SubSeq(appended, 1, n) \in Seq(Commands) /\ Len(SubSeq(appended, 1, n)) = n
        /\ \A k \in 1..n : SubSeq(appended, 1, n)[k] = appended[k]
    BY <2>1, <2>2
  <2>4. r = SubSeq(appended, 1, n)
    BY <2>1, <2>3, SeqEqual
  <2>5. SubSeq(r, 1, Len(r)) = r
    BY <2>1, SubSeqFull
  <2>6. IsPrefix(r, appended)
    BY <2>1, <2>2, <2>4, <2>5 DEF IsPrefix
  <2> QED
    BY <2>6 DEF r
<1> QED
  BY <1>1, LogIsDurable, PTL

(* The records a flush covered can be read.                                *)
LEMMA FlushedCanBeRead == Durable => FlushIsKept
<1> SUFFICES ASSUME Durable, flushed > 0
             PROVE  Read(file) # Unreadable /\ Len(Read(file)) >= flushed
  BY DEF FlushIsKept
<1>1. /\ HeaderUnits \in Nat \ {0} /\ RecordUnits \in Nat \ {0}
      /\ Len(file) \in Nat /\ flushed \in Nat /\ flushed * RecordUnits \in Nat
  BY Sizes DEF Durable
<1>2. Len(file) >= HeaderUnits + flushed * RecordUnits
  BY DEF Durable, WritesInOrder
<1>3. Read(file) # Unreadable /\ Len(Read(file)) = Complete(file)
  BY <1>1, <1>2, ReadBack
<1>4. Complete(file) >= flushed
  <2> DEFINE body == Len(file) - HeaderUnits
  <2>1. body \in Nat /\ body >= flushed * RecordUnits
    BY <1>1, <1>2
  <2> HIDE DEF body
  <2>2. body \div RecordUnits >= flushed
    BY <1>1, <2>1, WholeRecords
  <2> QED
    BY <2>2 DEF Complete, body
<1> QED
  BY <1>3, <1>4

(* What a successful flush covered survives everything that follows: the   *)
(* file is readable and holds at least those records.                      *)
THEOREM FlushedSurvives == Spec => []FlushIsKept
BY FlushedCanBeRead, LogIsDurable, PTL

(* A log closed in good order gives back all that was appended to it: the  *)
(* part of ClosedIsComplete that the code keeps.                           *)
THEOREM OrderlyCloseIsComplete ==
    Spec => [][Close /\ stream = "good" => Read(file') = appended]_vars
<1>1. Durable /\ Durable' => [Close /\ stream = "good" => Read(file') = appended]_vars
  <2> SUFFICES ASSUME Durable, Durable', Close, stream = "good"
               PROVE  Read(file') = appended
    OBVIOUS
  <2>1. /\ file' \in Seq(Unit) /\ appended \in Seq(Commands) /\ appended' = appended
        /\ Len(file') \in Nat /\ Len(appended) \in Nat /\ Size(appended) \in Nat
        /\ RecordUnits \in Nat \ {0} /\ HeaderUnits \in Nat \ {0}
        /\ Len(appended) * RecordUnits \in Nat
    BY Sizes DEF Durable, TypeOK, Close
  <2>2. \A i \in 1..Len(file') : file'[i] = UnitAt(appended, i)
    BY <2>1 DEF Durable, WritesInOrder
  <2>3. Len(file') = Size(appended)
    <3>1. file \in Seq(Unit) /\ buffer \in Seq(Unit) /\ file' = file \o buffer
      BY DEF Durable, TypeOK, Close
    <3>2. Len(file') = Len(file) + Len(buffer)
      BY <3>1
    <3> QED
      BY <3>2 DEF Durable, WritesInOrder
  <2>4. Len(file') >= HeaderUnits
    BY <2>1, <2>3 DEF Size
  <2>5. /\ Read(file') \in Seq(Commands) /\ Len(Read(file')) = Complete(file')
        /\ Complete(file') \in 0..Len(appended)
        /\ \A k \in 1..Complete(file') : Read(file')[k] = appended[k]
    BY <2>1, <2>2, <2>3, <2>4, ReadOf, SMTT(30)
  <2>6. Complete(file') >= Len(appended)
    <3> DEFINE body == Len(file') - HeaderUnits
    <3>1. body \in Nat /\ body >= Len(appended) * RecordUnits
      BY <2>1, <2>3 DEF Size
    <3> HIDE DEF body
    <3>2. body \div RecordUnits >= Len(appended)
      BY <2>1, <3>1, WholeRecords
    <3> QED
      BY <3>2 DEF Complete, body
  <2>7. Len(Read(file')) = Len(appended)
    BY <2>1, <2>5, <2>6
  <2> QED
    BY <2>1, <2>5, <2>7, SeqEqual
<1> QED
  BY <1>1, LogIsDurable, PTL
==============================================================================
