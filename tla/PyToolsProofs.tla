---------------------------- MODULE PyToolsProofs ----------------------------
(***************************************************************************)
(* Theorems about PlainTrace and PyTools, for any calls, lengths of stacks *)
(* and command lines, numbers of records and forks, sizes of pages and     *)
(* questions: the records of a plain trace are found again at any moment,  *)
(* its header is honest, and the answers of the Python module are right.   *)
(*                                                                         *)
(* The first part is about the file, the second one about the loop of      *)
(* Reader, the third about pages and questions.                            *)
(***************************************************************************)
EXTENDS PyTools, NaturalsInduction, WellFoundedInduction, FiniteSetTheorems,
        SequenceTheorems, TLAPS

Rec == [addr : Nat, size : Nat, count : Nat, tstart : Nat]
Stats == [numRecords : Nat, maxStacks : Nat, cmdLength : Nat]

FieldCells == [kind : {"field"}, value : Nat]
RecordCells == [kind : {"record"}, record : Rec]
StackCells == [kind : {"stack"}, of : Nat]
Cell == FieldCells \cup {Arg} \cup RecordCells \cup StackCells

-----------------------------------------------------------------------------
(* The inductive invariant of the file *)

TraceType ==
  /\ file \in Seq(Cell) /\ pending \in Seq(Cell)
  /\ pos \in Nat /\ pos <= Len(file)
  /\ log \in Seq(Rec)
  /\ writer \in [opened : BOOLEAN, nRecords : Nat, maxDepth : Nat, stats : Stats]
  /\ state \in {"running", "ending", "ended", "killed"}

\* Where the records of the log begin, behind a header with m arguments; the
\* last entry is where the next one will.
Offsets(off, m) ==
  /\ m \in Nat
  /\ off \in [1 .. Len(log) + 1 -> Nat]
  /\ off[1] = HeaderFields + m
  /\ \A k \in 1 .. Len(log) : off[k + 1] = off[k] + 1 + log[k].count
  /\ \A k, n \in 1 .. Len(log) + 1 : k < n => off[k] < off[n]

\* The file and what is pending.  The first top cells are as they should be;
\* what stands behind them is left of a longer command line.  Only the last
\* record can be incomplete, and then what is missing comes next.
Lengths(off, top) ==
  /\ top \in Nat /\ pos <= top /\ top <= Len(file) /\ top <= off[Len(log) + 1]
  /\ top = Len(file) \/ top >= HeaderFields
  /\ Len(log) > 0 => top >= off[1] /\ top >= off[Len(log)]
  /\ pos + Len(pending) <= off[Len(log) + 1]
  /\ \/ top = off[Len(log) + 1]
     \/ pos + Len(pending) = off[Len(log) + 1]
  /\ state = "running" => pos + Len(pending) = off[Len(log) + 1]
  /\ state = "ending" => pos + Len(pending) = off[1] /\ top = off[Len(log) + 1]
  /\ state = "ended" => pos = off[1] /\ pending = <<>>

\* What cell c at place j has to be, for the records l.
Stands(off, l, j, c) ==
  /\ j <= HeaderFields => c \in FieldCells
  /\ HeaderFields < j /\ j <= off[1] => c = Arg
  /\ \A k \in 1 .. Len(l) :
       /\ j = off[k] + 1 => c = RecordHeader(l[k])
       /\ off[k] + 1 < j /\ j <= off[k + 1] => c = StackOf(l[k])

Contents(off, top) ==
  /\ \A k \in 1 .. Len(log) : log[k].tstart = k
  /\ \A j \in 1 .. top : Stands(off, log, j, file[j])
  /\ \A j \in 1 .. Len(file) : top < j => file[j] = Arg
  /\ \A j \in 1 .. Len(pending) : Stands(off, log, pos + j, pending[j])

\* The header gives the length of the command line, except while another one
\* is being written over it, before the first record.
CommandLine(m) ==
  /\ writer.opened => writer.stats.cmdLength = m
  /\ \A j \in 1 .. Len(pending) : pos + j = 3 => pending[j].value = m
  /\ Len(file) >= 3 => file[3].value = m \/ (log = <<>> /\ pos < 3)

\* The counts go from nothing to what the writer has counted, at the end.
Counts ==
  /\ writer.nRecords = Len(log)
  /\ writer.maxDepth \in {0} \cup {log[k].count : k \in 1 .. Len(log)}
  /\ \A k \in 1 .. Len(log) : log[k].count <= writer.maxDepth
  /\ writer.opened /\ state = "running" => writer.stats.numRecords = 0
  /\ Len(file) >= 1 =>
       file[1].value = 0 \/ (state # "running" /\ file[1].value = Len(log))
  /\ \A j \in 1 .. Len(pending) :
       pos + j = 1 => \/ pending[j].value = 0
                      \/ state # "running" /\ pending[j].value = Len(log)
  /\ state = "ending" =>
       \A j \in 1 .. Len(pending) :
         /\ pos + j = 1 => pending[j].value = Len(log)
         /\ pos + j = 2 => pending[j].value = writer.maxDepth
  /\ state \in {"ending", "ended"} =>
       /\ pos >= 1 => file[1].value = Len(log)
       /\ pos >= 2 => file[2].value = writer.maxDepth

Laid(off, m, top) ==
  Offsets(off, m) /\ Lengths(off, top) /\ Contents(off, top) /\ CommandLine(m)

\* A file closed and opened again while a part of a longer command line stood
\* at its end: that part, at place i, stays, and the records go behind it.  An
\* updateStats before the first record can still take it in.
Gap(m, i) ==
  /\ m \in Nat /\ i \in Nat /\ i > HeaderFields + m
  /\ i <= Len(file) /\ file[i] = Arg
  /\ \A j \in 1 .. 3 : file[j] \in FieldCells
  /\ file[3].value = m
  /\ \A j \in 1 .. Len(pending) :
       /\ pos + j <= HeaderFields => pending[j] \in FieldCells
       /\ pos + j = 3 => pending[j].value = m
  /\ writer.opened => writer.stats.cmdLength = m
  /\ pos >= i \/ pos + Len(pending) < i
  /\ state = "running" => pos >= i
  /\ state = "running" /\ log = <<>> =>
       pending = <<>> /\ \A j \in 1 .. Len(file) : j > HeaderFields => file[j] = Arg
  /\ state = "ending" => pos + Len(pending) = HeaderFields + m
  /\ state = "ended" => pos = HeaderFields + m /\ pending = <<>>

TraceInv ==
  /\ TraceType /\ Counts
  /\ (\E off, m, top : Laid(off, m, top)) \/ (\E m, i : Gap(m, i))

-----------------------------------------------------------------------------
(* What the operations write *)

LEMMA HeaderOf ==
  ASSUME NEW s \in Stats
  PROVE  /\ FileHeader(s) \in Seq(Cell)
         /\ Len(FileHeader(s)) = HeaderFields + s.cmdLength
         /\ \A j \in 1 .. 3 : FileHeader(s)[j] \in FieldCells
         /\ \A j \in 4 .. 3 + s.cmdLength : FileHeader(s)[j] = Arg
         /\ FileHeader(s)[1].value = s.numRecords
         /\ FileHeader(s)[2].value = s.maxStacks
         /\ FileHeader(s)[3].value = s.cmdLength
<1> DEFINE fields == <<Field(s.numRecords), Field(s.maxStacks), Field(s.cmdLength)>>
           args == [k \in 1 .. s.cmdLength |-> Arg]
<1>1. s.numRecords \in Nat /\ s.maxStacks \in Nat /\ s.cmdLength \in Nat
  BY DEF Stats
<1>2. fields \in Seq(Cell) /\ Len(fields) = 3
  BY <1>1 DEF Cell, FieldCells, Field
<1>3. args \in Seq(Cell) /\ Len(args) = s.cmdLength
  <2>1. \A k \in 1 .. s.cmdLength : args[k] \in Cell
    BY DEF Cell
  <2>2. QED
    BY <2>1, <1>1
<1>4. \A n \in Nat : Field(n) \in FieldCells /\ Field(n).value = n
  BY DEF Field, FieldCells
<1>5. /\ fields[1] = Field(s.numRecords)
      /\ fields[2] = Field(s.maxStacks)
      /\ fields[3] = Field(s.cmdLength)
  OBVIOUS
<1>6. FileHeader(s) = fields \o args
  BY DEF FileHeader
<1>14. \A j \in 1 .. s.cmdLength : args[j] = Arg
  OBVIOUS
<1> HIDE DEF fields, args
<1>7. /\ fields \o args \in Seq(Cell)
      /\ Len(fields \o args) = 3 + s.cmdLength
      /\ \A j \in 1 .. 3 : (fields \o args)[j] = fields[j]
      /\ \A j \in 4 .. 3 + s.cmdLength : (fields \o args)[j] = args[j - 3]
  <2>1. /\ fields \o args \in Seq(Cell)
        /\ Len(fields \o args) = Len(fields) + Len(args)
        /\ \A j \in 1 .. Len(fields) + Len(args) :
             (fields \o args)[j] = IF j <= Len(fields) THEN fields[j] ELSE args[j - Len(fields)]
    BY <1>2, <1>3, ConcatProperties, Zenon
  <2>2. QED
    BY <1>1, <1>2, <1>3, <2>1
<1>8. \A j \in 1 .. 3 : j = 1 \/ j = 2 \/ j = 3
  OBVIOUS
<1>9. \A j \in 1 .. 3 : fields[j] \in FieldCells
  <2>1. fields[1] \in FieldCells /\ fields[2] \in FieldCells /\ fields[3] \in FieldCells
    BY <1>1, <1>4, <1>5, Zenon
  <2>2. QED
    BY <1>8, <2>1
<1>10. /\ FileHeader(s) \in Seq(Cell)
       /\ Len(FileHeader(s)) = HeaderFields + s.cmdLength
       /\ \A j \in 1 .. 3 : FileHeader(s)[j] = fields[j]
  BY <1>6, <1>7 DEF HeaderFields
<1>15. \A j \in 4 .. 3 + s.cmdLength : FileHeader(s)[j] = Arg
  <2>1. \A j \in 4 .. 3 + s.cmdLength : j - 3 \in 1 .. s.cmdLength
    BY <1>1
  <2>2. QED
    BY <1>6, <1>7, <1>14, <2>1
<1>11. /\ FileHeader(s)[1] = fields[1]
       /\ FileHeader(s)[2] = fields[2]
       /\ FileHeader(s)[3] = fields[3]
  BY <1>10
<1>12. /\ FileHeader(s)[1].value = s.numRecords
       /\ FileHeader(s)[2].value = s.maxStacks
       /\ FileHeader(s)[3].value = s.cmdLength
  BY <1>1, <1>4, <1>5, <1>11, Zenon
<1>13. QED
  BY <1>9, <1>10, <1>12, <1>15

LEMMA CellsOf ==
  ASSUME NEW r \in Rec
  PROVE  /\ Cells(r) \in Seq(Cell)
         /\ Len(Cells(r)) = 1 + r.count
         /\ Cells(r)[1] = RecordHeader(r)
         /\ \A j \in 2 .. 1 + r.count : Cells(r)[j] = StackOf(r)
<1> DEFINE h == <<RecordHeader(r)>>
           stack == [k \in 1 .. r.count |-> StackOf(r)]
<1>1. r.count \in Nat /\ r.tstart \in Nat
  BY DEF Rec
<1>2. RecordHeader(r) \in Cell /\ StackOf(r) \in Cell
  BY <1>1 DEF Cell, RecordCells, StackCells, RecordHeader, StackOf
<1>3. h \in Seq(Cell) /\ Len(h) = 1 /\ h[1] = RecordHeader(r)
  BY <1>2
<1>4. stack \in Seq(Cell) /\ Len(stack) = r.count
  BY <1>1, <1>2
<1>5. \A k \in 1 .. r.count : stack[k] = StackOf(r)
  OBVIOUS
<1>6. Cells(r) = h \o stack
  BY DEF Cells
<1> HIDE DEF h, stack
<1>7. /\ h \o stack \in Seq(Cell)
      /\ Len(h \o stack) = 1 + r.count
      /\ (h \o stack)[1] = h[1]
      /\ \A j \in 2 .. 1 + r.count : (h \o stack)[j] = stack[j - 1]
  <2>1. /\ h \o stack \in Seq(Cell)
        /\ Len(h \o stack) = Len(h) + Len(stack)
        /\ \A j \in 1 .. Len(h) + Len(stack) :
             (h \o stack)[j] = IF j <= Len(h) THEN h[j] ELSE stack[j - Len(h)]
    BY <1>3, <1>4, ConcatProperties, Zenon
  <2>2. QED
    BY <1>1, <1>3, <1>4, <2>1
<1>8. \A j \in 2 .. 1 + r.count : j - 1 \in 1 .. r.count
  BY <1>1
<1>9. QED
  BY <1>3, <1>5, <1>6, <1>7, <1>8

LEMMA WriteOne ==
  ASSUME TraceType, WriteCell
  PROVE  /\ file' \in Seq(Cell) /\ pending' \in Seq(Cell)
         /\ pos' = pos + 1
         /\ Len(file') = IF pos < Len(file) THEN Len(file) ELSE pos + 1
         /\ \A j \in 1 .. Len(file') :
              /\ j = pos + 1 => file'[j] = pending[1]
              /\ j # pos + 1 => j \in 1 .. Len(file) /\ file'[j] = file[j]
         /\ Len(pending') = Len(pending) - 1
         /\ Len(pending) >= 1
         /\ \A j \in 1 .. Len(pending') : pending'[j] = pending[j + 1]
<1>1. /\ file \in Seq(Cell) /\ pending \in Seq(Cell) /\ pending # <<>>
      /\ pos \in Nat /\ pos <= Len(file)
  BY DEF TraceType, WriteCell
<1>2. /\ Len(pending) >= 1 /\ Len(pending) \in Nat /\ Len(file) \in Nat
      /\ Head(pending) = pending[1] /\ pending[1] \in Cell
  BY <1>1
<1>3. /\ pending' = Tail(pending) /\ pos' = pos + 1
  BY DEF WriteCell
<1>4. /\ pending' \in Seq(Cell) /\ Len(pending') = Len(pending) - 1
      /\ \A j \in 1 .. Len(pending') : pending'[j] = pending[j + 1]
  BY <1>1, <1>3
<1>5. CASE pos < Len(file)
  <2>1. file' = [file EXCEPT ![pos + 1] = pending[1]]
    BY <1>2, <1>5 DEF WriteCell
  <2>2. pos + 1 \in 1 .. Len(file)
    BY <1>1, <1>2, <1>5
  <2>3. /\ file' \in Seq(Cell) /\ Len(file') = Len(file)
        /\ \A j \in 1 .. Len(file) : file'[j] = IF j = pos + 1 THEN pending[1] ELSE file[j]
    BY <1>1, <1>2, <2>1, <2>2
  <2>4. QED
    BY <1>2, <1>3, <1>4, <1>5, <2>3
<1>6. CASE ~(pos < Len(file))
  <2>1. file' = Append(file, pending[1]) /\ pos = Len(file)
    BY <1>1, <1>2, <1>6 DEF WriteCell
  <2>2. /\ file' \in Seq(Cell) /\ Len(file') = Len(file) + 1
        /\ \A j \in 1 .. Len(file) + 1 :
             file'[j] = IF j = Len(file) + 1 THEN pending[1] ELSE file[j]
    BY <1>1, <1>2, <2>1
  <2>3. QED
    BY <1>2, <1>3, <1>4, <1>6, <2>1, <2>2
<1>7. QED
  BY <1>5, <1>6

-----------------------------------------------------------------------------
(* Every step keeps the invariant *)

LEMMA OffsetsAt ==
  ASSUME NEW off, NEW m, TraceType, Offsets(off, m)
  PROVE  /\ Len(log) \in Nat /\ m \in Nat
         /\ off[1] = 3 + m /\ off[1] \in Nat /\ off[Len(log) + 1] \in Nat
         /\ \A k \in 1 .. Len(log) + 1 : off[k] \in Nat /\ off[k] >= off[1]
         /\ \A k \in 1 .. Len(log) : off[k + 1] <= off[Len(log) + 1]
         /\ \A k \in 1 .. Len(log) : log[k] \in Rec /\ log[k].count \in Nat
<1>1. Len(log) \in Nat /\ \A k \in 1 .. Len(log) : log[k] \in Rec
  BY DEF TraceType
<1>2. \A k \in 1 .. Len(log) : log[k].count \in Nat
  BY <1>1 DEF Rec
<1>3. \A k \in 1 .. Len(log) + 1 : off[k] \in Nat
  BY DEF Offsets
<1>4. \A k \in 1 .. Len(log) + 1 : off[k] >= off[1]
  <2>1. SUFFICES ASSUME NEW k \in 1 .. Len(log) + 1, k # 1 PROVE off[k] >= off[1]
    BY <1>1, <1>3
  <2>2. 1 < k /\ 1 \in 1 .. Len(log) + 1
    BY <1>1, <2>1
  <2>3. off[1] < off[k]
    BY <2>2 DEF Offsets
  <2>4. QED
    BY <1>3, <2>2, <2>3
<1>5. \A k \in 1 .. Len(log) : off[k + 1] <= off[Len(log) + 1]
  <2>1. SUFFICES ASSUME NEW k \in 1 .. Len(log), k # Len(log)
                 PROVE  off[k + 1] <= off[Len(log) + 1]
    BY <1>1, <1>3
  <2>2. k + 1 < Len(log) + 1 /\ k + 1 \in 1 .. Len(log) + 1
        /\ Len(log) + 1 \in 1 .. Len(log) + 1
    BY <1>1, <2>1
  <2>3. off[k + 1] < off[Len(log) + 1]
    BY <2>2 DEF Offsets
  <2>4. QED
    BY <1>3, <2>2, <2>3
<1>6. m \in Nat /\ off[1] = 3 + m
  BY DEF Offsets, HeaderFields
<1>7. QED
  BY <1>1, <1>2, <1>3, <1>4, <1>5, <1>6

\* The types and the counts do not depend on what stands behind the records.
LEMMA WriteCellCounts ==
  ASSUME TraceType, Counts, WriteCell
  PROVE  TraceType' /\ Counts'
<1>2. /\ file' \in Seq(Cell) /\ pending' \in Seq(Cell)
      /\ pos' = pos + 1
      /\ Len(file') = IF pos < Len(file) THEN Len(file) ELSE pos + 1
      /\ \A j \in 1 .. Len(file') :
           /\ j = pos + 1 => file'[j] = pending[1]
           /\ j # pos + 1 => j \in 1 .. Len(file) /\ file'[j] = file[j]
      /\ Len(pending') = Len(pending) - 1
      /\ Len(pending) >= 1
      /\ \A j \in 1 .. Len(pending') : pending'[j] = pending[j + 1]
  BY WriteOne
<1>3. /\ Len(file) \in Nat /\ Len(pending) \in Nat /\ pos \in Nat
      /\ pos <= Len(file)
  BY DEF TraceType
<1>4. log' = log /\ writer' = writer /\ state' = state /\ state \in {"running", "ending"}
  BY DEF WriteCell
<1>5. TraceType'
  <2>1. pos' \in Nat /\ pos' <= Len(file')
    BY <1>2, <1>3
  <2>2. QED
    BY <1>2, <1>4, <2>1 DEF TraceType
<1>10. Counts'
  <2>1. \A j \in 1 .. Len(pending') :
          /\ j + 1 \in 1 .. Len(pending) /\ pos' + j = pos + (j + 1)
          /\ pending'[j] = pending[j + 1]
    BY <1>2, <1>3
  <2>2. 1 \in 1 .. Len(pending)
    BY <1>2, <1>3
  <2>3. Len(file') >= 1 =>
          file'[1].value = 0 \/ (state # "running" /\ file'[1].value = Len(log))
    <3>1. CASE pos = 0
      <4>1. pos + 1 = 1 /\ file'[1] = pending[1]
        BY <1>2, <1>3, <3>1
      <4>2. QED
        BY <2>2, <4>1 DEF Counts
    <3>2. CASE pos # 0
      <4>1. Len(file) >= 1 /\ file'[1] = file[1]
        BY <1>2, <1>3, <3>2
      <4>2. QED
        BY <4>1 DEF Counts
    <3>3. QED
      BY <3>1, <3>2
  <2>4. \A j \in 1 .. Len(pending') :
          pos' + j = 1 => \/ pending'[j].value = 0
                          \/ state # "running" /\ pending'[j].value = Len(log)
    BY <2>1 DEF Counts
  <2>5. state = "ending" =>
          \A j \in 1 .. Len(pending') :
            /\ pos' + j = 1 => pending'[j].value = Len(log)
            /\ pos' + j = 2 => pending'[j].value = writer.maxDepth
    BY <2>1 DEF Counts
  <2>6. ASSUME state = "ending"
        PROVE  /\ pos' >= 1 => file'[1].value = Len(log)
               /\ pos' >= 2 => file'[2].value = writer.maxDepth
    <3>1. CASE pos = 0
      <4>1. pos + 1 = 1 /\ file'[1] = pending[1] /\ pos' = 1
        BY <1>2, <1>3, <3>1
      <4>2. QED
        BY <2>2, <2>6, <4>1 DEF Counts
    <3>2. CASE pos = 1
      <4>1. pos + 1 = 2 /\ file'[2] = pending[1] /\ file'[1] = file[1]
        BY <1>2, <1>3, <3>2
      <4>2. QED
        BY <2>2, <2>6, <3>2, <4>1 DEF Counts
    <3>3. CASE pos > 1
      <4>1. file'[2] = file[2] /\ file'[1] = file[1] /\ pos >= 1 /\ pos >= 2
        BY <1>2, <1>3, <3>3
      <4>2. QED
        BY <2>6, <4>1 DEF Counts
    <3>4. QED
      BY <1>3, <3>1, <3>2, <3>3
  <2>7. QED
    BY <1>4, <2>3, <2>4, <2>5, <2>6 DEF Counts
<1>11. QED
  BY <1>5, <1>10

LEMMA WriteCellKeeps ==
  ASSUME NEW off, NEW m, NEW top, TraceType, Laid(off, m, top), WriteCell
  PROVE  \E top1 : Laid(off, m, top1)'
<1>1. Offsets(off, m) /\ Lengths(off, top) /\ Contents(off, top) /\ CommandLine(m)
  BY DEF Laid
<1>2. /\ file' \in Seq(Cell) /\ pending' \in Seq(Cell)
      /\ pos' = pos + 1
      /\ Len(file') = IF pos < Len(file) THEN Len(file) ELSE pos + 1
      /\ \A j \in 1 .. Len(file') :
           /\ j = pos + 1 => file'[j] = pending[1]
           /\ j # pos + 1 => j \in 1 .. Len(file) /\ file'[j] = file[j]
      /\ Len(pending') = Len(pending) - 1
      /\ Len(pending) >= 1
      /\ \A j \in 1 .. Len(pending') : pending'[j] = pending[j + 1]
  BY WriteOne
<1>3. /\ Len(file) \in Nat /\ Len(pending) \in Nat /\ pos \in Nat
      /\ pos <= Len(file) /\ top \in Nat /\ pos <= top /\ top <= Len(file)
  BY <1>1 DEF TraceType, Lengths
<1>4. log' = log /\ writer' = writer /\ state' = state /\ state \in {"running", "ending"}
  BY DEF WriteCell
<1>5. PICK top1 \in Nat : top1 = IF pos < top THEN top ELSE pos + 1
  BY <1>3
<1>6. Offsets(off, m)'
  BY <1>1, <1>4 DEF Offsets
<1>7. Lengths(off, top1)'
  <2>1. /\ off[1] \in Nat /\ off[Len(log) + 1] \in Nat /\ Len(log) \in Nat
        /\ \A k \in 1 .. Len(log) + 1 : off[k] \in Nat
        /\ off[1] <= off[Len(log) + 1]
    BY <1>1, OffsetsAt
  <2>2. Len(log) > 0 => off[Len(log)] \in Nat
    BY <2>1
  <2>3. /\ pos' <= top1 /\ top1 <= Len(file')
        /\ pos' + Len(pending') = pos + Len(pending) /\ top <= top1
    BY <1>2, <1>3, <1>5
  <2>4. top1 <= off[Len(log) + 1]
    BY <1>1, <1>2, <1>3, <1>5, <2>1 DEF Lengths
  <2>5. top1 = Len(file') \/ top1 >= HeaderFields
    BY <1>1, <1>2, <1>3, <1>5 DEF Lengths, HeaderFields
  <2>6. Len(log) > 0 => top1 >= off[1] /\ top1 >= off[Len(log)]
    BY <1>1, <1>3, <2>1, <2>2, <2>3 DEF Lengths
  <2>7. top = off[Len(log) + 1] => top1 = off[Len(log) + 1]
    BY <1>3, <2>1, <2>3, <2>4
  <2>8. state # "ended"
    BY <1>4
  <2>0. pos + Len(pending) \in Nat /\ pos' + Len(pending') \in Nat
    BY <1>3, <2>3
  <2>9. PICK n \in Nat, n1 \in Nat : n = pos + Len(pending) /\ n1 = pos' + Len(pending')
    BY <2>0, Zenon
  <2>10. n = n1
    BY <2>3, <2>9
  <2>11. /\ n <= off[Len(log) + 1]
         /\ top = off[Len(log) + 1] \/ n = off[Len(log) + 1]
         /\ state = "running" => n = off[Len(log) + 1]
         /\ state = "ending" => n = off[1] /\ top = off[Len(log) + 1]
    BY <1>1, <2>9 DEF Lengths
  <2>12. /\ n1 <= off[Len(log) + 1]
         /\ top1 = off[Len(log) + 1] \/ n1 = off[Len(log) + 1]
         /\ state = "running" => n1 = off[Len(log) + 1]
         /\ state = "ending" => n1 = off[1] /\ top1 = off[Len(log) + 1]
    BY <2>7, <2>10, <2>11, Zenon
  <2> HIDE DEF Laid
  <2>13. QED
    BY <1>4, <2>3, <2>4, <2>5, <2>6, <2>8, <2>9, <2>12 DEF Lengths
<1>8. Contents(off, top1)'
  <2>1. ASSUME NEW j \in 1 .. top1
        PROVE  Stands(off, log, j, file'[j])
    <3>1. CASE j = pos + 1
      <4>1. 1 \in 1 .. Len(pending) /\ j \in 1 .. Len(file') /\ file'[j] = pending[1]
        BY <1>2, <1>3, <3>1
      <4>2. Stands(off, log, pos + 1, pending[1])
        BY <1>1, <4>1 DEF Contents
      <4>3. QED
        BY <3>1, <4>1, <4>2
    <3>2. CASE j # pos + 1
      <4>1. j \in 1 .. top /\ j \in 1 .. Len(file')
        BY <1>2, <1>3, <1>5, <3>2
      <4>2. file'[j] = file[j]
        BY <1>2, <3>2, <4>1
      <4>3. QED
        BY <1>1, <4>1, <4>2 DEF Contents
    <3>3. QED
      BY <3>1, <3>2
  <2>2. ASSUME NEW j \in 1 .. Len(pending')
        PROVE  Stands(off, log, pos' + j, pending'[j])
    <3>1. j + 1 \in 1 .. Len(pending) /\ pos' + j = pos + (j + 1)
      BY <1>2, <1>3
    <3>2. QED
      BY <1>1, <1>2, <3>1 DEF Contents
  <2>3. ASSUME NEW j \in 1 .. Len(file'), top1 < j
        PROVE  file'[j] = Arg
    <3>1. j # pos + 1 /\ top < j
      BY <1>3, <1>5, <2>3
    <3>2. j \in 1 .. Len(file) /\ file'[j] = file[j]
      BY <1>2, <3>1
    <3>3. QED
      BY <1>1, <3>1, <3>2 DEF Contents
  <2>4. QED
    BY <1>1, <1>4, <2>1, <2>2, <2>3 DEF Contents, Stands
<1>9. CommandLine(m)'
  <2>1. \A j \in 1 .. Len(pending') : j + 1 \in 1 .. Len(pending) /\ pos' + j = pos + (j + 1)
    BY <1>2, <1>3
  <2>2. \A j \in 1 .. Len(pending') : pos' + j = 3 => pending'[j].value = m
    BY <1>1, <1>2, <2>1 DEF CommandLine
  <2>3. ASSUME Len(file') >= 3
        PROVE  file'[3].value = m \/ (log = <<>> /\ pos' < 3)
    <3>1. 3 \in 1 .. Len(file')
      BY <1>2, <1>3, <2>3
    <3>2. CASE pos = 2
      <4>1. 1 \in 1 .. Len(pending) /\ pos + 1 = 3 /\ file'[3] = pending[1]
        BY <1>2, <1>3, <3>1, <3>2
      <4>2. QED
        BY <1>1, <4>1 DEF CommandLine
    <3>3. CASE pos # 2
      <4>1. file'[3] = file[3] /\ Len(file) >= 3
        BY <1>2, <1>3, <3>1, <3>3
      <4>2. pos < 3 => pos' < 3
        BY <1>2, <1>3, <3>3
      <4>3. QED
        BY <1>1, <4>1, <4>2 DEF CommandLine
    <3>4. QED
      BY <3>2, <3>3
  <2>4. QED
    BY <1>1, <1>4, <2>2, <2>3 DEF CommandLine
<1>10. Laid(off, m, top1)'
  BY <1>6, <1>7, <1>8, <1>9 DEF Laid
<1>11. QED
  BY <1>10

LEMMA WriteCellGap ==
  ASSUME NEW m, NEW i, TraceType, Gap(m, i), WriteCell
  PROVE  Gap(m, i)'
<1>1. /\ pos' = pos + 1
      /\ Len(file') = IF pos < Len(file) THEN Len(file) ELSE pos + 1
      /\ \A j \in 1 .. Len(file') :
           /\ j = pos + 1 => file'[j] = pending[1]
           /\ j # pos + 1 => j \in 1 .. Len(file) /\ file'[j] = file[j]
      /\ Len(pending') = Len(pending) - 1
      /\ Len(pending) >= 1
      /\ \A j \in 1 .. Len(pending') : pending'[j] = pending[j + 1]
  BY WriteOne
<1>2. /\ Len(file) \in Nat /\ Len(pending) \in Nat /\ pos \in Nat
      /\ pos <= Len(file)
  BY DEF TraceType
<1>3. log' = log /\ writer' = writer /\ state' = state /\ state \in {"running", "ending"}
  BY DEF WriteCell
<1>4. m \in Nat /\ i \in Nat /\ i > 3 + m /\ i <= Len(file)
  BY DEF Gap, HeaderFields
<1>5. pos' + Len(pending') = pos + Len(pending)
  BY <1>1, <1>2
<1>6. file'[i] = Arg /\ i <= Len(file')
  <2>1. i # pos + 1 /\ i \in 1 .. Len(file')
    BY <1>1, <1>2, <1>4 DEF Gap
  <2>2. QED
    BY <1>1, <1>2, <1>4, <2>1 DEF Gap
<1>7. 1 \in 1 .. Len(pending) /\ \A j \in 1 .. 3 : j \in 1 .. Len(file')
  BY <1>1, <1>2, <1>4
<1>8. \A j \in 1 .. 3 : file'[j] \in FieldCells
  <2>1. SUFFICES ASSUME NEW j \in 1 .. 3 PROVE file'[j] \in FieldCells
    OBVIOUS
  <2>2. CASE j = pos + 1
    BY <1>1, <1>7, <2>2 DEF Gap, HeaderFields
  <2>3. CASE j # pos + 1
    BY <1>1, <1>7, <2>3 DEF Gap
  <2>4. QED
    BY <2>2, <2>3
<1>9. file'[3].value = m
  <2>1. CASE 3 = pos + 1
    BY <1>1, <1>7, <2>1 DEF Gap
  <2>2. CASE 3 # pos + 1
    BY <1>1, <1>7, <2>2 DEF Gap
  <2>3. QED
    BY <2>1, <2>2
<1>10. \A j \in 1 .. Len(pending') :
         /\ j + 1 \in 1 .. Len(pending) /\ pos' + j = pos + (j + 1)
         /\ pending'[j] = pending[j + 1]
  BY <1>1, <1>2
<1>11. \A j \in 1 .. Len(pending') :
         /\ pos' + j <= HeaderFields => pending'[j] \in FieldCells
         /\ pos' + j = 3 => pending'[j].value = m
  BY <1>10 DEF Gap
<1>12. /\ pos' >= i \/ pos' + Len(pending') < i
       /\ state = "running" => pos' >= i
  BY <1>1, <1>2, <1>4, <1>5 DEF Gap
<1>13. ~(state = "running" /\ log = <<>>)
  BY <1>1 DEF Gap
<1>14. state = "ending" => pos' + Len(pending') = HeaderFields + m
  BY <1>5 DEF Gap
<1>15. QED
  BY <1>3, <1>4, <1>6, <1>8, <1>9, <1>11, <1>12, <1>13, <1>14 DEF Gap, HeaderFields

\* A header is written over the file, or as its beginning.
LEMMA HeaderStands ==
  ASSUME NEW off, NEW m, NEW s \in Stats, TraceType, Offsets(off, m), s.cmdLength = m
  PROVE  \A j \in 1 .. Len(FileHeader(s)) : Stands(off, log, j, FileHeader(s)[j])
<1>1. SUFFICES ASSUME NEW j \in 1 .. Len(FileHeader(s))
               PROVE  Stands(off, log, j, FileHeader(s)[j])
  OBVIOUS
<1>2. /\ Len(FileHeader(s)) = 3 + m /\ m \in Nat
      /\ \A i \in 1 .. 3 : FileHeader(s)[i] \in FieldCells
      /\ \A i \in 4 .. 3 + m : FileHeader(s)[i] = Arg
  BY HeaderOf DEF HeaderFields, Offsets
<1>3. j <= off[1] /\ j \in Nat /\ j >= 1
  BY <1>2, OffsetsAt
<1>4. j <= HeaderFields => FileHeader(s)[j] \in FieldCells
  BY <1>2, <1>3 DEF HeaderFields
<1>5. ASSUME NEW k \in 1 .. Len(log)
      PROVE  ~(j = off[k] + 1) /\ ~(off[k] + 1 < j)
  <2>1. off[k] \in Nat /\ off[k] >= off[1] /\ off[1] \in Nat
    BY OffsetsAt
  <2>2. QED
    BY <1>3, <2>1
<1>6. HeaderFields < j => FileHeader(s)[j] = Arg
  <2>1. HeaderFields < j => j \in 4 .. 3 + m
    BY <1>2, <1>3 DEF HeaderFields
  <2>2. QED
    BY <1>2, <2>1
<1>7. QED
  BY <1>4, <1>5, <1>6 DEF Stands

LEMMA InitKeeps == TraceInit => TraceInv
<1>1. SUFFICES ASSUME TraceInit PROVE TraceInv
  OBVIOUS
<1>2. /\ CmdLength \in Nat /\ NewStats \in Stats /\ NewStats.cmdLength = CmdLength
      /\ NewStats.numRecords = 0
  BY PlainTraceAssumption DEF NewStats, Stats
<1>3. /\ FileHeader(NewStats) \in Seq(Cell)
      /\ Len(FileHeader(NewStats)) = 3 + CmdLength
      /\ FileHeader(NewStats)[1].value = 0
      /\ FileHeader(NewStats)[3].value = CmdLength
  BY <1>2, HeaderOf DEF HeaderFields
<1>4. /\ file = <<>> /\ pos = 0 /\ pending = FileHeader(NewStats) /\ log = <<>>
      /\ writer = [opened |-> TRUE, nRecords |-> 0, maxDepth |-> 0, stats |-> NewStats]
      /\ state = "running"
  BY <1>1 DEF TraceInit
<1>5. Len(log) = 0 /\ Len(file) = 0
  BY <1>4
<1>6. TraceType
  BY <1>2, <1>3, <1>4, <1>5 DEF TraceType
<1>7. Counts
  BY <1>2, <1>3, <1>4, <1>5 DEF Counts
<1> DEFINE off == [k \in 1 .. 1 |-> 3 + CmdLength]
<1>8. off[1] = 3 + CmdLength /\ off \in [1 .. 1 -> Nat]
  BY <1>2
<1> HIDE DEF off
<1>9. Offsets(off, CmdLength)
  BY <1>2, <1>5, <1>8 DEF Offsets, HeaderFields
<1>10. Lengths(off, 0)
  BY <1>2, <1>3, <1>4, <1>5, <1>8 DEF Lengths
<1>11. Contents(off, 0)
  <2>1. \A j \in 1 .. Len(pending) : Stands(off, log, pos + j, pending[j])
    <3>1. \A j \in 1 .. Len(pending) : pos + j = j
      BY <1>4
    <3>2. \A j \in 1 .. Len(FileHeader(NewStats)) :
            Stands(off, log, j, FileHeader(NewStats)[j])
      BY <1>2, <1>6, <1>9, HeaderStands
    <3>3. QED
      BY <1>4, <3>1, <3>2
  <2>2. QED
    BY <1>5, <2>1 DEF Contents
<1>12. CommandLine(CmdLength)
  BY <1>2, <1>3, <1>4, <1>5 DEF CommandLine
<1>13. Laid(off, CmdLength, 0)
  BY <1>9, <1>10, <1>11, <1>12 DEF Laid
<1>14. QED
  BY <1>6, <1>7, <1>13 DEF TraceInv

\* Between two operations all that is written stands as it should, and the
\* offset is behind it.
LEMMA AtEnd ==
  ASSUME NEW off, NEW m, NEW top, TraceType, Laid(off, m, top), Ready
  PROVE  /\ pos = top /\ top = off[Len(log) + 1] /\ top <= Len(file)
         /\ pos >= 3 + m /\ m \in Nat /\ pos \in Nat
         /\ file[3].value = m
         /\ Len(pending) = 0
<1>1. /\ Offsets(off, m) /\ Lengths(off, top) /\ CommandLine(m)
      /\ pending = <<>> /\ state = "running" /\ Len(pending) = 0
  BY DEF Laid, Ready
<1>2. /\ off[1] = 3 + m /\ m \in Nat /\ off[Len(log) + 1] \in Nat /\ Len(log) \in Nat
      /\ off[Len(log) + 1] >= off[1]
  BY <1>1, OffsetsAt
<1>3. pos \in Nat /\ Len(file) \in Nat
  BY DEF TraceType
<1>4. pos = top /\ top = off[Len(log) + 1] /\ top <= Len(file)
  BY <1>1, <1>2, <1>3 DEF Lengths
<1>5. pos >= 3 + m /\ Len(file) >= 3 /\ ~(pos < 3)
  BY <1>2, <1>3, <1>4
<1>6. QED
  BY <1>1, <1>2, <1>3, <1>4, <1>5 DEF CommandLine

\* The fields of the header are there.
HeaderThere(m) ==
  /\ m \in Nat /\ Len(file) >= 3 /\ pos >= 3
  /\ \A j \in 1 .. 3 : file[j] \in FieldCells
  /\ file[3].value = m
  /\ writer.opened => writer.stats.cmdLength = m

LEMMA LaidHeader ==
  ASSUME NEW off, NEW m, NEW top, TraceType, Laid(off, m, top), Ready
  PROVE  HeaderThere(m)
<1>1. /\ pos = top /\ top <= Len(file) /\ pos >= 3 + m /\ m \in Nat /\ pos \in Nat
      /\ file[3].value = m
  BY AtEnd
<1>2. Len(file) \in Nat
  BY DEF TraceType
<1>3. Len(file) >= 3 /\ pos >= 3
  BY <1>1, <1>2
<1>4. \A j \in 1 .. 3 : j \in 1 .. top /\ j <= HeaderFields
  BY <1>1, <1>3 DEF HeaderFields
<1>5. \A j \in 1 .. 3 : file[j] \in FieldCells
  BY <1>4 DEF Laid, Contents, Stands
<1>6. writer.opened => writer.stats.cmdLength = m
  BY DEF Laid, CommandLine
<1>7. QED
  BY <1>1, <1>3, <1>5, <1>6 DEF HeaderThere

LEMMA GapHeader ==
  ASSUME NEW m, NEW i, TraceType, Gap(m, i), Ready
  PROVE  HeaderThere(m)
<1>1. Len(file) \in Nat /\ pos \in Nat
  BY DEF TraceType
<1>2. m \in Nat /\ i \in Nat /\ i > 3 + m /\ i <= Len(file) /\ pos >= i
  BY DEF Gap, Ready, HeaderFields
<1>3. Len(file) >= 3 /\ pos >= 3
  BY <1>1, <1>2
<1>4. QED
  BY <1>2, <1>3 DEF Gap, HeaderThere

\* The end: the header is written again, with the counts.
LEMMA BeginEndCounts ==
  ASSUME NEW m, TraceType, Counts, HeaderThere(m), BeginEnd
  PROVE  \E s \in Stats :
           /\ s.cmdLength = m /\ pending' = FileHeader(s) /\ pos' = 0
           /\ writer'.stats = s
           /\ state' = "ending" /\ file' = file /\ log' = log
           /\ TraceType' /\ Counts'
<1> DEFINE s == [writer.stats EXCEPT !.numRecords = writer.nRecords,
                                     !.maxStacks = writer.maxDepth]
<1>1. /\ writer.opened
      /\ writer' = [writer EXCEPT !.stats = s] /\ pending' = FileHeader(s)
      /\ pos' = 0 /\ state' = "ending" /\ file' = file /\ log' = log
  BY DEF BeginEnd
<1>2. /\ writer.stats \in Stats /\ writer.nRecords \in Nat /\ writer.maxDepth \in Nat
      /\ writer \in [opened : BOOLEAN, nRecords : Nat, maxDepth : Nat, stats : Stats]
  BY DEF TraceType
<1>3. /\ s \in Stats /\ s.cmdLength = writer.stats.cmdLength
      /\ s.numRecords = writer.nRecords /\ s.maxStacks = writer.maxDepth
  BY <1>2 DEF Stats
<1>4. s.cmdLength = m
  BY <1>1, <1>3 DEF HeaderThere
<1> HIDE DEF s
<1>5. /\ writer'.stats = s /\ writer'.opened = writer.opened
      /\ writer'.nRecords = writer.nRecords /\ writer'.maxDepth = writer.maxDepth
      /\ writer' \in [opened : BOOLEAN, nRecords : Nat, maxDepth : Nat, stats : Stats]
  BY <1>1, <1>2, <1>3
<1>6. FileHeader(s) \in Seq(Cell)
  BY <1>3, HeaderOf
<1>7. TraceType'
  BY <1>1, <1>5, <1>6 DEF TraceType
<1>8. Counts'
  <2>1. /\ pending'[1].value = Len(log) /\ pending'[2].value = writer.maxDepth
    BY <1>1, <1>3, HeaderOf DEF Counts
  <2>2. \A j \in 1 .. Len(pending') : pos' + j = j
    BY <1>1
  <2>3. QED
    BY <1>1, <1>5, <2>1, <2>2 DEF Counts
<1>9. QED
  BY <1>1, <1>3, <1>4, <1>5, <1>7, <1>8

LEMMA BeginEndKeeps ==
  ASSUME NEW off, NEW m, NEW top, TraceType, Counts, Laid(off, m, top), BeginEnd
  PROVE  TraceType' /\ Counts' /\ Laid(off, m, top)'
<1>1. Ready
  BY DEF BeginEnd
<1>2. Offsets(off, m) /\ Lengths(off, top) /\ Contents(off, top) /\ CommandLine(m)
  BY DEF Laid
<1>3. PICK s \in Stats :
        /\ s.cmdLength = m /\ pending' = FileHeader(s) /\ pos' = 0
        /\ writer'.stats = s
        /\ state' = "ending" /\ file' = file /\ log' = log
        /\ TraceType' /\ Counts'
  BY <1>1, LaidHeader, BeginEndCounts
<1>4. /\ FileHeader(s) \in Seq(Cell) /\ Len(FileHeader(s)) = 3 + m
      /\ FileHeader(s)[3].value = m
  BY <1>3, HeaderOf DEF HeaderFields
<1>5. /\ off[1] = 3 + m /\ m \in Nat /\ off[Len(log) + 1] \in Nat /\ Len(log) \in Nat
      /\ off[Len(log) + 1] >= off[1]
  BY <1>2, OffsetsAt
<1>6. /\ top = off[Len(log) + 1] /\ file[3].value = m /\ pos = top /\ top \in Nat
      /\ top <= Len(file)
  BY <1>1, <1>2, AtEnd DEF Lengths
<1>7. Offsets(off, m)'
  BY <1>2, <1>3 DEF Offsets
<1>8. Lengths(off, top)'
  <2>1. Len(log) > 0 => top >= off[1] /\ top >= off[Len(log)]
    BY <1>2 DEF Lengths
  <2>2. pos' + Len(pending') = 3 + m
    BY <1>3, <1>4, <1>5
  <2>3. top = Len(file) \/ top >= HeaderFields
    BY <1>2 DEF Lengths
  <2>4. pos' <= top /\ state' # "running" /\ state' # "ended"
    BY <1>3, <1>6
  <2>5. QED
    BY <1>3, <1>5, <1>6, <2>1, <2>2, <2>3, <2>4 DEF Lengths
<1>9. \A j \in 1 .. Len(pending') : pos' + j = j
  BY <1>3
<1>10. Contents(off, top)'
  <2>1. \A j \in 1 .. Len(pending') : Stands(off, log, pos' + j, pending'[j])
    <3>1. \A j \in 1 .. Len(FileHeader(s)) : Stands(off, log, j, FileHeader(s)[j])
      BY <1>2, <1>3, HeaderStands
    <3>2. QED
      BY <1>3, <1>9, <3>1
  <2>2. QED
    BY <1>2, <1>3, <2>1 DEF Contents, Stands
<1>11. CommandLine(m)'
  BY <1>2, <1>3, <1>4, <1>6, <1>9 DEF CommandLine
<1>12. QED
  BY <1>3, <1>7, <1>8, <1>10, <1>11 DEF Laid

LEMMA BeginEndGap ==
  ASSUME NEW m, NEW i, TraceType, Counts, Gap(m, i), BeginEnd
  PROVE  TraceType' /\ Counts' /\ Gap(m, i)'
<1>1. Ready
  BY DEF BeginEnd
<1>2. PICK s \in Stats :
        /\ s.cmdLength = m /\ pending' = FileHeader(s) /\ pos' = 0
        /\ writer'.stats = s
        /\ state' = "ending" /\ file' = file /\ log' = log
        /\ TraceType' /\ Counts'
  BY <1>1, GapHeader, BeginEndCounts
<1>3. /\ FileHeader(s) \in Seq(Cell) /\ Len(FileHeader(s)) = 3 + m
      /\ FileHeader(s)[3].value = m
      /\ \A j \in 1 .. 3 : FileHeader(s)[j] \in FieldCells
  BY <1>2, HeaderOf DEF HeaderFields
<1>4. m \in Nat /\ i \in Nat /\ i > 3 + m
  BY DEF Gap, HeaderFields
<1>5. pos' + Len(pending') = 3 + m /\ pos' + Len(pending') < i
  BY <1>2, <1>3, <1>4
<1>6. \A j \in 1 .. Len(pending') :
        /\ pos' + j = j
        /\ j <= HeaderFields => j \in 1 .. 3
  BY <1>2, <1>3 DEF HeaderFields
<1>7. \A j \in 1 .. Len(pending') :
        /\ pos' + j <= HeaderFields => pending'[j] \in FieldCells
        /\ pos' + j = 3 => pending'[j].value = m
  BY <1>2, <1>3, <1>6
<1>8. state' # "running" /\ state' # "ended"
  BY <1>2
<1>9. Gap(m, i)'
  BY <1>2, <1>4, <1>5, <1>7, <1>8 DEF Gap, HeaderFields
<1>10. QED
  BY <1>2, <1>9

\* Before the first record another command line can be set, and the header with
\* it is written over the file; what stood behind the fields are arguments.
LEMMA UpdateStatsKeeps ==
  ASSUME NEW m, TraceType, Counts, HeaderThere(m), UpdateStats,
         log = <<>> => \A j \in 1 .. Len(file) : j > HeaderFields => file[j] = Arg
  PROVE  TraceType' /\ Counts' /\ \E off1, m1, top1 : Laid(off1, m1, top1)'
<1>1. PICK n \in CmdLengths :
        LET s == [writer.stats EXCEPT !.cmdLength = n] IN
        writer' = [writer EXCEPT !.stats = s] /\ pending' = FileHeader(s)
  BY DEF UpdateStats
<1> DEFINE s == [writer.stats EXCEPT !.cmdLength = n]
<1>2. /\ writer.opened /\ state = "running" /\ writer.nRecords = 0
      /\ writer' = [writer EXCEPT !.stats = s] /\ pending' = FileHeader(s)
      /\ pos' = 0 /\ state' = state /\ file' = file /\ log' = log
  BY <1>1 DEF UpdateStats, Ready
<1>3. /\ writer.stats \in Stats /\ n \in Nat
      /\ writer \in [opened : BOOLEAN, nRecords : Nat, maxDepth : Nat, stats : Stats]
  BY PlainTraceAssumption DEF TraceType
<1>4. s \in Stats /\ s.cmdLength = n /\ s.numRecords = writer.stats.numRecords
  BY <1>3 DEF Stats
<1> HIDE DEF s
<1>5. /\ writer'.stats = s /\ writer'.opened = writer.opened
      /\ writer'.nRecords = writer.nRecords /\ writer'.maxDepth = writer.maxDepth
      /\ writer' \in [opened : BOOLEAN, nRecords : Nat, maxDepth : Nat, stats : Stats]
  BY <1>2, <1>3, <1>4
<1>6. Len(log) = 0 /\ log = <<>>
  <2>1. Len(log) = 0 /\ log \in Seq(Rec)
    BY <1>2 DEF Counts, TraceType
  <2>2. QED
    BY <2>1
<1>7. /\ Len(file) >= 3 /\ Len(file) \in Nat
      /\ \A j \in 1 .. 3 : file[j] \in FieldCells
      /\ \A j \in 1 .. Len(file) : j > HeaderFields => file[j] = Arg
  BY <1>6 DEF HeaderThere, TraceType
<1> DEFINE off1 == [k \in 1 .. 1 |-> 3 + n]
<1>8. off1[1] = 3 + n /\ off1 \in [1 .. 1 -> Nat]
  BY <1>3
<1> HIDE DEF off1
<1>9. /\ FileHeader(s) \in Seq(Cell) /\ Len(FileHeader(s)) = 3 + n
      /\ FileHeader(s)[3].value = n /\ FileHeader(s)[1].value = 0
  BY <1>2, <1>4, HeaderOf DEF HeaderFields, Counts
<1>10. TraceType'
  <2>1. pos' \in Nat /\ pos' <= Len(file')
    BY <1>2, <1>7
  <2>2. QED
    BY <1>2, <1>5, <1>9, <2>1 DEF TraceType
<1>11. \A j \in 1 .. Len(pending') : pos' + j = j
  BY <1>2
<1>12. Counts'
  <2>1. \A j \in 1 .. Len(pending') : pos' + j = 1 => pending'[j].value = 0
    BY <1>2, <1>9, <1>11
  <2>2. writer'.stats.numRecords = 0
    BY <1>2, <1>4, <1>5 DEF Counts
  <2>3. QED
    BY <1>2, <1>5, <2>1, <2>2 DEF Counts
<1>13. Offsets(off1, n)'
  BY <1>2, <1>3, <1>6, <1>8 DEF Offsets, HeaderFields
<1>14. Lengths(off1, 3)'
  <2>1. pos' + Len(pending') = 3 + n /\ pos' = 0
    BY <1>2, <1>3, <1>9
  <2>2. Len(log') = 0 /\ off1[Len(log') + 1] = 3 + n
    BY <1>2, <1>6, <1>8
  <2>3. state' # "ending" /\ state' # "ended" /\ file' = file
    BY <1>2
  <2>4. QED
    BY <1>3, <1>7, <2>1, <2>2, <2>3 DEF Lengths, HeaderFields
<1>15. Contents(off1, 3)'
  <2>1. \A j \in 1 .. 3 : Stands(off1, log, j, file[j])
    <3>1. \A j \in 1 .. 3 : ~(HeaderFields < j)
      BY DEF HeaderFields
    <3>2. QED
      BY <1>6, <1>7, <3>1 DEF Stands
  <2>2. \A j \in 1 .. Len(file) : 3 < j => file[j] = Arg
    BY <1>7 DEF HeaderFields
  <2>3. \A j \in 1 .. Len(pending') : Stands(off1, log, pos' + j, pending'[j])
    <3>1. Offsets(off1, n)
      BY <1>2, <1>13 DEF Offsets
    <3>2. \A j \in 1 .. Len(FileHeader(s)) : Stands(off1, log, j, FileHeader(s)[j])
      BY <1>4, <3>1, HeaderStands
    <3>3. QED
      BY <1>2, <1>11, <3>2
  <2>4. \A k \in 1 .. Len(log') : log'[k].tstart = k
    BY <1>2, <1>6
  <2>5. QED
    BY <1>2, <2>1, <2>2, <2>3, <2>4 DEF Contents
<1>16. CommandLine(n)'
  BY <1>2, <1>4, <1>5, <1>6, <1>9, <1>11 DEF CommandLine
<1>17. Laid(off1, n, 3)'
  BY <1>13, <1>14, <1>15, <1>16 DEF Laid
<1>18. QED
  BY <1>10, <1>12, <1>17

LEMMA UpdateStatsLaid ==
  ASSUME NEW off, NEW m, NEW top, TraceType, Counts, Laid(off, m, top), UpdateStats
  PROVE  TraceType' /\ Counts' /\ \E off1, m1, top1 : Laid(off1, m1, top1)'
<1>1. Ready
  BY DEF UpdateStats
<1>2. ASSUME log = <<>>, NEW j \in 1 .. Len(file), j > HeaderFields
      PROVE  file[j] = Arg
  <2>1. /\ Len(log) = 0 /\ top = off[Len(log) + 1] /\ top \in Nat
        /\ Contents(off, top)
    BY <1>1, <1>2, AtEnd DEF Laid, Lengths
  <2>2. CASE j <= top
    <3>1. j \in 1 .. top /\ j <= off[1]
      BY <2>1, <2>2
    <3>2. QED
      BY <1>2, <2>1, <3>1 DEF Contents, Stands
  <2>3. CASE ~(j <= top)
    <3>1. top < j
      BY <2>1, <2>3
    <3>2. QED
      BY <2>1, <3>1 DEF Contents
  <2>4. QED
    BY <2>2, <2>3
<1>3. QED
  BY <1>1, <1>2, LaidHeader, UpdateStatsKeeps

LEMMA UpdateStatsGap ==
  ASSUME NEW m, NEW i, TraceType, Counts, Gap(m, i), UpdateStats
  PROVE  TraceType' /\ Counts' /\ \E off1, m1, top1 : Laid(off1, m1, top1)'
<1>1. Ready /\ state = "running"
  BY DEF UpdateStats, Ready
<1>2. log = <<>> => \A j \in 1 .. Len(file) : j > HeaderFields => file[j] = Arg
  BY <1>1 DEF Gap
<1>3. QED
  BY <1>1, <1>2, GapHeader, UpdateStatsKeeps

\* A record is added to the log and its cells are to be written.
LEMMA WriteRecordCounts ==
  ASSUME NEW m, TraceType, Counts, HeaderThere(m), WriteRecord
  PROVE  \E r \in Rec :
           /\ r.tstart = Len(log) + 1
           /\ pending' = Cells(r) /\ log' = Append(log, r)
           /\ file' = file /\ pos' = pos /\ state' = state
           /\ writer'.opened = writer.opened /\ writer'.stats = writer.stats
           /\ TraceType' /\ Counts'
<1>1. PICK c \in Calls :
        LET r == [addr |-> c.addr, size |-> c.size, count |-> c.count,
                  tstart |-> Len(log) + 1]
        IN /\ pending' = Cells(r)
           /\ log' = Append(log, r)
           /\ writer' = [writer EXCEPT !.nRecords = @ + 1, !.maxDepth = Max({@, r.count})]
  BY DEF WriteRecord
<1> DEFINE r == [addr |-> c.addr, size |-> c.size, count |-> c.count,
                 tstart |-> Len(log) + 1]
           deepest == Max({writer.maxDepth, r.count})
<1>2. /\ Ready /\ writer.opened /\ state = "running" /\ pending' = Cells(r)
      /\ log' = Append(log, r) /\ file' = file /\ pos' = pos /\ state' = state
  BY <1>1 DEF WriteRecord, Ready
<1>3. /\ log \in Seq(Rec) /\ Len(log) \in Nat
      /\ writer \in [opened : BOOLEAN, nRecords : Nat, maxDepth : Nat, stats : Stats]
      /\ writer.maxDepth \in Nat
  BY DEF TraceType
<1>4. /\ c.addr \in Nat /\ c.size \in Nat /\ c.count \in Nat
  BY PlainTraceAssumption
<1>5. r \in Rec /\ r.tstart = Len(log) + 1 /\ r.count \in Nat
  BY <1>3, <1>4 DEF Rec
<1>6. /\ deepest \in {writer.maxDepth, r.count}
      /\ deepest >= writer.maxDepth /\ deepest >= r.count
  <2>1. \E x \in {writer.maxDepth, r.count} : \A y \in {writer.maxDepth, r.count} : x >= y
    BY <1>3, <1>5
  <2> HIDE DEF r
  <2>2. QED
    BY <2>1 DEF Max
<1>7. /\ writer'.nRecords = writer.nRecords + 1 /\ writer'.maxDepth = deepest
      /\ writer'.opened = writer.opened /\ writer'.stats = writer.stats
      /\ writer' \in [opened : BOOLEAN, nRecords : Nat, maxDepth : Nat, stats : Stats]
  <2>1. writer' = [writer EXCEPT !.nRecords = writer.nRecords + 1, !.maxDepth = deepest]
    BY <1>1
  <2>2. deepest \in Nat /\ writer.nRecords + 1 \in Nat
    BY <1>3, <1>5, <1>6
  <2> HIDE DEF deepest, r
  <2>3. QED
    BY <1>3, <2>1, <2>2
<1> HIDE DEF r, deepest
<1>8. /\ log' \in Seq(Rec) /\ Len(log') = Len(log) + 1
      /\ \A k \in 1 .. Len(log) : log'[k] = log[k]
      /\ log'[Len(log) + 1] = r
  BY <1>2, <1>3, <1>5
<1>9. /\ Cells(r) \in Seq(Cell) /\ Len(Cells(r)) = 1 + r.count
      /\ Cells(r)[1] = RecordHeader(r)
      /\ \A j \in 2 .. 1 + r.count : Cells(r)[j] = StackOf(r)
  BY <1>5, CellsOf
<1>11. pos \in Nat /\ pos >= 3
  BY DEF TraceType, HeaderThere
<1>14. TraceType'
  BY <1>2, <1>7, <1>8, <1>9 DEF TraceType
<1>15. \A j \in 1 .. Len(pending') : pos' + j > 3
  BY <1>2, <1>9, <1>11
<1>16. Counts'
  <2>1. writer'.maxDepth \in {0} \cup {log'[k].count : k \in 1 .. Len(log')}
    <3>1. CASE deepest = r.count
      BY <1>3, <1>7, <1>8, <3>1
    <3>2. CASE deepest = writer.maxDepth
      <4>1. CASE writer.maxDepth = 0
        BY <1>7, <3>2, <4>1
      <4>2. CASE writer.maxDepth # 0
        <5>1. PICK k \in 1 .. Len(log) : writer.maxDepth = log[k].count
          BY <4>2 DEF Counts
        <5>2. k \in 1 .. Len(log') /\ log'[k] = log[k]
          BY <1>3, <1>8
        <5>3. QED
          BY <1>7, <3>2, <5>1, <5>2
      <4>3. QED
        BY <4>1, <4>2
    <3>3. QED
      BY <1>6, <3>1, <3>2
  <2>2. \A k \in 1 .. Len(log') : log'[k].count <= writer'.maxDepth
    <3>1. SUFFICES ASSUME NEW k \in 1 .. Len(log') PROVE log'[k].count <= deepest
      BY <1>7
    <3>2. CASE k = Len(log) + 1
      BY <1>6, <1>8, <3>2
    <3>3. CASE k # Len(log) + 1
      <4>1. k \in 1 .. Len(log) /\ log'[k] = log[k]
        BY <1>3, <1>8, <3>3
      <4>2. log[k].count <= writer.maxDepth /\ log[k].count \in Nat /\ deepest \in Nat
        <5>0. log[k] \in Rec
          BY <1>3, <4>1
        <5>1. log[k].count \in Nat
          BY <5>0 DEF Rec
        <5>2. QED
          BY <1>3, <1>5, <1>6, <4>1, <5>1 DEF Counts
      <4>3. QED
        BY <1>3, <1>6, <4>1, <4>2
    <3>4. QED
      BY <3>2, <3>3
  <2>3. writer'.nRecords = Len(log')
    BY <1>7, <1>8 DEF Counts
  <2>4. Len(file') >= 1 => file'[1].value = 0
    BY <1>2 DEF Counts
  <2>5. QED
    BY <1>2, <1>7, <1>15, <2>1, <2>2, <2>3, <2>4 DEF Counts
<1>17. QED
  BY <1>2, <1>5, <1>7, <1>14, <1>16

LEMMA WriteRecordKeeps ==
  ASSUME NEW off, NEW m, NEW top, TraceType, Counts, Laid(off, m, top), WriteRecord
  PROVE  TraceType' /\ Counts' /\ \E off1 : Laid(off1, m, top)'
<1>1. Ready /\ state = "running"
  BY DEF WriteRecord, Ready
<1>2. PICK r \in Rec :
        /\ r.tstart = Len(log) + 1
        /\ pending' = Cells(r) /\ log' = Append(log, r)
        /\ file' = file /\ pos' = pos /\ state' = state
        /\ writer'.opened = writer.opened /\ writer'.stats = writer.stats
        /\ TraceType' /\ Counts'
  BY <1>1, LaidHeader, WriteRecordCounts
<1>3. log \in Seq(Rec) /\ Len(log) \in Nat
  BY DEF TraceType
<1>5. r \in Rec /\ r.tstart = Len(log) + 1 /\ r.count \in Nat
  BY <1>2 DEF Rec
<1>7. writer'.opened = writer.opened /\ writer'.stats = writer.stats
  BY <1>2
<1>8. /\ log' \in Seq(Rec) /\ Len(log') = Len(log) + 1
      /\ \A k \in 1 .. Len(log) : log'[k] = log[k]
      /\ log'[Len(log) + 1] = r
  BY <1>2, <1>3, <1>5
<1>9. /\ Cells(r) \in Seq(Cell) /\ Len(Cells(r)) = 1 + r.count
      /\ Cells(r)[1] = RecordHeader(r)
      /\ \A j \in 2 .. 1 + r.count : Cells(r)[j] = StackOf(r)
  BY <1>5, CellsOf
<1>10. Offsets(off, m) /\ Lengths(off, top) /\ Contents(off, top) /\ CommandLine(m)
  BY DEF Laid
<1>11. /\ pos = top /\ top = off[Len(log) + 1] /\ top <= Len(file) /\ pos \in Nat
       /\ pos >= 3 + m /\ m \in Nat /\ file[3].value = m /\ pos >= 3
  <2>1. /\ pos = top /\ top = off[Len(log) + 1] /\ top <= Len(file) /\ pos \in Nat
        /\ pos >= 3 + m /\ m \in Nat /\ file[3].value = m
    BY <1>1, AtEnd
  <2>2. QED
    BY <2>1
<1>12. /\ \A k \in 1 .. Len(log) + 1 : off[k] \in Nat /\ off[k] <= pos
       /\ off[1] = 3 + m
       /\ \A k \in 1 .. Len(log) : off[k + 1] <= pos /\ off[k] < pos
  <2>1. /\ \A k \in 1 .. Len(log) + 1 : off[k] \in Nat
        /\ off[1] = 3 + m
        /\ \A k \in 1 .. Len(log) : off[k + 1] <= pos
    BY <1>10, <1>11, OffsetsAt
  <2>2. \A k \in 1 .. Len(log) : off[k] < pos
    BY <1>3, <1>10, <1>11 DEF Offsets
  <2>3. ASSUME NEW k \in 1 .. Len(log) + 1 PROVE off[k] <= pos
    <3>1. CASE k = Len(log) + 1
      BY <1>11, <3>1
    <3>2. CASE k # Len(log) + 1
      <4>1. k \in 1 .. Len(log)
        BY <1>3, <3>2
      <4>2. QED
        BY <1>11, <2>1, <2>2, <4>1
    <3>3. QED
      BY <3>1, <3>2
  <2>4. QED
    BY <2>1, <2>2, <2>3
<1>0. PICK off1 : off1 = [k \in 1 .. Len(log) + 2 |->
                            IF k = Len(log) + 2 THEN pos + 1 + r.count ELSE off[k]]
  OBVIOUS
<1>13. /\ \A k \in 1 .. Len(log) + 1 : off1[k] = off[k]
       /\ off1[Len(log) + 2] = pos + 1 + r.count
       /\ off1 \in [1 .. Len(log) + 2 -> Nat]
  <2>1. \A k \in 1 .. Len(log) + 1 : k \in 1 .. Len(log) + 2 /\ k # Len(log) + 2
    BY <1>3
  <2>2. pos + 1 + r.count \in Nat /\ Len(log) + 2 \in 1 .. Len(log) + 2
    BY <1>3, <1>5, <1>11
  <2>3. \A k \in 1 .. Len(log) + 2 : k # Len(log) + 2 => k \in 1 .. Len(log) + 1
    BY <1>3
  <2>4. QED
    BY <1>0, <1>12, <2>1, <2>2, <2>3
<1>15. \A j \in 1 .. Len(pending') : pos' + j > 3
  BY <1>2, <1>9, <1>11
<1>17. Offsets(off1, m)'
  <2>1. ASSUME NEW k \in 1 .. Len(log')
        PROVE  off1[k + 1] = off1[k] + 1 + log'[k].count
    <3>1. CASE k = Len(log) + 1
      <4>1. off1[k + 1] = pos + 1 + r.count /\ off1[k] = off[Len(log) + 1]
        BY <1>3, <1>13, <3>1
      <4>2. QED
        BY <1>8, <1>11, <3>1, <4>1
    <3>2. CASE k # Len(log) + 1
      <4>1. k \in 1 .. Len(log) /\ k \in 1 .. Len(log) + 1 /\ k + 1 \in 1 .. Len(log) + 1
        BY <1>3, <1>8, <3>2
      <4>2. off[k + 1] = off[k] + 1 + log[k].count
        BY <1>10, <4>1 DEF Offsets
      <4>3. QED
        BY <1>8, <1>13, <4>1, <4>2
    <3>3. QED
      BY <3>1, <3>2
  <2>2. ASSUME NEW k \in 1 .. Len(log') + 1, NEW n \in 1 .. Len(log') + 1, k < n
        PROVE  off1[k] < off1[n]
    <3>1. k \in 1 .. Len(log) + 1 /\ off1[k] = off[k] /\ off[k] <= pos /\ off[k] \in Nat
      BY <1>3, <1>8, <1>12, <1>13, <2>2
    <3>2. CASE n = Len(log) + 2
      <4>1. off1[n] = pos + 1 + r.count
        BY <1>13, <3>2
      <4>2. QED
        BY <1>5, <1>11, <3>1, <4>1
    <3>3. CASE n # Len(log) + 2
      <4>1. n \in 1 .. Len(log) + 1 /\ off1[n] = off[n]
        BY <1>3, <1>8, <1>13, <3>3
      <4>2. QED
        BY <1>10, <2>2, <3>1, <4>1 DEF Offsets
    <3>4. QED
      BY <3>2, <3>3
  <2>3. off1[1] = 3 + m
    BY <1>3, <1>12, <1>13
  <2>4. Len(log') + 1 = Len(log) + 2
    BY <1>3, <1>8
  <2>5. QED
    BY <1>11, <1>13, <2>1, <2>2, <2>3, <2>4 DEF Offsets, HeaderFields
<1>18. Lengths(off1, top)'
  <2>1. /\ off1[Len(log') + 1] = pos + 1 + r.count
        /\ off1[Len(log')] = pos /\ off1[1] = 3 + m
        /\ Len(log') + 1 = Len(log) + 2
    <3>1. Len(log') = Len(log) + 1 /\ Len(log') + 1 = Len(log) + 2
          /\ 1 \in 1 .. Len(log) + 1 /\ Len(log) + 1 \in 1 .. Len(log) + 1
      BY <1>3, <1>8
    <3>2. off1[1] = off[1] /\ off1[Len(log) + 1] = off[Len(log) + 1]
      BY <1>13, <3>1
    <3>3. QED
      BY <1>11, <1>12, <1>13, <3>1, <3>2
  <2>2. /\ top = pos /\ top <= Len(file') /\ pos' = pos /\ Len(pending') = 1 + r.count
        /\ state' = "running" /\ r.count \in Nat /\ pos \in Nat /\ pos >= 3 + m /\ m \in Nat
    BY <1>1, <1>2, <1>5, <1>9, <1>11
  <2>3. /\ pos' + Len(pending') = off1[Len(log') + 1]
        /\ pos' <= top /\ top <= off1[Len(log') + 1] /\ top \in Nat
        /\ top >= HeaderFields /\ top >= off1[1] /\ top >= off1[Len(log')]
        /\ off1[Len(log') + 1] \in Nat
    BY <2>1, <2>2 DEF HeaderFields
  <2>4. state' # "ending" /\ state' # "ended"
    BY <2>2
  <2>5. QED
    BY <2>2, <2>3, <2>4 DEF Lengths
<1>19. Contents(off1, top)'
  <2>1. ASSUME NEW j \in 1 .. top
        PROVE  Stands(off1, log', j, file'[j])
    <3>1. Stands(off, log, j, file[j]) /\ file' = file /\ j <= pos /\ j \in Nat
      BY <1>2, <1>10, <1>11 DEF Contents
    <3>2. ASSUME NEW k \in 1 .. Len(log')
          PROVE  /\ j = off1[k] + 1 => file'[j] = RecordHeader(log'[k])
                 /\ off1[k] + 1 < j /\ j <= off1[k + 1] => file'[j] = StackOf(log'[k])
      <4>1. CASE k = Len(log) + 1
        <5>1. off1[k] = pos
          BY <1>3, <1>11, <1>13, <4>1
        <5>2. QED
          BY <1>11, <3>1, <5>1
      <4>2. CASE k # Len(log) + 1
        <5>1. k \in 1 .. Len(log) /\ k \in 1 .. Len(log) + 1 /\ k + 1 \in 1 .. Len(log) + 1
          BY <1>3, <1>8, <4>2
        <5>2. off1[k] = off[k] /\ off1[k + 1] = off[k + 1] /\ log'[k] = log[k]
          BY <1>8, <1>13, <5>1
        <5>3. QED
          BY <3>1, <5>1, <5>2 DEF Stands
      <4>3. QED
        BY <4>1, <4>2
    <3>3. off1[1] = off[1]
      BY <1>3, <1>13
    <3>4. QED
      BY <3>1, <3>2, <3>3 DEF Stands
  <2>2. ASSUME NEW j \in 1 .. Len(pending')
        PROVE  Stands(off1, log', pos' + j, pending'[j])
    <3>1. j \in 1 .. 1 + r.count /\ pos' = pos /\ pending' = Cells(r) /\ pos + j > 3
      BY <1>2, <1>9, <1>15
    <3>2. ASSUME NEW k \in 1 .. Len(log')
          PROVE  /\ pos + j = off1[k] + 1 => Cells(r)[j] = RecordHeader(log'[k])
                 /\ off1[k] + 1 < pos + j /\ pos + j <= off1[k + 1]
                      => Cells(r)[j] = StackOf(log'[k])
      <4>1. CASE k = Len(log) + 1
        <5>1. off1[k] = pos /\ log'[k] = r
          BY <1>3, <1>8, <1>11, <1>13, <4>1
        <5>2. pos + j = pos + 1 => j = 1
          BY <1>11, <3>1
        <5>3. pos + 1 < pos + j => j \in 2 .. 1 + r.count
          BY <1>5, <1>11, <3>1
        <5>4. QED
          BY <1>9, <5>1, <5>2, <5>3
      <4>2. CASE k # Len(log) + 1
        <5>1. k \in 1 .. Len(log) /\ k \in 1 .. Len(log) + 1 /\ k + 1 \in 1 .. Len(log) + 1
          BY <1>3, <1>8, <4>2
        <5>2. off1[k] = off[k] /\ off1[k + 1] = off[k + 1]
          BY <1>13, <5>1
        <5>3. off[k] < pos /\ off[k + 1] <= pos /\ off[k] \in Nat /\ off[k + 1] \in Nat
          BY <1>12, <5>1
        <5>4. j \in Nat /\ j >= 1 /\ pos \in Nat
          BY <1>5, <1>11, <3>1
        <5>5. ~(pos + j = off1[k] + 1) /\ ~(pos + j <= off1[k + 1])
          BY <5>2, <5>3, <5>4
        <5>6. QED
          BY <5>5
      <4>3. QED
        BY <4>1, <4>2
    <3>3. ~(pos + j <= HeaderFields)
      BY <1>5, <1>11, <3>1 DEF HeaderFields
    <3>6. ~(pos + j <= off1[1])
      <4>1. off1[1] = off[1] /\ off[1] = 3 + m
        BY <1>3, <1>12, <1>13
      <4>2. j \in Nat /\ j >= 1
        BY <1>5, <3>1
      <4>3. QED
        BY <1>11, <4>1, <4>2
    <3>4. Stands(off1, log', pos + j, Cells(r)[j])
      BY <3>2, <3>3, <3>6 DEF Stands
    <3>5. QED
      BY <3>1, <3>4
  <2>3. ASSUME NEW k \in 1 .. Len(log') PROVE log'[k].tstart = k
    <3>1. CASE k = Len(log) + 1
      BY <1>5, <1>8, <3>1
    <3>2. CASE k # Len(log) + 1
      <4>1. k \in 1 .. Len(log)
        BY <1>3, <1>8, <3>2
      <4>2. QED
        BY <1>8, <1>10, <4>1 DEF Contents
    <3>3. QED
      BY <3>1, <3>2
  <2>4. \A j \in 1 .. Len(file') : top < j => file'[j] = Arg
    BY <1>2, <1>10 DEF Contents
  <2>5. QED
    BY <2>1, <2>2, <2>3, <2>4 DEF Contents
<1>20. CommandLine(m)'
  BY <1>2, <1>7, <1>10, <1>11, <1>15 DEF CommandLine
<1>21. Laid(off1, m, top)'
  BY <1>17, <1>18, <1>19, <1>20 DEF Laid
<1>22. QED
  BY <1>2, <1>21

LEMMA WriteRecordGap ==
  ASSUME NEW m, NEW i, TraceType, Counts, Gap(m, i), WriteRecord
  PROVE  TraceType' /\ Counts' /\ Gap(m, i)'
<1>1. Ready /\ state = "running"
  BY DEF WriteRecord, Ready
<1>2. HeaderThere(m)
  BY <1>1, GapHeader
<1>3. PICK r \in Rec :
        /\ pending' = Cells(r) /\ log' = Append(log, r)
        /\ file' = file /\ pos' = pos /\ state' = state
        /\ writer'.opened = writer.opened /\ writer'.stats = writer.stats
        /\ TraceType' /\ Counts'
  BY <1>2, WriteRecordCounts
<1>4. pos \in Nat /\ pos >= 3 /\ log \in Seq(Rec)
  BY <1>2 DEF TraceType, HeaderThere
<1>5. log' # <<>>
  BY <1>3, <1>4
<1>6. Cells(r) \in Seq(Cell)
  BY CellsOf
<1>7. \A j \in 1 .. Len(pending') : pos' + j > 3
  BY <1>3, <1>4, <1>6
<1>8. pos' >= i
  BY <1>1, <1>3 DEF Gap
<1>9. \A j \in 1 .. Len(pending') : ~(pos' + j <= HeaderFields) /\ pos' + j # 3
  <2>1. \A j \in 1 .. Len(pending') : pos' + j \in Nat
    BY <1>3, <1>4, <1>6
  <2>2. QED
    BY <1>7, <2>1 DEF HeaderFields
<1>10. Gap(m, i)'
  BY <1>1, <1>3, <1>5, <1>8, <1>9 DEF Gap
<1>11. QED
  BY <1>3, <1>10

\* The fork handlers, the end of the destructor and a kill.
LEMMA CloseFileKeeps ==
  ASSUME TraceType, Counts, CloseFile
  PROVE  /\ TraceType' /\ Counts'
         /\ \A off, m, top : Laid(off, m, top) => Laid(off, m, top)'
         /\ \A m, i : Gap(m, i) => Gap(m, i)'
<1>1. /\ writer' = [writer EXCEPT !.opened = FALSE, !.stats = NewStats]
      /\ file' = file /\ pos' = pos /\ pending' = pending /\ state' = state /\ log' = log
  BY DEF CloseFile
<1>2. NewStats \in Stats
  BY PlainTraceAssumption DEF NewStats, Stats
<1>3. /\ ~writer'.opened /\ writer'.nRecords = writer.nRecords
      /\ writer'.maxDepth = writer.maxDepth
      /\ writer' \in [opened : BOOLEAN, nRecords : Nat, maxDepth : Nat, stats : Stats]
  BY <1>1, <1>2 DEF TraceType
<1>4. TraceType'
  BY <1>1, <1>3 DEF TraceType
<1>5. Counts'
  BY <1>1, <1>3 DEF Counts
<1>6. ASSUME NEW off, NEW m, NEW top, Laid(off, m, top) PROVE Laid(off, m, top)'
  BY <1>1, <1>3, <1>6 DEF Laid, Offsets, Lengths, Contents, Stands, CommandLine
<1>7. ASSUME NEW m, NEW i, Gap(m, i) PROVE Gap(m, i)'
  BY <1>1, <1>3, <1>7 DEF Gap
<1>8. QED
  BY <1>4, <1>5, <1>6, <1>7

\* The statistics come back from the file.
LEMMA ReopenFileCounts ==
  ASSUME NEW m, TraceType, Counts, HeaderThere(m), ReopenFile
  PROVE  /\ TraceType' /\ Counts'
         /\ writer'.stats.cmdLength = m
<1>1. /\ writer' = [writer EXCEPT !.opened = TRUE, !.stats = ReadStats(file)]
      /\ pos' = Len(file) /\ state = "running" /\ pending = <<>>
      /\ file' = file /\ pending' = pending /\ state' = state /\ log' = log
  BY DEF ReopenFile, Ready
<1>2. /\ Len(file) >= 3 /\ Len(file) \in Nat /\ file[3].value = m
      /\ \A j \in 1 .. 3 : file[j].value \in Nat
  BY DEF HeaderThere, TraceType, FieldCells
<1>3. file[1].value = 0
  BY <1>1, <1>2 DEF Counts
<1>4. /\ ReadStats(file) \in Stats /\ ReadStats(file).numRecords = 0
      /\ ReadStats(file).cmdLength = m
  BY <1>2, <1>3 DEF ReadStats, FieldOf, Stats
<1>5. /\ writer'.opened /\ writer'.nRecords = writer.nRecords
      /\ writer'.maxDepth = writer.maxDepth /\ writer'.stats = ReadStats(file)
      /\ writer' \in [opened : BOOLEAN, nRecords : Nat, maxDepth : Nat, stats : Stats]
  BY <1>1, <1>4 DEF TraceType
<1>6. TraceType'
  BY <1>1, <1>2, <1>5 DEF TraceType
<1>7. Counts'
  BY <1>1, <1>2, <1>4, <1>5 DEF Counts
<1>8. QED
  BY <1>4, <1>5, <1>6, <1>7

\* If something is left of a longer command line, the offset is now behind it.
LEMMA ReopenFileKeeps ==
  ASSUME NEW off, NEW m, NEW top, TraceType, Counts, Laid(off, m, top), ReopenFile
  PROVE  /\ TraceType' /\ Counts'
         /\ Laid(off, m, top)' \/ Gap(m, Len(file))'
<1>1. /\ pos' = Len(file) /\ Ready /\ state = "running" /\ pending = <<>>
      /\ file' = file /\ pending' = pending /\ state' = state /\ log' = log
  BY DEF ReopenFile, Ready
<1>2. HeaderThere(m)
  BY <1>1, LaidHeader
<1>3. TraceType' /\ Counts' /\ writer'.stats.cmdLength = m
  BY <1>2, ReopenFileCounts
<1>4. /\ pos = top /\ top = off[Len(log) + 1] /\ top <= Len(file)
      /\ pos >= 3 + m /\ m \in Nat /\ pos \in Nat /\ Len(pending) = 0
      /\ Len(file) \in Nat
  BY <1>1, AtEnd DEF TraceType
<1>5. CASE top = Len(file)
  <2>1. pos' = pos
    BY <1>1, <1>4, <1>5
  <2>2. Laid(off, m, top)'
    BY <1>1, <1>3, <2>1 DEF Laid, Offsets, Lengths, Contents, Stands, CommandLine
  <2>3. QED
    BY <1>3, <2>2
<1>6. CASE top # Len(file)
  <2>1. PICK i \in Nat : i = Len(file)
    BY <1>4
  <2>2. i > 3 + m /\ top < i /\ i \in 1 .. Len(file)
    BY <1>4, <1>6, <2>1
  <2>3. file[i] = Arg
    BY <2>2 DEF Laid, Contents
  <2>4. ASSUME log = <<>>, NEW j \in 1 .. Len(file), j > HeaderFields
        PROVE  file[j] = Arg
    <3>1. CASE j <= top
      <4>1. j \in 1 .. top /\ j <= off[1]
        BY <1>4, <2>4, <3>1
      <4>2. QED
        BY <2>4, <4>1 DEF Laid, Contents, Stands
    <3>2. CASE ~(j <= top)
      <4>1. top < j
        BY <1>4, <3>2
      <4>2. QED
        BY <4>1 DEF Laid, Contents
    <3>3. QED
      BY <3>1, <3>2
  <2>5. \A j \in 1 .. Len(pending') : FALSE
    BY <1>1, <1>4
  <2>6. Gap(m, i)'
    BY <1>1, <1>2, <1>3, <1>4, <2>1, <2>2, <2>3, <2>4, <2>5
       DEF Gap, HeaderThere, HeaderFields
  <2>7. QED
    BY <1>1, <1>3, <2>1, <2>6
<1>7. QED
  BY <1>5, <1>6

LEMMA ReopenFileGap ==
  ASSUME NEW m, NEW i, TraceType, Counts, Gap(m, i), ReopenFile
  PROVE  TraceType' /\ Counts' /\ Gap(m, i)'
<1>1. /\ pos' = Len(file) /\ Ready /\ state = "running" /\ pending = <<>>
      /\ file' = file /\ pending' = pending /\ state' = state /\ log' = log
  BY DEF ReopenFile, Ready
<1>2. HeaderThere(m)
  BY <1>1, GapHeader
<1>3. TraceType' /\ Counts' /\ writer'.stats.cmdLength = m
  BY <1>2, ReopenFileCounts
<1>4. pos' >= i
  BY <1>1 DEF Gap
<1>5. Gap(m, i)'
  BY <1>1, <1>3, <1>4 DEF Gap
<1>6. QED
  BY <1>3, <1>5

LEMMA EndKeeps ==
  ASSUME TraceType, Counts, End
  PROVE  /\ TraceType' /\ Counts'
         /\ \A off, m, top : Laid(off, m, top) => Laid(off, m, top)'
         /\ \A m, i : Gap(m, i) => Gap(m, i)'
<1>1. /\ writer' = [writer EXCEPT !.opened = FALSE]
      /\ state = "ending" /\ state' = "ended" /\ pending = <<>> /\ Len(pending) = 0
      /\ file' = file /\ pos' = pos /\ pending' = pending /\ log' = log
  BY DEF End
<1>2. /\ ~writer'.opened /\ writer'.nRecords = writer.nRecords
      /\ writer'.maxDepth = writer.maxDepth
      /\ writer' \in [opened : BOOLEAN, nRecords : Nat, maxDepth : Nat, stats : Stats]
      /\ pos \in Nat
  BY <1>1 DEF TraceType
<1>3. TraceType'
  BY <1>1, <1>2 DEF TraceType
<1>4. Counts'
  BY <1>1, <1>2 DEF Counts
<1>5. ASSUME NEW off, NEW m, NEW top, Laid(off, m, top) PROVE Laid(off, m, top)'
  <2>1. pos = off[1]
    <3>1. off[1] \in Nat
      BY <1>5, OffsetsAt DEF Laid
    <3>2. QED
      BY <1>1, <1>2, <1>5, <3>1 DEF Laid, Lengths
  <2>2. QED
    BY <1>1, <1>2, <1>5, <2>1 DEF Laid, Offsets, Lengths, Contents, Stands, CommandLine
<1>6. ASSUME NEW m, NEW i, Gap(m, i) PROVE Gap(m, i)'
  <2>1. pos = HeaderFields + m
    BY <1>1, <1>2, <1>6 DEF Gap, HeaderFields
  <2>2. QED
    BY <1>1, <1>2, <1>6, <2>1 DEF Gap
<1>7. QED
  BY <1>3, <1>4, <1>5, <1>6

LEMMA KillKeeps ==
  ASSUME TraceType, Counts, Kill
  PROVE  /\ TraceType' /\ Counts'
         /\ \A off, m, top : Laid(off, m, top) => Laid(off, m, top)'
         /\ \A m, i : Gap(m, i) => Gap(m, i)'
<1>1. /\ state' = "killed" /\ writer' = writer
      /\ file' = file /\ pos' = pos /\ pending' = pending /\ log' = log
  BY DEF Kill
<1>2. TraceType' /\ Counts'
  BY <1>1 DEF TraceType, Counts
<1>3. ASSUME NEW off, NEW m, NEW top, Laid(off, m, top) PROVE Laid(off, m, top)'
  BY <1>1, <1>3 DEF Laid, Offsets, Lengths, Contents, Stands, CommandLine
<1>4. ASSUME NEW m, NEW i, Gap(m, i) PROVE Gap(m, i)'
  BY <1>1, <1>4 DEF Gap
<1>5. QED
  BY <1>2, <1>3, <1>4

LEMMA StutterKeeps ==
  ASSUME TraceType, Counts, UNCHANGED traceVars
  PROVE  /\ TraceType' /\ Counts'
         /\ \A off, m, top : Laid(off, m, top) => Laid(off, m, top)'
         /\ \A m, i : Gap(m, i) => Gap(m, i)'
<1>1. TraceType' /\ Counts'
  BY DEF traceVars, TraceType, Counts
<1>2. ASSUME NEW off, NEW m, NEW top, Laid(off, m, top) PROVE Laid(off, m, top)'
  BY <1>2 DEF traceVars, Laid, Offsets, Lengths, Contents, Stands, CommandLine
<1>3. ASSUME NEW m, NEW i, Gap(m, i) PROVE Gap(m, i)'
  BY <1>3 DEF traceVars, Gap
<1>4. QED
  BY <1>1, <1>2, <1>3

LEMMA StepKeeps ==
  ASSUME TraceInv, TraceNext \/ UNCHANGED traceVars
  PROVE  TraceInv'
<1>1. TraceType /\ Counts
  BY DEF TraceInv
<1>2. CASE \E off, m, top : Laid(off, m, top)
  <2>1. PICK off, m, top : Laid(off, m, top)
    BY <1>2
  <2>2. CASE WriteCell
    BY <1>1, <2>1, <2>2, WriteCellCounts, WriteCellKeeps DEF TraceInv
  <2>3. CASE WriteRecord
    BY <1>1, <2>1, <2>3, WriteRecordKeeps DEF TraceInv
  <2>4. CASE UpdateStats
    BY <1>1, <2>1, <2>4, UpdateStatsLaid DEF TraceInv
  <2>5. CASE CloseFile
    BY <1>1, <2>1, <2>5, CloseFileKeeps DEF TraceInv
  <2>6. CASE ReopenFile
    <3>1. TraceType' /\ Counts' /\ (Laid(off, m, top)' \/ Gap(m, Len(file))')
      BY <1>1, <2>1, <2>6, ReopenFileKeeps
    <3>2. PICK n : n = Len(file)
      OBVIOUS
    <3>3. Len(file') = n
      BY <2>6, <3>2 DEF ReopenFile
    <3>4. Laid(off, m, top)' \/ Gap(m, n)'
      BY <3>1, <3>2, <3>3
    <3>5. QED
      BY <3>1, <3>4 DEF TraceInv
  <2>7. CASE BeginEnd
    BY <1>1, <2>1, <2>7, BeginEndKeeps DEF TraceInv
  <2>8. CASE End
    BY <1>1, <2>1, <2>8, EndKeeps DEF TraceInv
  <2>9. CASE Kill
    BY <1>1, <2>1, <2>9, KillKeeps DEF TraceInv
  <2>10. CASE UNCHANGED traceVars
    BY <1>1, <2>1, <2>10, StutterKeeps DEF TraceInv
  <2>11. QED
    BY <2>2, <2>3, <2>4, <2>5, <2>6, <2>7, <2>8, <2>9, <2>10 DEF TraceNext
<1>3. CASE \E m, i : Gap(m, i)
  <2>1. PICK m, i : Gap(m, i)
    BY <1>3
  <2>2. CASE WriteCell
    BY <1>1, <2>1, <2>2, WriteCellCounts, WriteCellGap DEF TraceInv
  <2>3. CASE WriteRecord
    BY <1>1, <2>1, <2>3, WriteRecordGap DEF TraceInv
  <2>4. CASE UpdateStats
    BY <1>1, <2>1, <2>4, UpdateStatsGap DEF TraceInv
  <2>5. CASE CloseFile
    BY <1>1, <2>1, <2>5, CloseFileKeeps DEF TraceInv
  <2>6. CASE ReopenFile
    BY <1>1, <2>1, <2>6, ReopenFileGap DEF TraceInv
  <2>7. CASE BeginEnd
    BY <1>1, <2>1, <2>7, BeginEndGap DEF TraceInv
  <2>8. CASE End
    BY <1>1, <2>1, <2>8, EndKeeps DEF TraceInv
  <2>9. CASE Kill
    BY <1>1, <2>1, <2>9, KillKeeps DEF TraceInv
  <2>10. CASE UNCHANGED traceVars
    BY <1>1, <2>1, <2>10, StutterKeeps DEF TraceInv
  <2>11. QED
    BY <2>2, <2>3, <2>4, <2>5, <2>6, <2>7, <2>8, <2>9, <2>10 DEF TraceNext
<1>4. QED
  BY <1>2, <1>3 DEF TraceInv

LEMMA FileLaid == Spec => []TraceInv
<1>1. Init => TraceInv
  BY InitKeeps DEF Init
<1>2. TraceInv /\ [Next]_vars => TraceInv'
  <2>1. [Next]_vars => TraceNext \/ UNCHANGED traceVars
    BY DEF Next, vars, Trace, OpenMallocFile, CloseMallocFile, NoFinder,
           GetAllocations, GetObjectValidity, Terminated
  <2>2. QED
    BY <2>1, StepKeeps
<1>3. QED
  BY <1>1, <1>2, PTL DEF Spec

-----------------------------------------------------------------------------
(* The loop of Reader *)

LEMMA LeastNat ==
  ASSUME NEW S, S \subseteq Nat, S # {}
  PROVE  \E x \in S : \A y \in S : x <= y
<1> DEFINE R == OpToRel(<, Nat)
<1>1. PICK x \in S : \A y \in S : ~(<<y, x>> \in R)
  <2>1. IsWellFoundedOn(R, Nat)
    BY NatLessThanWellFounded
  <2> HIDE DEF R
  <2>2. QED
    BY <2>1, WFMin
<1>2. ASSUME NEW y \in S PROVE x <= y
  <2>1. x \in Nat /\ y \in Nat
    OBVIOUS
  <2>2. y < x => <<y, x>> \in R
    BY <2>1 DEF OpToRel
  <2> HIDE DEF R
  <2>3. ~(y < x)
    BY <1>1, <2>2
  <2>4. QED
    BY <2>1, <2>3
<1>3. QED
  BY <1>2

LEMMA MinOfTwo ==
  ASSUME NEW a \in Nat, NEW b \in Nat
  PROVE  Min({a, b}) = IF a <= b THEN a ELSE b
<1> DEFINE x == IF a <= b THEN a ELSE b
<1>1. x \in {a, b} /\ \A y \in {a, b} : x <= y
  OBVIOUS
<1>2. \A z \in {a, b} : (\A y \in {a, b} : z <= y) => z = x
  OBVIOUS
<1> HIDE DEF x
<1>3. Min({a, b}) = x
  BY <1>1, <1>2 DEF Min
<1>4. QED
  BY <1>3 DEF x

\* s holds the positions of the first n turns in the file f.
Scan(s, f, n) ==
  s = [k \in 0 .. n |->
         IF k = 0 THEN FirstRecord(f)
         ELSE LET h == s[k - 1] IN IF h < Len(f) THEN NextHeader(f, h) ELSE h]

LEMMA ScanExists ==
  ASSUME NEW f, NEW n \in Nat
  PROVE  \E s : Scan(s, f, n)
<1> DEFINE Bad == {k \in Nat : ~\E s : Scan(s, f, k)}
<1>1. ASSUME Bad # {} PROVE FALSE
  <2>0. Bad \subseteq Nat
    OBVIOUS
  <2>1. PICK k \in Bad : \A j \in Bad : k <= j
    <3> HIDE DEF Bad
    <3>1. QED
      BY <1>1, <2>0, LeastNat
  <2>2. k # 0
    <3>1. Scan([j \in 0 .. 0 |-> FirstRecord(f)], f, 0)
      BY DEF Scan
    <3>2. QED
      BY <3>1
  <2>3. k - 1 \in Nat /\ k - 1 < k /\ k \in Nat
    BY <2>2
  <2>4. PICK s : Scan(s, f, k - 1)
    BY <2>1, <2>3
  <2> DEFINE next(h) == IF h < Len(f) THEN NextHeader(f, h) ELSE h
             t == [j \in 0 .. k |-> IF j = k THEN next(s[k - 1]) ELSE s[j]]
  <2>5. ASSUME NEW j \in 0 .. k
        PROVE  t[j] = IF j = 0 THEN FirstRecord(f) ELSE next(t[j - 1])
    <3> HIDE DEF next
    <3>1. CASE j = k
      BY <3>1, <2>2, <2>3
    <3>2. CASE j # k
      <4>1. j \in 0 .. k - 1 /\ t[j] = s[j]
        BY <2>3, <3>2
      <4>2. j # 0 => t[j - 1] = s[j - 1]
        BY <2>3, <4>1
      <4>3. s[j] = IF j = 0 THEN FirstRecord(f) ELSE next(s[j - 1])
        BY <2>4, <4>1 DEF Scan, next
      <4>4. QED
        BY <4>1, <4>2, <4>3
    <3>3. QED
      BY <3>1, <3>2
  <2>6. t = [j \in 0 .. k |-> IF j = 0 THEN FirstRecord(f) ELSE next(t[j - 1])]
    <3> HIDE DEF next
    <3>1. QED
      BY <2>5
  <2>7. Scan(t, f, k)
    BY <2>6 DEF Scan
  <2>8. QED
    BY <2>7
<1>2. QED
  BY <1>1

\* The headers are found if each one leads to the next and none lies behind
\* the file.
LEMMA StartsAre ==
  ASSUME NEW f \in Seq(Cell), NEW n \in Nat, NEW off,
         \A k \in 1 .. n + 1 : off[k] \in Nat,
         \A k, l \in 1 .. n + 1 : k < l => off[k] < off[l],
         off[1] = FirstRecord(f),
         \A k \in 1 .. n : off[k] < Len(f) /\ off[k + 1] = NextHeader(f, off[k]),
         off[n + 1] >= Len(f)
  PROVE  Starts(f) = [k \in 1 .. n |-> off[k]]
<1> DEFINE s == CHOOSE s : Scan(s, f, Len(f))
<1>1. Len(f) \in Nat
  OBVIOUS
<1>2. Scan(s, f, Len(f))
  BY <1>1, ScanExists
<1>3. Starts(f) = [k \in 1 .. Cardinality({j \in 0 .. Len(f) : s[j] < Len(f)}) |-> s[k - 1]]
  BY DEF Starts, Scan
<1> HIDE DEF s
<1>4. \A k \in 0 .. Len(f) : s[k] = off[IF k <= n THEN k + 1 ELSE n + 1]
  <2> DEFINE Bad == {k \in 0 .. Len(f) : s[k] # off[IF k <= n THEN k + 1 ELSE n + 1]}
  <2>1. ASSUME Bad # {} PROVE FALSE
    <3>0. Bad \subseteq Nat
      OBVIOUS
    <3>1. PICK k \in Bad : \A j \in Bad : k <= j
      <4> HIDE DEF Bad
      <4>1. QED
        BY <2>1, <3>0, LeastNat
    <3>2. s[0] = off[1]
      BY <1>1, <1>2 DEF Scan
    <3>3. k # 0
      BY <3>2
    <3>4. k - 1 \in 0 .. Len(f) /\ k - 1 < k /\ k \in 1 .. Len(f)
      BY <1>1, <3>3
    <3>5. s[k - 1] = off[IF k - 1 <= n THEN (k - 1) + 1 ELSE n + 1]
      BY <3>1, <3>4
    <3>6. s[k] = IF s[k - 1] < Len(f) THEN NextHeader(f, s[k - 1]) ELSE s[k - 1]
      BY <1>2, <3>4 DEF Scan
    <3>7. CASE k <= n
      <4>1. s[k - 1] = off[k] /\ k \in 1 .. n
        BY <3>4, <3>5, <3>7
      <4>2. s[k] = off[k + 1]
        BY <3>6, <4>1
      <4>3. QED
        BY <3>7, <4>2
    <3>8. CASE ~(k <= n)
      <4>1. s[k - 1] = off[n + 1]
        <5>1. CASE k - 1 <= n
          <6>1. k - 1 = n
            BY <3>4, <3>8, <5>1
          <6>2. QED
            BY <3>5, <6>1
        <5>2. CASE ~(k - 1 <= n)
          BY <3>5, <5>2
        <5>3. QED
          BY <5>1, <5>2
      <4>2. off[n + 1] \in Nat /\ ~(off[n + 1] < Len(f))
        BY <1>1
      <4>3. s[k] = off[n + 1]
        BY <3>6, <4>1, <4>2
      <4>4. QED
        BY <3>8, <4>3
    <3>9. QED
      BY <3>7, <3>8
  <2>2. QED
    BY <2>1
<1>5. \A k \in 1 .. n + 1 : off[k] >= k - 1
  <2> DEFINE Bad == {k \in 1 .. n + 1 : ~(off[k] >= k - 1)}
  <2>1. ASSUME Bad # {} PROVE FALSE
    <3>0. Bad \subseteq Nat
      OBVIOUS
    <3>1. PICK k \in Bad : \A j \in Bad : k <= j
      <4> HIDE DEF Bad
      <4>1. QED
        BY <2>1, <3>0, LeastNat
    <3>2. k # 1
      <4>1. 1 \in 1 .. n + 1 /\ off[1] \in Nat
        OBVIOUS
      <4>2. QED
        BY <4>1
    <3>3. k - 1 \in 1 .. n + 1 /\ k - 1 < k /\ k \in 1 .. n + 1
      BY <3>2
    <3>4. off[k - 1] >= (k - 1) - 1 /\ off[k - 1] < off[k]
      BY <3>1, <3>3
    <3>5. off[k] \in Nat /\ off[k - 1] \in Nat
      BY <3>3
    <3>6. off[k] >= k - 1
      BY <3>3, <3>4, <3>5
    <3>7. QED
      BY <3>6
  <2>2. QED
    BY <2>1
<1>6. n <= Len(f)
  <2>1. CASE n = 0
    BY <1>1, <2>1
  <2>2. CASE n # 0
    <3>1. n \in 1 .. n /\ n \in 1 .. n + 1
      BY <2>2
    <3>2. off[n] < Len(f) /\ off[n] >= n - 1 /\ off[n] \in Nat
      BY <1>5, <3>1
    <3>3. QED
      BY <1>1, <3>2
  <2>3. QED
    BY <2>1, <2>2
<1>7. {j \in 0 .. Len(f) : s[j] < Len(f)} = 0 .. n - 1
  <2>1. ASSUME NEW j \in 0 .. Len(f), s[j] < Len(f) PROVE j \in 0 .. n - 1
    <3>1. ASSUME j >= n PROVE FALSE
      <4>1. (IF j <= n THEN j + 1 ELSE n + 1) = n + 1
        BY <3>1
      <4>2. s[j] = off[n + 1]
        BY <1>4, <4>1
      <4>3. off[n + 1] \in Nat
        OBVIOUS
      <4>4. QED
        BY <1>1, <2>1, <4>2, <4>3
    <3>2. QED
      BY <3>1
  <2>2. ASSUME NEW j \in 0 .. n - 1 PROVE j \in 0 .. Len(f) /\ s[j] < Len(f)
    <3>1. j \in 0 .. Len(f) /\ j <= n /\ j + 1 \in 1 .. n
      BY <1>1, <1>6
    <3>2. s[j] = off[j + 1]
      BY <1>4, <3>1
    <3>3. QED
      BY <3>1, <3>2
  <2>3. QED
    BY <2>1, <2>2
<1>8. Cardinality(0 .. n - 1) = n
  BY FS_Interval
<1>9. \A k \in 1 .. n : s[k - 1] = off[k]
  <2>1. SUFFICES ASSUME NEW k \in 1 .. n PROVE s[k - 1] = off[k]
    OBVIOUS
  <2>2. k - 1 \in 0 .. Len(f) /\ k - 1 <= n /\ (k - 1) + 1 = k
    BY <1>1, <1>6
  <2>3. QED
    BY <1>4, <2>2
<1>10. QED
  BY <1>3, <1>7, <1>8, <1>9

\* What is left of a longer command line is all covered: then the first top
\* cells are all of the file, or no record is expected yet.
LEMMA AllCovered ==
  ASSUME NEW off, NEW m, NEW top, TraceType, Laid(off, m, top), Stale(file) = {}
  PROVE  /\ Len(log) > 0 => top = Len(file)
         /\ Len(log) = 0 => Len(file) <= 3 + FieldOf(file, 3)
<1>1. Offsets(off, m) /\ Lengths(off, top) /\ Contents(off, top) /\ CommandLine(m)
  BY DEF Laid
<1>2. /\ Len(log) \in Nat /\ m \in Nat /\ off[1] = 3 + m /\ off[1] \in Nat
      /\ Len(file) \in Nat /\ top \in Nat /\ top <= Len(file)
  BY <1>1, OffsetsAt DEF TraceType, Lengths
<1>3. \A j \in 1 .. Len(file) : j > 3 + FieldOf(file, 3) => file[j] # Arg
  <2>1. DOMAIN file = 1 .. Len(file)
    BY DEF TraceType
  <2>2. QED
    BY <2>1 DEF Stale, ReadStats, HeaderFields
<1>4. ASSUME Len(log) > 0, top # Len(file) PROVE FALSE
  <2>0. log # <<>>
    BY <1>4
  <2>1. top >= off[1]
    BY <1>1, <1>4 DEF Lengths
  <2>2. PICK j \in Nat : j = top + 1
    BY <1>2
  <2>3. j \in 1 .. Len(file) /\ top < j /\ j > 3 + m /\ Len(file) >= 3
    BY <1>2, <1>4, <2>1, <2>2
  <2>4. file[j] = Arg
    BY <1>1, <2>3 DEF Contents
  <2>5. FieldOf(file, 3) = m
    BY <1>1, <2>0, <2>3 DEF CommandLine, FieldOf
  <2>6. QED
    BY <1>3, <2>3, <2>4, <2>5
<1>5. ASSUME Len(log) = 0, ~(Len(file) <= 3 + FieldOf(file, 3)) PROVE FALSE
  <2>0. Len(log) + 1 = 1
    BY <1>5
  <2>1. /\ top <= off[1] /\ (top = Len(file) \/ top >= 3)
    BY <1>1, <2>0 DEF Lengths, HeaderFields
  <2>2. FieldOf(file, 3) \in Nat
    <3>1. CASE Len(file) < 3
      BY <1>2, <3>1 DEF FieldOf
    <3>2. CASE ~(Len(file) < 3)
      <4>1. 3 \in 1 .. top /\ 3 <= HeaderFields /\ 3 <= Len(file)
        BY <1>2, <2>1, <3>2 DEF HeaderFields
      <4>2. file[3] \in FieldCells
        BY <1>1, <4>1 DEF Contents, Stands
      <4>3. QED
        BY <4>1, <4>2 DEF FieldOf, FieldCells
    <3>3. QED
      BY <3>1, <3>2
  <2>3. PICK j \in Nat : j = Len(file)
    BY <1>2
  <2>4. j \in 1 .. Len(file) /\ j > 3 + FieldOf(file, 3) /\ j > 3
    BY <1>2, <1>5, <2>2, <2>3
  <2>5. file[j] = Arg
    <3>1. CASE j <= top
      <4>1. j \in 1 .. top /\ HeaderFields < j /\ j <= off[1]
        BY <1>2, <2>1, <2>4, <3>1 DEF HeaderFields
      <4>2. QED
        BY <1>1, <4>1 DEF Contents, Stands
    <3>2. CASE ~(j <= top)
      <4>1. top < j
        BY <1>2, <2>4, <3>2
      <4>2. QED
        BY <1>1, <2>4, <4>1 DEF Contents
    <3>3. QED
      BY <3>1, <3>2
  <2>6. QED
    BY <1>3, <2>4, <2>5
<1>6. QED
  BY <1>4, <1>5

\* In a gap there is always something left.
LEMMA GapIsStale ==
  ASSUME NEW m, NEW i, TraceType, Gap(m, i)
  PROVE  Stale(file) # {}
<1>1. Len(file) \in Nat /\ DOMAIN file = 1 .. Len(file)
  BY DEF TraceType
<1>2. m \in Nat /\ i \in Nat /\ i > 3 + m /\ i <= Len(file) /\ file[i] = Arg
  BY DEF Gap, HeaderFields
<1>3. Len(file) >= 3 /\ i \in 1 .. Len(file)
  BY <1>1, <1>2
<1>4. FieldOf(file, 3) = m
  BY <1>3 DEF FieldOf, Gap
<1>5. QED
  BY <1>1, <1>2, <1>3, <1>4 DEF Stale, ReadStats, HeaderFields

\* All that is used of the loop: it stops at the headers of the records whose
\* header is in the file, all but the last one at least.
LEMMA FileStarts ==
  ASSUME NEW off, NEW m, NEW top, TraceType, Laid(off, m, top), Stale(file) = {}
  PROVE  \E n \in Nat :
           /\ n <= Len(log) /\ Len(log) <= n + 1
           /\ top = off[Len(log) + 1] => n = Len(log)
           /\ Starts(file) = [k \in 1 .. n |-> off[k]]
           /\ \A k \in 1 .. n : off[k] < Len(file) /\ file[off[k] + 1] = RecordHeader(log[k])
<1>1. Offsets(off, m) /\ Lengths(off, top) /\ Contents(off, top) /\ CommandLine(m)
  BY DEF Laid
<1>2. /\ Len(log) \in Nat /\ m \in Nat /\ off[1] = 3 + m
      /\ \A k \in 1 .. Len(log) + 1 : off[k] \in Nat
      /\ \A k \in 1 .. Len(log) : log[k] \in Rec /\ log[k].count \in Nat
      /\ \A k, n \in 1 .. Len(log) + 1 : k < n => off[k] < off[n]
      /\ \A k \in 1 .. Len(log) : off[k + 1] = off[k] + 1 + log[k].count
      /\ off[1] \in Nat /\ off[Len(log) + 1] \in Nat
  BY <1>1, OffsetsAt DEF Offsets
<1>3. /\ file \in Seq(Cell) /\ Len(file) \in Nat
      /\ top \in Nat /\ top <= off[Len(log) + 1]
      /\ top = Len(file) \/ top >= 3
      /\ Len(log) > 0 => top = Len(file)
      /\ Len(log) = 0 => Len(file) <= 3 + FieldOf(file, 3)
  BY <1>1, AllCovered DEF TraceType, Lengths, HeaderFields
<1>4. Len(file) >= 3 => file[3].value \in Nat
  <2>1. ASSUME Len(file) >= 3 PROVE file[3] \in FieldCells
    <3>1. 3 \in 1 .. top /\ 3 <= HeaderFields
      BY <1>3, <2>1 DEF HeaderFields
    <3>2. QED
      BY <1>1, <3>1 DEF Contents, Stands
  <2>2. QED
    BY <2>1 DEF FieldCells
<1>5. /\ FieldOf(file, 3) \in Nat
      /\ FirstRecord(file) = IF Len(file) <= 3 + FieldOf(file, 3) THEN Len(file)
                             ELSE 3 + FieldOf(file, 3)
  <2>1. FieldOf(file, 3) \in Nat
    BY <1>3, <1>4 DEF FieldOf
  <2>2. FirstRecord(file) = Min({Len(file), 3 + FieldOf(file, 3)})
    BY DEF FirstRecord, ReadStats, HeaderFields
  <2>3. QED
    BY <1>3, <2>1, <2>2, MinOfTwo
<1>6. ASSUME NEW k \in 1 .. Len(log), off[k] < Len(file)
      PROVE  /\ file[off[k] + 1] = RecordHeader(log[k])
             /\ NextHeader(file, off[k]) = off[k + 1]
  <2>0. Len(log) > 0
    BY <1>2
  <2>1. off[k] \in Nat /\ off[k] + 1 \in 1 .. top
    BY <1>2, <1>3, <1>6, <2>0
  <2>2. file[off[k] + 1] = RecordHeader(log[k])
    BY <1>1, <2>1 DEF Contents, Stands
  <2>3. RecordHeader(log[k]).kind = "record" /\ RecordHeader(log[k]).record = log[k]
    BY DEF RecordHeader
  <2>4. NextHeader(file, off[k]) = off[k] + 1 + log[k].count
    BY <2>2, <2>3 DEF NextHeader
  <2>5. QED
    BY <1>2, <2>2, <2>4
<1>7. CASE Len(log) = 0
  <2>1. FirstRecord(file) = Len(file)
    BY <1>3, <1>5, <1>7
  <2>2. PICK off0 : off0 = [k \in 1 .. 1 |-> Len(file)]
    OBVIOUS
  <2>3. off0[1] = Len(file)
    BY <2>2
  <2>4. Starts(file) = [k \in 1 .. 0 |-> off0[k]]
    BY <1>3, <2>1, <2>3, StartsAre
  <2>5. Starts(file) = [k \in 1 .. 0 |-> off[k]]
    BY <2>4
  <2>6. QED
    BY <1>7, <2>5
<1>8. CASE Len(log) > 0
  <2>1. Len(file) >= off[1] /\ Len(file) >= off[Len(log)] /\ Len(file) >= 3
    BY <1>1, <1>2, <1>3, <1>8 DEF Lengths
  <2>2. FirstRecord(file) = off[1]
    <3>1. file[3].value = m
      BY <1>1, <1>8, <2>1 DEF CommandLine
    <3>2. FieldOf(file, 3) = m
      BY <1>3, <2>1, <3>1 DEF FieldOf
    <3>3. QED
      BY <1>2, <1>3, <1>5, <2>1, <3>2
  <2>3. ASSUME NEW n \in Nat, n <= Len(log), off[n + 1] >= Len(file),
               \A k \in 1 .. n : off[k] < Len(file)
        PROVE  Starts(file) = [k \in 1 .. n |-> off[k]]
    <3>1. \A k \in 1 .. n : k \in 1 .. Len(log)
      BY <1>2, <2>3
    <3>2. \A k \in 1 .. n + 1 : k \in 1 .. Len(log) + 1
      BY <1>2, <2>3
    <3>3. \A k \in 1 .. n : off[k] < Len(file) /\ off[k + 1] = NextHeader(file, off[k])
      BY <1>6, <2>3, <3>1
    <3>4. /\ \A k \in 1 .. n + 1 : off[k] \in Nat
          /\ \A k, l \in 1 .. n + 1 : k < l => off[k] < off[l]
      BY <1>2, <3>2
    <3>5. off[1] = FirstRecord(file) /\ off[n + 1] >= Len(file)
      BY <2>2, <2>3
    <3>6. file \in Seq(Cell) /\ n \in Nat
      BY <1>3
    <3> HIDE DEF Laid
    <3>7. QED
      BY <3>3, <3>4, <3>5, <3>6, StartsAre, ZenonT(60)
  <2>4. ASSUME NEW k \in 1 .. Len(log), k < Len(log) \/ off[Len(log)] < Len(file)
        PROVE  off[k] < Len(file)
    <3>1. CASE k = Len(log)
      BY <2>4, <3>1
    <3>2. CASE k < Len(log)
      <4>1. off[k] < off[Len(log)] /\ off[k] \in Nat /\ off[Len(log)] \in Nat
        BY <1>2, <3>2
      <4>2. QED
        BY <1>3, <2>1, <4>1
    <3>3. QED
      BY <1>2, <3>1, <3>2
  <2>5. CASE off[Len(log)] < Len(file)
    <3>1. \A k \in 1 .. Len(log) : off[k] < Len(file)
      BY <2>4, <2>5
    <3>2. off[Len(log) + 1] >= Len(file)
      <4>1. top = Len(file) /\ top <= off[Len(log) + 1]
        BY <1>3, <1>8
      <4>2. QED
        BY <1>2, <1>3, <4>1
    <3>3. Starts(file) = [k \in 1 .. Len(log) |-> off[k]]
      BY <1>2, <2>3, <3>1, <3>2
    <3>4. QED
      BY <1>2, <1>6, <3>1, <3>3
  <2>6. CASE ~(off[Len(log)] < Len(file))
    <3>0. Len(log) - 1 \in Nat
      BY <1>2, <1>8
    <3>1. PICK n \in Nat : n = Len(log) - 1
      BY <3>0
    <3>2. n + 1 = Len(log) /\ Len(log) \in 1 .. Len(log) + 1
          /\ \A k \in 1 .. n : k \in 1 .. Len(log) /\ k < Len(log)
      BY <1>2, <3>1
    <3>3. off[Len(log)] \in Nat /\ Len(file) = off[n + 1] /\ off[n + 1] >= Len(file)
      BY <1>2, <1>3, <2>1, <2>6, <3>2
    <3>4. \A k \in 1 .. n : off[k] < Len(file)
      BY <2>4, <3>2
    <3>9. n <= Len(log) /\ Len(log) <= n + 1
      BY <1>2, <3>2
    <3>5. Starts(file) = [k \in 1 .. n |-> off[k]]
      BY <2>3, <3>3, <3>4, <3>9, Zenon
    <3>6. top # off[Len(log) + 1]
      <4>1. off[Len(log)] < off[Len(log) + 1]
        BY <1>2, <3>2
      <4>2. QED
        BY <1>2, <1>3, <1>8, <3>2, <3>3, <4>1
    <3>7. \A k \in 1 .. n : off[k] < Len(file) /\ file[off[k] + 1] = RecordHeader(log[k])
      BY <1>6, <3>2, <3>4
    <3>8. QED
      BY <3>5, <3>6, <3>7, <3>9
  <2>7. QED
    BY <2>5, <2>6
<1>9. QED
  BY <1>2, <1>7, <1>8

-----------------------------------------------------------------------------
(* The theorems about the trace *)

\* Found gives the headers of the records found.
LEMMA FoundAre ==
  ASSUME NEW off, NEW n \in Nat, Starts(file) = [k \in 1 .. n |-> off[k]],
         \A k \in 1 .. n : file[off[k] + 1] = RecordHeader(log[k])
  PROVE  Found(file) = [k \in 1 .. n |-> RecordHeader(log[k])]
<1>1. Len(Starts(file)) = n
  OBVIOUS
<1>2. Found(file) = [k \in 1 .. n |-> file[Starts(file)[k] + 1]]
  BY <1>1 DEF Found
<1>3. \A k \in 1 .. n : Starts(file)[k] = off[k]
  OBVIOUS
<1>4. QED
  BY <1>2, <1>3

\* A piece of a file.
LEMMA Piece ==
  ASSUME NEW f \in Seq(Cell), NEW a \in Nat, NEW c \in Nat, a + 1 + c <= Len(f)
  PROVE  /\ SubSeq(f, a + 1, a + 1 + c) \in Seq(Cell)
         /\ Len(SubSeq(f, a + 1, a + 1 + c)) = 1 + c
         /\ \A j \in 1 .. 1 + c : SubSeq(f, a + 1, a + 1 + c)[j] = f[a + j]
<1>1. PICK n \in Int : n = a + 1 + c
  OBVIOUS
<1>2. PICK b \in Int : b = a + 1
  OBVIOUS
<1>3. \A j \in b .. n : f[j] \in Cell
  BY <1>1, <1>2
<1>4. /\ SubSeq(f, b, n) \in Seq(Cell)
      /\ Len(SubSeq(f, b, n)) = IF b <= n THEN n - b + 1 ELSE 0
      /\ \A j \in 1 .. n - b + 1 : SubSeq(f, b, n)[j] = f[b + j - 1]
  BY <1>3, SubSeqProperties
<1>5. b <= n /\ n - b + 1 = 1 + c /\ \A j \in 1 .. 1 + c : b + j - 1 = a + j
  BY <1>1, <1>2
<1>6. /\ SubSeq(f, b, n) \in Seq(Cell)
      /\ Len(SubSeq(f, b, n)) = 1 + c
      /\ \A j \in 1 .. 1 + c : SubSeq(f, b, n)[j] = f[a + j]
  BY <1>4, <1>5
<1>7. QED
  BY <1>1, <1>2, <1>6

LEMMA FoundInv ==
  ASSUME TraceInv
  PROVE  RecordsFound
<1>0. SUFFICES ASSUME Stale(file) = {}
               PROVE  /\ LET found == Found(file)
                             written == [i \in 1 .. Len(log) |-> RecordHeader(log[i])]
                         IN IsPrefix(found, written) /\ Len(found) + 1 >= Len(written)
                      /\ pending = <<>> =>
                           Dump(file) = [i \in 1 .. Len(log) |-> Cells(log[i])]
  BY DEF RecordsFound
<1>2. TraceType
  BY DEF TraceInv
<1>1. PICK off, m, top : Laid(off, m, top)
  BY <1>0, <1>2, GapIsStale DEF TraceInv
<1>3. PICK n \in Nat :
        /\ n <= Len(log) /\ Len(log) <= n + 1
        /\ top = off[Len(log) + 1] => n = Len(log)
        /\ Starts(file) = [k \in 1 .. n |-> off[k]]
        /\ \A k \in 1 .. n : off[k] < Len(file) /\ file[off[k] + 1] = RecordHeader(log[k])
  BY <1>0, <1>1, <1>2, FileStarts
<1>4. Len(log) \in Nat /\ file \in Seq(Cell) /\ Len(file) \in Nat
  BY <1>2 DEF TraceType
<1> DEFINE written == [k \in 1 .. Len(log) |-> RecordHeader(log[k])]
<1>5. IsPrefix(Found(file), written) /\ Len(Found(file)) + 1 >= Len(written)
  <2>1. Found(file) = [k \in 1 .. n |-> RecordHeader(log[k])]
    BY <1>3, FoundAre
  <2>2. Len(Found(file)) = n /\ Len(written) = Len(log)
    BY <1>4, <2>1
  <2>3. SubSeq(Found(file), 1, n) = [k \in 1 .. n |-> RecordHeader(log[k])]
    BY <2>1
  <2>4. SubSeq(written, 1, n) = [k \in 1 .. n |-> RecordHeader(log[k])]
    <3>1. \A k \in 1 .. n : k \in 1 .. Len(log)
      BY <1>3, <1>4
    <3>2. QED
      BY <3>1
  <2> HIDE DEF written
  <2>5. QED
    BY <1>3, <1>4, <2>2, <2>3, <2>4 DEF IsPrefix
<1>6. ASSUME pending = <<>>
      PROVE  Dump(file) = [k \in 1 .. Len(log) |-> Cells(log[k])]
  <2>1. /\ Offsets(off, m) /\ Lengths(off, top) /\ Contents(off, top)
        /\ pos \in Nat
    BY <1>1, <1>2 DEF Laid, TraceType
  <2>2. /\ \A k \in 1 .. Len(log) + 1 : off[k] \in Nat
        /\ \A k \in 1 .. Len(log) : log[k] \in Rec /\ log[k].count \in Nat
        /\ \A k \in 1 .. Len(log) : off[k + 1] = off[k] + 1 + log[k].count
        /\ \A k \in 1 .. Len(log) : off[k + 1] <= off[Len(log) + 1]
        /\ off[Len(log) + 1] \in Nat
    BY <1>2, <2>1, OffsetsAt DEF Offsets
  <2>3. /\ top = off[Len(log) + 1] /\ n = Len(log)
        /\ Len(log) > 0 => top = Len(file)
    <3>1. Len(pending) = 0
      BY <1>6
    <3>2. top = off[Len(log) + 1]
      BY <1>4, <2>1, <2>2, <3>1 DEF Lengths
    <3>3. QED
      BY <1>0, <1>1, <1>2, <1>3, <3>2, AllCovered
  <2> DEFINE line(h) == IF file[h + 1].kind # "record" THEN file[h + 1]
                        ELSE SubSeq(file, h + 1,
                                    Min({Len(file), h + 1 + file[h + 1].record.count}))
  <2>4. ASSUME NEW k \in 1 .. Len(log)
        PROVE  line(off[k]) = Cells(log[k])
    <3>1. /\ file[off[k] + 1] = RecordHeader(log[k]) /\ off[k] < Len(file)
          /\ off[k] \in Nat /\ log[k] \in Rec /\ log[k].count \in Nat
          /\ off[k + 1] = off[k] + 1 + log[k].count /\ off[k + 1] <= Len(file)
          /\ off[k + 1] \in Nat
      <4>1. /\ k + 1 \in 1 .. Len(log) + 1 /\ k \in 1 .. Len(log) + 1
            /\ Len(file) = off[Len(log) + 1]
        BY <1>4, <2>3
      <4>2. QED
        BY <1>3, <2>2, <2>3, <4>1
    <3>2. RecordHeader(log[k]).kind = "record" /\ RecordHeader(log[k]).record = log[k]
      BY DEF RecordHeader
    <3>3. Min({Len(file), off[k] + 1 + log[k].count}) = off[k + 1]
      <4>1. Min({Len(file), off[k + 1]}) = off[k + 1]
        BY <1>4, <3>1, MinOfTwo
      <4>2. QED
        BY <3>1, <4>1
    <3>4. line(off[k]) = SubSeq(file, off[k] + 1, off[k + 1])
      BY <3>1, <3>2, <3>3
    <3>5. /\ Cells(log[k]) \in Seq(Cell) /\ Len(Cells(log[k])) = 1 + log[k].count
          /\ Cells(log[k])[1] = RecordHeader(log[k])
          /\ \A j \in 2 .. 1 + log[k].count : Cells(log[k])[j] = StackOf(log[k])
      BY <3>1, CellsOf
    <3> DEFINE t == SubSeq(file, off[k] + 1, off[k + 1])
    <3>6. /\ t \in Seq(Cell) /\ Len(t) = 1 + log[k].count
          /\ \A j \in 1 .. 1 + log[k].count : t[j] = file[off[k] + j]
      <4>1. off[k] + 1 + log[k].count <= Len(file)
        BY <3>1
      <4> DEFINE u == SubSeq(file, off[k] + 1, off[k] + 1 + log[k].count)
      <4>2. /\ u \in Seq(Cell) /\ Len(u) = 1 + log[k].count
            /\ \A j \in 1 .. 1 + log[k].count : u[j] = file[off[k] + j]
        BY <1>4, <3>1, <4>1, Piece
      <4>3. t = u
        BY <3>1
      <4> HIDE DEF t, u
      <4>4. QED
        BY <4>2, <4>3
    <3>7. ASSUME NEW j \in 1 .. 1 + log[k].count
          PROVE  file[off[k] + j] = Cells(log[k])[j]
      <4>1. CASE j = 1
        BY <3>1, <3>5, <4>1
      <4>2. CASE j # 1
        <5>1. j \in 2 .. 1 + log[k].count
          BY <3>1, <4>2
        <5>2. /\ off[k] + j \in 1 .. Len(file)
              /\ off[k] + 1 < off[k] + j /\ off[k] + j <= off[k + 1]
          <6>1. j \in Nat /\ j >= 2 /\ j <= 1 + log[k].count
            BY <3>1, <5>1
          <6>2. PICK a \in Nat, c \in Nat, e \in Nat :
                  a = off[k] /\ c = log[k].count /\ e = off[k + 1]
            BY <3>1
          <6>3. e = a + 1 + c /\ e <= Len(file) /\ j <= 1 + c
            BY <3>1, <6>1, <6>2
          <6>4. a + j \in 1 .. Len(file) /\ a + 1 < a + j /\ a + j <= e
            <7> HIDE DEF t, line, written
            <7>1. QED
              BY <1>4, <6>1, <6>3
          <6>5. QED
            BY <6>2, <6>4
        <5>3. file[off[k] + j] = StackOf(log[k])
          <6>1. off[k] + j \in 1 .. top
            BY <1>4, <2>3, <5>2
          <6>2. QED
            BY <2>1, <5>2, <6>1 DEF Contents, Stands
        <5>4. QED
          BY <3>5, <5>1, <5>3
      <4>3. QED
        BY <4>1, <4>2
    <3>8. t = Cells(log[k])
      <4> HIDE DEF t
      <4>1. Len(t) = Len(Cells(log[k])) /\ \A j \in 1 .. Len(t) : t[j] = Cells(log[k])[j]
        BY <3>1, <3>5, <3>6, <3>7
      <4>2. QED
        BY <3>5, <3>6, <4>1, SeqEqual, Zenon
    <3>9. QED
      BY <3>4, <3>8
  <2>5. Dump(file) = [k \in 1 .. Len(Starts(file)) |-> line(Starts(file)[k])]
    BY DEF Dump
  <2> HIDE DEF line
  <2>6. Len(Starts(file)) = Len(log) /\ \A k \in 1 .. Len(log) : Starts(file)[k] = off[k]
    BY <1>3, <1>4, <2>3
  <2>7. QED
    BY <2>4, <2>5, <2>6
<1>7. QED
  BY <1>5, <1>6

LEMMA HonestInv ==
  ASSUME TraceInv
  PROVE  HeaderHonest
<1>1. TraceType /\ Counts
  BY DEF TraceInv
<1>2. Len(file) \in Nat /\ Len(log) \in Nat /\ pos \in Nat /\ pos <= Len(file)
  BY <1>1 DEF TraceType
<1>3. FieldOf(file, 1) \in {0, Len(log)}
  BY <1>1, <1>2 DEF FieldOf, Counts
<1>4. ASSUME state = "ended"
      PROVE  /\ FieldOf(file, 1) = Len(log)
             /\ \A k \in 1 .. Len(log) : log[k].count <= FieldOf(file, 2)
             /\ FieldOf(file, 2) \in {0} \cup {log[k].count : k \in 1 .. Len(log)}
  <2>1. pos >= 3
    <3>1. ASSUME NEW off, NEW m, NEW top, Laid(off, m, top) PROVE pos >= 3
      <4>1. off[1] = 3 + m /\ m \in Nat
        BY <1>1, <3>1, OffsetsAt DEF Laid
      <4>2. pos = off[1]
        BY <1>4, <3>1 DEF Laid, Lengths
      <4>3. QED
        BY <4>1, <4>2
    <3>2. ASSUME NEW m, NEW i, Gap(m, i) PROVE pos >= 3
      BY <1>4, <3>2 DEF Gap, HeaderFields
    <3>3. QED
      BY <3>1, <3>2 DEF TraceInv
  <2>2. FieldOf(file, 1) = Len(log) /\ FieldOf(file, 2) = writer.maxDepth
    BY <1>1, <1>2, <1>4, <2>1 DEF Counts, FieldOf
  <2>3. QED
    BY <1>1, <2>2 DEF Counts
<1>5. ASSUME state = "ended", Stale(file) = {}
      PROVE  Len(Starts(file)) = Len(log)
  <2>1. PICK off, m, top : Laid(off, m, top)
    BY <1>1, <1>5, GapIsStale DEF TraceInv
  <2>2. /\ off[1] \in Nat /\ off[Len(log) + 1] \in Nat
        /\ off[Len(log) + 1] >= off[1]
    BY <1>1, <1>2, <2>1, OffsetsAt DEF Laid
  <2>3. /\ pos = off[1] /\ Len(pending) = 0 /\ pos <= top /\ top \in Nat
        /\ top <= off[Len(log) + 1]
        /\ \/ top = off[Len(log) + 1]
           \/ pos + Len(pending) = off[Len(log) + 1]
    BY <1>5, <2>1 DEF Laid, Lengths
  <2>4. top = off[Len(log) + 1]
    BY <1>2, <2>2, <2>3
  <2>5. PICK n \in Nat :
          /\ top = off[Len(log) + 1] => n = Len(log)
          /\ Starts(file) = [k \in 1 .. n |-> off[k]]
    BY <1>1, <1>5, <2>1, FileStarts
  <2>6. QED
    BY <2>4, <2>5
<1>6. QED
  BY <1>3, <1>4, <1>5 DEF HeaderHonest, ReadStats

\* Whenever the process is stopped, over forks, changes of the header to a
\* longer or a shorter command line, an orderly end and a kill after any write,
\* a reader finds the records the hooks have handed to the writer, and a dump
\* between two operations has them all, unless a part of a longer command line
\* that nothing has been written over stands in the file.
THEOREM RecordsAreFound == Spec => []RecordsFound
<1>1. TraceInv => RecordsFound
  BY FoundInv
<1>2. QED
  BY <1>1, FileLaid, PTL

\* The header of a plain trace counts no record or all of them, and all of them
\* after an orderly end, with the longest stack.
THEOREM PlainHeaderIsHonest == Spec => []HeaderHonest
<1>1. TraceInv => HeaderHonest
  BY HonestInv
<1>2. QED
  BY <1>1, FileLaid, PTL

-----------------------------------------------------------------------------
(* Pages *)

\* Division leaves a remainder that is smaller than the divisor.
LEMMA Division ==
  ASSUME NEW x \in Nat, NEW p \in Nat \ {0}
  PROVE  /\ x \div p \in Nat
         /\ (x \div p) * p \in Nat
         /\ (x \div p) * p <= x /\ x < (x \div p) * p + p
         /\ x % p = x - (x \div p) * p
<1>1. /\ x \div p \in Nat /\ (x \div p) * p \in Nat
      /\ x - (x \div p) * p \in 0 .. p - 1
  OBVIOUS
<1>2. x % p = x - (x \div p) * p
  OBVIOUS
<1>3. QED
  BY <1>1, <1>2

LEMMA MultiplesGrow ==
  ASSUME NEW a \in Nat, NEW b \in Nat, NEW p \in Nat \ {0}
  PROVE  /\ a <= b => a * p <= b * p
         /\ a < b => a * p + p <= b * p
<1>1. ASSUME a <= b PROVE a * p <= b * p
  <2>1. (b - a) * p >= 0
    BY <1>1
  <2>2. (b - a) * p = b * p - a * p
    OBVIOUS
  <2>3. QED
    BY <2>1, <2>2
<1>2. ASSUME a < b PROVE a * p + p <= b * p
  <2>1. (b - a - 1) * p >= 0
    BY <1>2
  <2>2. (b - a - 1) * p = b * p - a * p - p
    OBVIOUS
  <2>3. QED
    BY <2>1, <2>2
<1>3. QED
  BY <1>1, <1>2

LEMMA Quotient ==
  ASSUME NEW p \in Nat \ {0}, NEW q \in Nat, NEW x \in Nat,
         q * p <= x, x < q * p + p
  PROVE  x \div p = q
<1>1. PICK d \in Nat : d = x \div p
  BY Division
<1>2. d * p <= x /\ x < d * p + p /\ d * p \in Nat /\ q * p \in Nat
  BY <1>1, Division
<1>3. ~(d < q)
  <2>1. d < q => d * p + p <= q * p
    BY MultiplesGrow
  <2>2. QED
    BY <1>2, <2>1
<1>4. ~(q < d)
  <2>1. q < d => q * p + p <= d * p
    BY MultiplesGrow
  <2>2. QED
    BY <1>2, <2>1
<1>5. QED
  BY <1>1, <1>3, <1>4

LEMMA DivisionGrows ==
  ASSUME NEW x \in Nat, NEW y \in Nat, x <= y, NEW p \in Nat \ {0}
  PROVE  x \div p <= y \div p
<1>1. PICK d \in Nat : d = x \div p
  BY Division
<1>2. PICK e \in Nat : e = y \div p
  BY Division
<1>3. d * p <= x /\ y < e * p + p /\ d * p \in Nat /\ e * p \in Nat
  BY <1>1, <1>2, Division
<1>4. e < d => e * p + p <= d * p
  BY MultiplesGrow
<1>5. ~(e < d)
  BY <1>3, <1>4
<1>6. QED
  BY <1>1, <1>2, <1>5

\* The two addresses between which the pages of a record lie.
LEMMA PagesOf ==
  ASSUME NEW r \in Rec
  PROVE  /\ FirstPage(r) \in Nat /\ LastPage(r) \in Nat
         /\ FirstPage(r) <= r.addr /\ r.addr + r.size <= LastPage(r)
         /\ LastPage(r) # 0
         /\ \A b \in Nat : b % PageSize = 0 => b # LastPage(r)
         /\ PageBytes(r) = FirstPage(r) .. LastPage(r)
<1>1. r.addr \in Nat /\ r.size \in Nat
  BY DEF Rec
<1>2. PICK a \in Nat : a = r.addr
  BY <1>1
<1>3. PICK e \in Nat : e = r.addr + r.size
  BY <1>1
<1>4. PICK p \in Nat \ {0, 1} : p = PageSize
  BY PyToolsAssumption
<1>5. PICK d \in Nat : d = a \div p
  BY Division
<1>6. PICK q \in Nat : q = e \div p
  BY Division
<1>7. /\ d * p \in Nat /\ d * p <= a /\ a < d * p + p /\ a % p = a - d * p
      /\ q * p \in Nat /\ q * p <= e /\ e < q * p + p
  BY <1>5, <1>6, Division
<1>8. a <= e /\ d <= q
  <2>1. a <= e
    BY <1>1, <1>2, <1>3
  <2>2. QED
    BY <1>5, <1>6, <2>1, DivisionGrows
<1>9. FirstPage(r) = d * p
  BY <1>2, <1>4, <1>7 DEF FirstPage
<1>10. LastPage(r) = q * p + (p - 1)
  BY <1>3, <1>4, <1>6 DEF LastPage
<1>11. ASSUME NEW b \in Nat, b % p = 0 PROVE b # q * p + (p - 1)
  <2>1. PICK c \in Nat : c = b \div p
    BY Division
  <2>2. b = c * p /\ c * p \in Nat
    BY <1>11, <2>1, Division
  <2>3. c <= q => c * p <= q * p
    BY MultiplesGrow
  <2>4. q < c => q * p + p <= c * p
    BY MultiplesGrow
  <2>5. QED
    BY <1>7, <2>2, <2>3, <2>4
<1>12. PageBytes(r) = {b \in 0 .. e + p : b \div p \in {c \div p : c \in a .. e}}
  BY <1>2, <1>3, <1>4 DEF PageBytes
<1>13. ASSUME NEW b \in d * p .. q * p + (p - 1)
       PROVE  b \in 0 .. e + p /\ \E c \in a .. e : b \div p = c \div p
  <2>1. b \in Nat /\ b \in 0 .. e + p
    BY <1>7
  <2>2. CASE b < a
    <3>1. b \div p = d
      BY <1>7, <2>1, <2>2, Quotient
    <3>2. a \in a .. e
      BY <1>8
    <3>3. QED
      BY <1>5, <2>1, <3>1, <3>2
  <2>3. CASE b > e
    <3>1. b \div p = q
      BY <1>7, <2>1, <2>3, Quotient
    <3>2. e \in a .. e
      BY <1>8
    <3>3. QED
      BY <1>6, <2>1, <3>1, <3>2
  <2>4. CASE ~(b < a) /\ ~(b > e)
    <3>1. b \in a .. e
      BY <2>1, <2>4
    <3>2. QED
      BY <2>1, <3>1
  <2>5. QED
    BY <2>2, <2>3, <2>4
<1>14. ASSUME NEW b \in 0 .. e + p, NEW c \in a .. e, b \div p = c \div p
       PROVE  b \in d * p .. q * p + (p - 1)
  <2>1. PICK g \in Nat : g = b \div p
    BY Division
  <2>2. b \in Nat /\ c \in Nat /\ a <= c /\ c <= e
    BY <1>7
  <2>3. d <= g /\ g <= q
    BY <1>5, <1>6, <1>14, <2>1, <2>2, DivisionGrows
  <2>4. g * p <= b /\ b < g * p + p /\ g * p \in Nat
    BY <2>1, <2>2, Division
  <2>5. d * p <= g * p /\ g * p <= q * p
    BY <2>3, MultiplesGrow
  <2>6. QED
    BY <1>7, <2>2, <2>4, <2>5
<1>15. PageBytes(r) = d * p .. q * p + (p - 1)
  <2>1. \A b \in d * p .. q * p + (p - 1) : b \in PageBytes(r)
    BY <1>12, <1>13
  <2>2. \A b \in PageBytes(r) : b \in d * p .. q * p + (p - 1)
    BY <1>12, <1>14
  <2>3. QED
    BY <2>1, <2>2
<1>16. q * p + (p - 1) \in Nat /\ q * p + (p - 1) # 0 /\ e <= q * p + (p - 1)
  BY <1>7
<1>17. QED
  BY <1>2, <1>3, <1>4, <1>7, <1>9, <1>10, <1>11, <1>15, <1>16

LEMMA RangeEnds ==
  ASSUME NEW a \in Nat, NEW b \in Nat, a <= b
  PROVE  Min(a .. b) = a /\ Max(a .. b) = b
<1>1. a \in a .. b /\ b \in a .. b /\ \A y \in a .. b : a <= y /\ b >= y
  OBVIOUS
<1>2. \A x \in a .. b : (\A y \in a .. b : x <= y) => x = a
  BY <1>1
<1>3. \A x \in a .. b : (\A y \in a .. b : x >= y) => x = b
  BY <1>1
<1>4. QED
  BY <1>1, <1>2, <1>3 DEF Min, Max

\* The nest of comparisons says how the two sets of bytes lie to each other.
LEMMA OverlapRight ==
  ASSUME NEW r \in Rec, NEW ri,
         ri.pBegin \in Nat, ri.pEnd \in Nat, ri.pBegin <= ri.pEnd,
         ri.pBegin % PageSize = 0
  PROVE  Overlap(ri, r) = OverlapOfSets(PageBytes(r), ri.pBegin .. ri.pEnd)
<1>1. PICK ms \in Nat, me \in Nat : ms = FirstPage(r) /\ me = LastPage(r)
  BY PagesOf
<1>2. PICK pb \in Nat, pe \in Nat : pb = ri.pBegin /\ pe = ri.pEnd
  OBVIOUS
<1>3. ms <= me /\ pb <= pe /\ pb # me
  <2>1. ms <= r.addr /\ r.addr + r.size <= me /\ r.addr \in Nat /\ r.size \in Nat
    BY <1>1, PagesOf DEF Rec
  <2>2. pb # me
    BY <1>1, <1>2, PagesOf
  <2>3. QED
    BY <1>2, <2>1, <2>2
<1> DEFINE A == ms .. me
           R == pb .. pe
<1>4. PageBytes(r) = A /\ ri.pBegin .. ri.pEnd = R
  BY <1>1, <1>2, PagesOf
<1>5. Min(A) = ms /\ Max(A) = me /\ Min(R) = pb /\ Max(R) = pe
  BY <1>3, RangeEnds
<1>6. Overlap(ri, r) =
        CASE pb >= me -> "Undefined"
          [] pb >= ms /\ pb < me -> IF pe <= me THEN "Superset" ELSE "Underflow"
          [] OTHER -> IF pe >= me THEN "Subset"
                      ELSE IF pe >= ms THEN "Overflow" ELSE "Undefined"
  BY <1>1, <1>2 DEF Overlap
<1>7. A \cap R = {} <=> (pe < ms \/ me < pb)
  <2>1. pe < ms \/ me < pb => A \cap R = {}
    OBVIOUS
  <2>2. ms <= pb /\ pb <= me => pb \in A \cap R
    BY <1>3
  <2>3. pb <= ms /\ ms <= pe => ms \in A \cap R
    BY <1>3
  <2>4. QED
    BY <1>3, <2>1, <2>2, <2>3
<1>8. R \subseteq A <=> (ms <= pb /\ pe <= me)
  <2>1. pb \in R /\ pe \in R
    BY <1>3
  <2>2. R \subseteq A => pb \in A /\ pe \in A
    BY <2>1
  <2>3. QED
    BY <2>2
<1>9. A \subseteq R <=> (pb <= ms /\ me <= pe)
  <2>1. ms \in A /\ me \in A
    BY <1>3
  <2>2. A \subseteq R => ms \in R /\ me \in R
    BY <2>1
  <2>3. QED
    BY <2>2
<1>10. OverlapOfSets(A, R) =
         CASE pe < ms \/ me < pb -> "Undefined"
           [] ms <= pb /\ pe <= me -> "Superset"
           [] pb <= ms /\ me <= pe /\ pb < ms -> "Subset"
           [] ~(pe < ms \/ me < pb) /\ ms <= pb /\ me < pe -> "Underflow"
           [] OTHER -> "Overflow"
  <2> HIDE DEF A, R
  <2>1. QED
    BY <1>5, <1>7, <1>8, <1>9 DEF OverlapOfSets
<1> HIDE DEF A, R
<1>11. CASE pb >= me
  BY <1>3, <1>4, <1>6, <1>10, <1>11
<1>12. CASE pb >= ms /\ pb < me
  BY <1>3, <1>4, <1>6, <1>10, <1>12
<1>13. CASE pb < ms /\ pb < me
  BY <1>3, <1>4, <1>6, <1>10, <1>13
<1>14. QED
  BY <1>3, <1>11, <1>12, <1>13

-----------------------------------------------------------------------------
(* The loop over the records *)

\* q lists the numbers up to k that are in S, in order.
Lists(q, k, S) ==
  /\ q \in Seq(Nat)
  /\ \A i \in 1 .. Len(q) : q[i] \in S /\ q[i] \in 1 .. k
  /\ \A i, j \in 1 .. Len(q) : i < j => q[i] < q[j]
  /\ \A x \in 1 .. k : x \in S => \E i \in 1 .. Len(q) : q[i] = x

LEMMA ListsNext ==
  ASSUME NEW q, NEW k \in Nat, NEW S, Lists(q, k, S)
  PROVE  Lists(IF k + 1 \in S THEN Append(q, k + 1) ELSE q, k + 1, S)
<1>1. q \in Seq(Nat) /\ Len(q) \in Nat /\ \A i \in 1 .. Len(q) : q[i] \in Nat
  BY DEF Lists
<1>2. CASE k + 1 \notin S
  <2>1. \A x \in 1 .. k + 1 : x \in S => x \in 1 .. k
    BY <1>2
  <2>2. \A i \in 1 .. Len(q) : q[i] \in 1 .. k + 1
    BY DEF Lists
  <2>3. QED
    BY <1>2, <2>1, <2>2 DEF Lists
<1>3. CASE k + 1 \in S
  <2>1. PICK t : t = Append(q, k + 1)
    OBVIOUS
  <2>2. /\ t \in Seq(Nat) /\ Len(t) = Len(q) + 1 /\ t[Len(q) + 1] = k + 1
        /\ \A i \in 1 .. Len(q) : t[i] = q[i]
    BY <1>1, <2>1
  <2>3. ASSUME NEW i \in 1 .. Len(t)
        PROVE  i \in 1 .. Len(q) \/ i = Len(q) + 1
    BY <1>1, <2>2
  <2>4. \A i \in 1 .. Len(t) : t[i] \in S /\ t[i] \in 1 .. k + 1
    <3>1. \A i \in 1 .. Len(q) : t[i] \in S /\ t[i] \in 1 .. k + 1
      <4>1. \A i \in 1 .. Len(q) : q[i] \in S /\ q[i] \in 1 .. k
        BY DEF Lists
      <4>2. QED
        BY <2>2, <4>1
    <3>2. t[Len(q) + 1] \in S /\ t[Len(q) + 1] \in 1 .. k + 1
      BY <1>3, <2>2
    <3>3. QED
      BY <2>3, <3>1, <3>2
  <2>5. ASSUME NEW i \in 1 .. Len(t), NEW j \in 1 .. Len(t), i < j
        PROVE  t[i] < t[j]
    <3>1. i \in 1 .. Len(q)
      BY <1>1, <2>2, <2>5
    <3>2. t[i] = q[i] /\ q[i] \in 1 .. k
      BY <2>2, <3>1 DEF Lists
    <3>3. CASE j = Len(q) + 1
      BY <2>2, <3>2, <3>3
    <3>4. CASE j \in 1 .. Len(q)
      BY <2>2, <2>5, <3>1, <3>4 DEF Lists
    <3>5. QED
      BY <2>3, <3>3, <3>4
  <2>6. ASSUME NEW x \in 1 .. k + 1, x \in S
        PROVE  \E i \in 1 .. Len(t) : t[i] = x
    <3>1. CASE x = k + 1
      <4>1. Len(q) + 1 \in 1 .. Len(t)
        BY <1>1, <2>2
      <4>2. QED
        BY <2>2, <3>1, <4>1
    <3>2. CASE x # k + 1
      <4>1. x \in 1 .. k
        BY <3>2
      <4>2. PICK i \in 1 .. Len(q) : q[i] = x
        BY <2>6, <4>1 DEF Lists
      <4>3. i \in 1 .. Len(t) /\ t[i] = x
        BY <1>1, <2>2, <4>2
      <4>4. QED
        BY <4>3
    <3>3. QED
      BY <3>1, <3>2
  <2>7. Lists(t, k + 1, S)
    BY <2>2, <2>4, <2>5, <2>6 DEF Lists
  <2>8. QED
    BY <1>3, <2>1, <2>7
<1>4. QED
  BY <1>2, <1>3

\* s holds the lists after 0 to n records.
Picks(s, n, S) ==
  s = [k \in 0 .. n |->
         IF k = 0 THEN <<>> ELSE IF k \in S THEN Append(s[k - 1], k) ELSE s[k - 1]]

LEMMA PicksExist ==
  ASSUME NEW n \in Nat, NEW S
  PROVE  \E s : Picks(s, n, S)
<1> DEFINE Bad == {k \in Nat : ~\E s : Picks(s, k, S)}
<1>1. ASSUME Bad # {} PROVE FALSE
  <2>0. Bad \subseteq Nat
    OBVIOUS
  <2>1. PICK k \in Bad : \A j \in Bad : k <= j
    <3> HIDE DEF Bad
    <3>1. QED
      BY <1>1, <2>0, LeastNat
  <2>2. k # 0
    <3>1. Picks([j \in 0 .. 0 |-> <<>>], 0, S)
      BY DEF Picks
    <3>2. QED
      BY <3>1
  <2>3. k - 1 \in Nat /\ k - 1 < k /\ k \in Nat
    BY <2>2
  <2>4. PICK s : Picks(s, k - 1, S)
    BY <2>1, <2>3
  <2> DEFINE next(q, j) == IF j \in S THEN Append(q, j) ELSE q
             t == [j \in 0 .. k |-> IF j = k THEN next(s[k - 1], k) ELSE s[j]]
  <2>5. ASSUME NEW j \in 0 .. k
        PROVE  t[j] = IF j = 0 THEN <<>> ELSE next(t[j - 1], j)
    <3> HIDE DEF next
    <3>1. CASE j = k
      BY <3>1, <2>2, <2>3
    <3>2. CASE j # k
      <4>1. j \in 0 .. k - 1 /\ t[j] = s[j]
        BY <2>3, <3>2
      <4>2. j # 0 => t[j - 1] = s[j - 1]
        BY <2>3, <4>1
      <4>3. s[j] = IF j = 0 THEN <<>> ELSE next(s[j - 1], j)
        BY <2>4, <4>1 DEF Picks, next
      <4>4. QED
        BY <4>1, <4>2, <4>3
    <3>3. QED
      BY <3>1, <3>2
  <2>6. t = [j \in 0 .. k |-> IF j = 0 THEN <<>> ELSE next(t[j - 1], j)]
    <3> HIDE DEF next
    <3>1. QED
      BY <2>5
  <2>7. Picks(t, k, S)
    BY <2>6 DEF Picks
  <2>8. QED
    BY <2>7
<1>2. QED
  BY <1>1

\* All that is used of the loop.
LEMMA PickedLists ==
  ASSUME NEW n \in Nat, NEW S
  PROVE  Lists(Picked(n, S), n, S)
<1> DEFINE s == CHOOSE s : Picks(s, n, S)
<1>1. Picks(s, n, S)
  BY PicksExist
<1>2. Picked(n, S) = s[n]
  BY DEF Picked, Picks
<1> HIDE DEF s
<1> DEFINE Bad == {k \in 0 .. n : ~Lists(s[k], k, S)}
<1>3. ASSUME Bad # {} PROVE FALSE
  <2>0. Bad \subseteq Nat
    OBVIOUS
  <2>1. PICK k \in Bad : \A j \in Bad : k <= j
    <3> HIDE DEF Bad
    <3>1. QED
      BY <1>3, <2>0, LeastNat
  <2>2. k # 0
    <3>1. s[0] = <<>>
      BY <1>1 DEF Picks
    <3>2. Lists(<<>>, 0, S)
      BY DEF Lists
    <3>3. QED
      BY <3>1, <3>2
  <2>3. k - 1 \in 0 .. n /\ k - 1 \in Nat /\ k - 1 < k /\ k \in 0 .. n /\ (k - 1) + 1 = k
    BY <2>2
  <2>4. Lists(s[k - 1], k - 1, S)
    BY <2>1, <2>3
  <2>5. s[k] = IF k \in S THEN Append(s[k - 1], k) ELSE s[k - 1]
    BY <1>1, <2>2, <2>3 DEF Picks
  <2>6. Lists(IF (k - 1) + 1 \in S THEN Append(s[k - 1], (k - 1) + 1) ELSE s[k - 1],
              (k - 1) + 1, S)
    BY <2>3, <2>4, ListsNext
  <2>7. Lists(s[k], k, S)
    BY <2>3, <2>5, <2>6
  <2>8. QED
    BY <2>7
<1>4. Lists(s[n], n, S)
  BY <1>3
<1>5. QED
  BY <1>2, <1>4

-----------------------------------------------------------------------------
(* Questions and answers *)

\* The records of a trace, each with the time stamp of its place.
Records(f) == f \in Seq(Rec) /\ \A i \in 1 .. Len(f) : f[i].tstart = i

Hit(f, ri, t, when, i) == InTime(f[i], t, when) /\ Overlap(ri, f[i]) # "Undefined"

\* hits are the records at the places at, which are those that qualify.
HitsAt(hits, at, f, ri, t, when) ==
  /\ at \in Seq(1 .. Len(f))
  /\ hits = [k \in 1 .. Len(at) |-> Reported(ri, f[at[k]])]
  /\ \A k \in 1 .. Len(at) : Hit(f, ri, t, when, at[k])
  /\ \A k, n \in 1 .. Len(at) : k < n => at[k] < at[n]
  /\ \A i \in 1 .. Len(f) : Hit(f, ri, t, when, i) => \E k \in 1 .. Len(at) : at[k] = i

LEMMA HitsAre ==
  ASSUME NEW f \in Seq(Rec), NEW ri, NEW t, NEW when
  PROVE  \E at : HitsAt(Allocations(f, ri, t, when), at, f, ri, t, when)
<1> DEFINE S == {i \in 1 .. Len(f) : Hit(f, ri, t, when, i)}
<1>1. Len(f) \in Nat /\ DOMAIN f = 1 .. Len(f)
  OBVIOUS
<1>2. PICK at : at = Picked(Len(f), S)
  OBVIOUS
<1>3. Lists(at, Len(f), S)
  BY <1>1, <1>2, PickedLists
<1>4. Allocations(f, ri, t, when) = [k \in DOMAIN at |-> Reported(ri, f[at[k]])]
  <2>1. S = {i \in DOMAIN f : InTime(f[i], t, when) /\ Overlap(ri, f[i]) # "Undefined"}
    BY <1>1 DEF Hit
  <2> HIDE DEF S
  <2>2. QED
    BY <1>2, <2>1 DEF Allocations
<1>5. at \in Seq(1 .. Len(f)) /\ DOMAIN at = 1 .. Len(at)
  <2>1. at \in Seq(Nat) /\ \A k \in 1 .. Len(at) : at[k] \in 1 .. Len(f)
    BY <1>3 DEF Lists
  <2>2. QED
    BY <2>1
<1>6. \A k \in 1 .. Len(at) : Hit(f, ri, t, when, at[k])
  <2>1. \A k \in 1 .. Len(at) : at[k] \in S
    BY <1>3 DEF Lists
  <2>2. QED
    BY <2>1
<1>7. \A i \in 1 .. Len(f) : Hit(f, ri, t, when, i) => \E k \in 1 .. Len(at) : at[k] = i
  BY <1>3 DEF Lists
<1>8. \A k, n \in 1 .. Len(at) : k < n => at[k] < at[n]
  BY <1>3 DEF Lists
<1>9. QED
  BY <1>4, <1>5, <1>6, <1>7, <1>8 DEF HitsAt

\* An answer about a region.
LEMMA AllocationsRight ==
  ASSUME NEW f, Records(f), NEW ri \in Region, NEW t, NEW when, NEW a,
         a.region = ri, a.time = t, a.when = when,
         a.hits = Allocations(f, ri, t, when)
  PROVE  HitsRight(f, a)
<1>1. /\ f \in Seq(Rec) /\ Len(f) \in Nat /\ DOMAIN f = 1 .. Len(f)
      /\ \A i \in 1 .. Len(f) : f[i] \in Rec /\ f[i].tstart = i
  BY DEF Records
<1>2. PICK at : HitsAt(a.hits, at, f, ri, t, when)
  BY <1>1, HitsAre
<1>3. /\ Len(at) \in Nat /\ \A k \in 1 .. Len(at) : at[k] \in 1 .. Len(f)
      /\ DOMAIN a.hits = 1 .. Len(at)
      /\ \A k \in 1 .. Len(at) : a.hits[k] = Reported(ri, f[at[k]])
  BY <1>2 DEF HitsAt
<1>4. \A k \in 1 .. Len(at) :
        a.hits[k].record = f[at[k]] /\ a.hits[k].overlap = Overlap(ri, f[at[k]])
  BY <1>3 DEF Reported
<1> DEFINE right(r) == OverlapOfSets(PageBytes(r), a.region.pBegin .. a.region.pEnd)
<1>5. \A r \in Rec : right(r) = Overlap(ri, r)
  <2>1. /\ ri.pBegin \in Nat /\ ri.pEnd \in Nat /\ ri.pBegin <= ri.pEnd
        /\ ri.pBegin % PageSize = 0
    BY PyToolsAssumption DEF Region
  <2>2. QED
    BY <2>1, OverlapRight
<1> HIDE DEF right
<1>6. \A i \in 1 .. Len(f) :
        Hit(f, ri, t, when, i) <=> right(f[i]) # "Undefined" /\ InTime(f[i], a.time, a.when)
  BY <1>1, <1>5 DEF Hit
<1> DEFINE hits == {a.hits[k].record : k \in DOMAIN a.hits}
           wanted == {r \in {f[i] : i \in DOMAIN f} :
                        right(r) # "Undefined" /\ InTime(r, a.time, a.when)}
<1>7. ASSUME NEW r \in hits PROVE r \in wanted
  <2>1. PICK k \in 1 .. Len(at) : r = f[at[k]]
    BY <1>3, <1>4, <1>7
  <2>2. at[k] \in 1 .. Len(f) /\ Hit(f, ri, t, when, at[k])
    BY <1>2, <1>3 DEF HitsAt
  <2>3. QED
    BY <1>1, <1>6, <2>1, <2>2
<1>8. ASSUME NEW r \in wanted PROVE r \in hits
  <2>1. PICK i \in 1 .. Len(f) : r = f[i]
    BY <1>1, <1>8
  <2>2. Hit(f, ri, t, when, i)
    BY <1>6, <1>8, <2>1
  <2>3. PICK k \in 1 .. Len(at) : at[k] = i
    BY <1>2, <2>2 DEF HitsAt
  <2>4. QED
    BY <1>3, <1>4, <2>1, <2>3
<1>9. hits = wanted
  BY <1>7, <1>8
<1>10. \A k \in DOMAIN a.hits : a.hits[k].overlap = right(a.hits[k].record)
  BY <1>1, <1>3, <1>4, <1>5
<1>11. ASSUME NEW k \in DOMAIN a.hits, NEW n \in DOMAIN a.hits, k < n
       PROVE  a.hits[k].record.tstart < a.hits[n].record.tstart
  <2>1. k \in 1 .. Len(at) /\ n \in 1 .. Len(at)
    BY <1>3
  <2>2. a.hits[k].record.tstart = at[k] /\ a.hits[n].record.tstart = at[n]
    BY <1>1, <1>3, <1>4, <2>1
  <2>3. at[k] < at[n]
    BY <1>2, <1>11, <2>1 DEF HitsAt
  <2>4. QED
    BY <2>2, <2>3
<1>12. QED
  BY <1>9, <1>10, <1>11 DEF HitsRight, right

\* An answer about the validity of one object.
LEMMA ValidityRight ==
  ASSUME NEW f, Records(f), NEW i \in 1 .. Len(f), NEW end,
         end = Validity(Allocations(f, [pBegin |-> FirstPage(f[i]),
                                        pEnd |-> LastPage(f[i])], 0, "ANYTIME"),
                        f[i].tstart, f[i].addr)
  PROVE  LET o == f[i]
             times == CoverTimes(f, o)
         IN end = IF times \subseteq {o.tstart} THEN 0 ELSE Min(times \ {o.tstart})
<1>1. /\ f \in Seq(Rec) /\ Len(f) \in Nat /\ DOMAIN f = 1 .. Len(f)
      /\ \A j \in 1 .. Len(f) : f[j] \in Rec /\ f[j].tstart = j
  BY DEF Records
<1>2. PICK ri : ri = [pBegin |-> FirstPage(f[i]), pEnd |-> LastPage(f[i])]
  OBVIOUS
<1>3. PICK hits : hits = Allocations(f, ri, 0, "ANYTIME")
  OBVIOUS
<1>4. PICK at : HitsAt(hits, at, f, ri, 0, "ANYTIME")
  BY <1>1, <1>3, HitsAre
<1>5. /\ Len(at) \in Nat /\ \A k \in 1 .. Len(at) : at[k] \in 1 .. Len(f)
      /\ DOMAIN hits = 1 .. Len(at)
      /\ \A k \in 1 .. Len(at) : hits[k] = Reported(ri, f[at[k]])
  BY <1>4 DEF HitsAt
<1>6. \A k \in 1 .. Len(at) : hits[k].record = f[at[k]]
  BY <1>5 DEF Reported
<1>7. PICK a \in Nat : a = f[i].addr
  BY <1>1 DEF Rec
<1> DEFINE covers(r) == r.addr <= a /\ a < r.addr + r.size
           C == {j \in 1 .. Len(f) : covers(f[j]) /\ j # i}
           S == {k \in DOMAIN hits : LET r == hits[k].record IN
                   r.tstart # f[i].tstart /\ r.addr <= f[i].addr
                     /\ f[i].addr < r.addr + r.size}
<1>8. \A j \in 1 .. Len(f) : covers(f[j]) => Hit(f, ri, 0, "ANYTIME", j)
  <2>1. SUFFICES ASSUME NEW j \in 1 .. Len(f), covers(f[j])
                 PROVE  Overlap(ri, f[j]) # "Undefined"
    BY DEF Hit, InTime
  <2>2. PICK ms \in Nat, me \in Nat : ms = FirstPage(f[j]) /\ me = LastPage(f[j])
    BY <1>1, PagesOf
  <2>3. PICK pb \in Nat, pe \in Nat : pb = FirstPage(f[i]) /\ pe = LastPage(f[i])
    BY <1>1, PagesOf
  <2>4. pb <= a /\ a <= pe
    <3>1. /\ FirstPage(f[i]) <= f[i].addr /\ f[i].addr + f[i].size <= LastPage(f[i])
          /\ f[i].size \in Nat
      BY <1>1, PagesOf DEF Rec
    <3>2. QED
      BY <1>7, <2>3, <3>1
  <2>5. ms <= a /\ a < me
    <3>1. /\ FirstPage(f[j]) <= f[j].addr /\ f[j].addr + f[j].size <= LastPage(f[j])
          /\ f[j].size \in Nat /\ f[j].addr \in Nat
      BY <1>1, PagesOf DEF Rec
    <3>2. QED
      BY <2>1, <2>2, <3>1
  <2>6. ri.pBegin = pb /\ ri.pEnd = pe
    BY <1>2, <2>3
  <2>7. Overlap(ri, f[j]) =
          CASE pb >= me -> "Undefined"
            [] pb >= ms /\ pb < me -> IF pe <= me THEN "Superset" ELSE "Underflow"
            [] OTHER -> IF pe >= me THEN "Subset"
                        ELSE IF pe >= ms THEN "Overflow" ELSE "Undefined"
    BY <2>2, <2>6 DEF Overlap
  <2>8. CASE pb >= ms
    BY <2>4, <2>5, <2>7, <2>8
  <2>9. CASE ~(pb >= ms)
    BY <2>4, <2>5, <2>7, <2>9
  <2>10. QED
    BY <2>8, <2>9
<1>9. \A j \in C : \E k \in S : at[k] = j
  <2>1. SUFFICES ASSUME NEW j \in C PROVE \E k \in S : at[k] = j
    OBVIOUS
  <2>2. PICK k \in 1 .. Len(at) : at[k] = j
    BY <1>4, <1>8 DEF HitsAt
  <2>3. hits[k].record = f[j] /\ f[j].tstart = j /\ f[i].tstart = i
    BY <1>1, <1>6, <2>2
  <2>4. k \in S
    BY <1>5, <1>7, <2>2, <2>3
  <2>5. QED
    BY <2>2, <2>4
<1>10. \A k \in S : at[k] \in C /\ k \in 1 .. Len(at) /\ hits[k].record.tstart = at[k]
  <2>1. SUFFICES ASSUME NEW k \in S
                 PROVE  at[k] \in C /\ k \in 1 .. Len(at) /\ hits[k].record.tstart = at[k]
    OBVIOUS
  <2>2. /\ k \in 1 .. Len(at) /\ at[k] \in 1 .. Len(f)
        /\ hits[k].record = f[at[k]] /\ f[at[k]].tstart = at[k] /\ f[i].tstart = i
    BY <1>1, <1>5, <1>6
  <2>3. QED
    BY <1>7, <2>2
<1>11. CoverTimes(f, f[i]) \ {f[i].tstart} = C
  <2>1. ASSUME NEW j \in 1 .. Len(f)
        PROVE  f[i].addr \in f[j].addr .. f[j].addr + f[j].size - 1 <=> covers(f[j])
    <3>1. f[j].addr \in Nat /\ f[j].size \in Nat
      BY <1>1 DEF Rec
    <3>2. QED
      BY <1>7, <3>1
  <2>2. CoverTimes(f, f[i]) = {f[j].tstart : j \in {n \in 1 .. Len(f) : covers(f[n])}}
    BY <1>1, <2>1 DEF CoverTimes
  <2> HIDE DEF covers
  <2>3. CoverTimes(f, f[i]) = {n \in 1 .. Len(f) : covers(f[n])}
    BY <1>1, <2>2
  <2>4. QED
    BY <1>1, <2>3
<1>12. end = IF S = {} THEN 0 ELSE hits[Min(S)].record.tstart
  <2>1. end = Validity(hits, f[i].tstart, f[i].addr)
    BY <1>2, <1>3
  <2>2. QED
    BY <2>1 DEF Validity
<1> HIDE DEF C, S
<1>13. CASE S = {}
  <2>1. C = {}
    BY <1>9, <1>13
  <2>2. CoverTimes(f, f[i]) \subseteq {f[i].tstart}
    BY <1>11, <2>1
  <2>3. QED
    BY <1>12, <1>13, <2>2
<1>14. CASE S # {}
  <2>1. S \subseteq Nat /\ C \subseteq Nat
    <3>1. S \subseteq Nat
      BY <1>10
    <3>2. QED
      BY <3>1 DEF C
  <2>2. PICK x \in S : \A y \in S : x <= y
    BY <1>14, <2>1, LeastNat
  <2>3. Min(S) = x
    <3>1. \A z \in S : (\A y \in S : z <= y) => z = x
      BY <2>1, <2>2
    <3>2. QED
      BY <2>2, <3>1 DEF Min
  <2>4. at[x] \in C /\ \A j \in C : at[x] <= j
    <3>1. SUFFICES ASSUME NEW j \in C PROVE at[x] <= j
      BY <1>10
    <3>2. PICK k \in S : at[k] = j
      BY <1>9
    <3>3. x <= k /\ x \in 1 .. Len(at) /\ k \in 1 .. Len(at) /\ x \in Nat /\ k \in Nat
      BY <1>10, <2>1, <2>2
    <3>4. at[x] \in Nat /\ at[k] \in Nat
      BY <1>10, <2>1
    <3>5. CASE x = k
      BY <3>2, <3>4, <3>5
    <3>6. CASE x # k
      <4>1. x < k
        BY <3>3, <3>6
      <4>2. at[x] < at[k]
        BY <1>4, <3>3, <4>1 DEF HitsAt
      <4>3. QED
        BY <3>2, <3>4, <4>2
    <3>7. QED
      BY <3>5, <3>6
  <2>5. Min(C) = at[x]
    <3>1. \A z \in C : (\A y \in C : z <= y) => z = at[x]
      <4>1. SUFFICES ASSUME NEW z \in C, \A y \in C : z <= y PROVE z = at[x]
        OBVIOUS
      <4>2. z \in Nat /\ at[x] \in Nat
        BY <2>1, <2>4
      <4>3. z <= at[x] /\ at[x] <= z
        BY <2>4, <4>1
      <4>4. QED
        BY <4>2, <4>3
    <3>2. QED
      BY <2>4, <3>1 DEF Min
  <2>6. end = at[x]
    BY <1>10, <1>12, <1>14, <2>2, <2>3
  <2>7. ~(CoverTimes(f, f[i]) \subseteq {f[i].tstart})
    BY <1>11, <2>4
  <2>8. QED
    BY <1>11, <2>5, <2>6, <2>7
<1>15. QED
  BY <1>13, <1>14

-----------------------------------------------------------------------------
(* The theorems about the tools *)

\* The finder holds records in their order, and what was asked last was
\* answered rightly from them.
FinderRight == finder # None => Records(finder)

ToolInv == FinderRight /\ OverlapsFound /\ ValidityEnds

\* What a Reader finds in the file can be asked about.
LEMMA FoundRecords ==
  ASSUME TraceInv, Stale(file) = {}
  PROVE  LET s == Found(file) IN Records([i \in 1 .. Len(s) |-> s[i].record])
<1>2. TraceType
  BY DEF TraceInv
<1>1. PICK off, m, top : Laid(off, m, top)
  BY <1>2, GapIsStale DEF TraceInv
<1>3. PICK n \in Nat :
        /\ n <= Len(log)
        /\ Starts(file) = [k \in 1 .. n |-> off[k]]
        /\ \A k \in 1 .. n : file[off[k] + 1] = RecordHeader(log[k])
  BY <1>1, <1>2, FileStarts
<1>4. PICK s : s = Found(file)
  OBVIOUS
<1>5. s = [k \in 1 .. n |-> RecordHeader(log[k])]
  BY <1>3, <1>4, FoundAre
<1>6. Len(s) = n /\ \A k \in 1 .. n : s[k].record = log[k]
  BY <1>5 DEF RecordHeader
<1>7. \A k \in 1 .. n : log[k] \in Rec /\ log[k].tstart = k
  <2>1. log \in Seq(Rec) /\ \A k \in 1 .. Len(log) : log[k].tstart = k
    BY <1>1, <1>2 DEF TraceType, Laid, Contents
  <2>2. \A k \in 1 .. n : k \in 1 .. Len(log)
    BY <1>3, <2>1
  <2>3. QED
    BY <2>1, <2>2
<1>8. PICK f : f = [i \in 1 .. Len(s) |-> s[i].record]
  OBVIOUS
<1>9. f = [i \in 1 .. n |-> log[i]]
  BY <1>6, <1>8
<1>10. f \in Seq(Rec) /\ Len(f) = n /\ \A i \in 1 .. n : f[i].tstart = i
  BY <1>7, <1>9
<1>11. QED
  BY <1>4, <1>8, <1>10 DEF Records

LEMMA GetAllocationsKeeps ==
  ASSUME ToolInv, GetAllocations
  PROVE  ToolInv'
<1>1. /\ finder # None /\ finder' = finder
      /\ \E ri \in Region, when \in AllocTime, t \in Times :
           answer' = [kind |-> "allocations", region |-> ri, when |-> when, time |-> t,
                      hits |-> Allocations(finder, ri, t, when)]
  BY DEF GetAllocations
<1>2. PICK f : f = finder
  OBVIOUS
<1>3. PICK ri \in Region, when \in AllocTime, t \in Times :
        answer' = [kind |-> "allocations", region |-> ri, when |-> when, time |-> t,
                   hits |-> Allocations(f, ri, t, when)]
  BY <1>1, <1>2
<1>4. Records(f)
  BY <1>1, <1>2 DEF ToolInv, FinderRight
<1>5. PICK a : a = answer'
  OBVIOUS
<1>6. /\ a.kind = "allocations" /\ a.region = ri /\ a.when = when /\ a.time = t
      /\ a.hits = Allocations(f, ri, t, when)
  BY <1>3, <1>5
<1>7. HitsRight(f, a)
  BY <1>4, <1>6, AllocationsRight
<1>8. f = finder'
  BY <1>1, <1>2
<1>9. FinderRight'
  BY <1>4, <1>8 DEF FinderRight
<1>10. OverlapsFound'
  BY <1>5, <1>7, <1>8 DEF OverlapsFound
<1>11. ValidityEnds'
  BY <1>5, <1>6 DEF ValidityEnds
<1>12. QED
  BY <1>9, <1>10, <1>11 DEF ToolInv

LEMMA GetObjectValidityKeeps ==
  ASSUME ToolInv, GetObjectValidity
  PROVE  ToolInv'
<1>1. finder # None /\ finder' = finder
  BY DEF GetObjectValidity
<1>2. PICK f : f = finder
  OBVIOUS
<1>3. Records(f) /\ DOMAIN f = 1 .. Len(f)
  BY <1>1, <1>2 DEF ToolInv, FinderRight, Records
<1>4. PICK i \in 1 .. Len(f), j \in 1 .. Len(f) :
        LET objects == <<f[i], f[j]>>
            sets == AllocationSets(f,
                      [k \in 1 .. 2 |-> [pBegin |-> FirstPage(objects[k]),
                                         pEnd |-> LastPage(objects[k])]])
        IN answer' = [kind |-> "validity", objects |-> objects,
                      ends |-> [k \in 1 .. 2 |->
                        Validity(sets[k], objects[k].tstart, objects[k].addr)]]
  BY <1>2, <1>3 DEF GetObjectValidity
<1>5. PICK objects : objects = <<f[i], f[j]>>
  OBVIOUS
<1>6. PICK regions :
        regions = [k \in 1 .. 2 |-> [pBegin |-> FirstPage(objects[k]),
                                     pEnd |-> LastPage(objects[k])]]
  OBVIOUS
<1>7. PICK a : a = answer'
  OBVIOUS
<1>8. a = [kind |-> "validity", objects |-> objects,
           ends |-> [k \in 1 .. 2 |->
             Validity(AllocationSets(f, regions)[k], objects[k].tstart, objects[k].addr)]]
  BY <1>4, <1>5, <1>6, <1>7
<1>9. AllocationSets(f, regions) =
        [k \in 1 .. 2 |-> Allocations(f, regions[k], 0, "ANYTIME")]
  BY <1>6 DEF AllocationSets
<1>10. ASSUME NEW k \in 1 .. 2
       PROVE  LET o == a.objects[k]
                  times == CoverTimes(f, o)
              IN a.ends[k] = IF times \subseteq {o.tstart} THEN 0
                             ELSE Min(times \ {o.tstart})
  <2>1. PICK n \in 1 .. Len(f) : f[n] = objects[k]
    <3>1. objects[k] = f[i] \/ objects[k] = f[j]
      BY <1>5
    <3>2. QED
      BY <3>1
  <2>2. regions[k] = [pBegin |-> FirstPage(f[n]), pEnd |-> LastPage(f[n])]
    BY <1>6, <2>1
  <2>3. a.objects[k] = f[n]
    BY <1>8, <2>1
  <2>4. a.ends[k] = Validity(Allocations(f, regions[k], 0, "ANYTIME"),
                             f[n].tstart, f[n].addr)
    BY <1>8, <1>9, <2>1
  <2>5. PICK end : end = a.ends[k]
    OBVIOUS
  <2>6. LET o == f[n]
            times == CoverTimes(f, o)
        IN end = IF times \subseteq {o.tstart} THEN 0 ELSE Min(times \ {o.tstart})
    <3>1. end = Validity(Allocations(f, [pBegin |-> FirstPage(f[n]),
                                         pEnd |-> LastPage(f[n])], 0, "ANYTIME"),
                         f[n].tstart, f[n].addr)
      BY <2>2, <2>4, <2>5
    <3>2. QED
      BY <1>3, <3>1, ValidityRight
  <2>7. QED
    BY <2>3, <2>5, <2>6
<1>11. EndsRight(f, a)
  BY <1>10 DEF EndsRight
<1>12. f = finder'
  BY <1>1, <1>2
<1>13. a.kind = "validity"
  BY <1>8
<1>14. FinderRight'
  BY <1>3, <1>12 DEF FinderRight
<1>15. ValidityEnds'
  BY <1>7, <1>11, <1>12 DEF ValidityEnds
<1>16. OverlapsFound'
  BY <1>7, <1>13 DEF OverlapsFound
<1>17. QED
  BY <1>14, <1>15, <1>16 DEF ToolInv

LEMMA ToolsKeep ==
  ASSUME TraceInv, ToolInv, [Next]_vars
  PROVE  ToolInv'
<1>1. CASE OpenMallocFile
  <2>1. answer' = None /\ Stale(file) = {}
    BY <1>1 DEF OpenMallocFile
  <2>2. PICK s : s = Found(file)
    OBVIOUS
  <2>3. finder' = finder \/ finder' = [i \in 1 .. Len(s) |-> s[i].record]
    BY <1>1, <2>2 DEF OpenMallocFile
  <2>4. CASE finder' = finder
    BY <2>1, <2>4 DEF ToolInv, FinderRight, OverlapsFound, ValidityEnds
  <2>5. CASE finder' = [i \in 1 .. Len(s) |-> s[i].record]
    <3>1. Records([i \in 1 .. Len(s) |-> s[i].record])
      BY <2>1, <2>2, FoundRecords
    <3>2. Records(finder')
      BY <2>5, <3>1
    <3>3. QED
      BY <2>1, <3>2 DEF ToolInv, FinderRight, OverlapsFound, ValidityEnds
  <2>6. QED
    BY <2>3, <2>4, <2>5
<1>2. CASE CloseMallocFile
  BY <1>2 DEF CloseMallocFile, ToolInv, FinderRight, OverlapsFound, ValidityEnds
<1>3. CASE NoFinder
  <2>1. finder' = None /\ answer' = [kind |-> "error"]
    BY <1>3 DEF NoFinder
  <2>2. answer'.kind = "error"
    BY <2>1
  <2>3. QED
    BY <2>1, <2>2 DEF ToolInv, FinderRight, OverlapsFound, ValidityEnds
<1>4. CASE GetAllocations
  BY <1>4, GetAllocationsKeeps
<1>5. CASE GetObjectValidity
  BY <1>5, GetObjectValidityKeeps
<1>6. CASE UNCHANGED toolVars
  BY <1>6 DEF toolVars, ToolInv, FinderRight, OverlapsFound, ValidityEnds
<1>7. QED
  BY <1>1, <1>2, <1>3, <1>4, <1>5, <1>6 DEF Next, Trace, Terminated, vars

LEMMA ToolsRight == Spec => []ToolInv
<1>1. Init => ToolInv
  BY DEF Init, ToolInv, FinderRight, OverlapsFound, ValidityEnds
<1>2. TraceInv /\ ToolInv /\ [Next]_vars => ToolInv'
  BY ToolsKeep
<1>3. Spec => []TraceInv
  BY FileLaid
<1>4. QED
  BY <1>1, <1>2, <1>3, PTL DEF Spec

\* A question about a region is answered with the records whose pages meet it,
\* in the order of the trace, each with the way it lies to the region: the
\* comparisons of getAllocations agree with sets of bytes, for pages of any
\* size, any records, any region and any time.
THEOREM AnswersAreRight == Spec => []OverlapsFound
<1>1. ToolInv => OverlapsFound
  BY DEF ToolInv
<1>2. QED
  BY <1>1, ToolsRight, PTL

\* The validity of any object ends with the first record of another time in the
\* trace that covers its address, an earlier one included, and is 0 when there
\* is none: what the unsigned comparison of getObjectValidity comes to.
THEOREM ValiditiesEnd == Spec => []ValidityEnds
<1>1. ToolInv => ValidityEnds
  BY DEF ToolInv
<1>2. QED
  BY <1>1, ToolsRight, PTL

=============================================================================
