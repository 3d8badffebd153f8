----------------------------- MODULE PlainTrace -----------------------------
(***************************************************************************)
(* An uncompressed trace, cell by cell: class PlainWriter with WriterBase  *)
(* and FileStats of src/Streamers.cxx writes it, class Reader finds the    *)
(* records in it again.                                                    *)
(*                                                                         *)
(* A cell is what one write() puts into the file: a field of the file      *)
(* header, an argument of the command line, the header of a record, the    *)
(* stack ids of a record (here one cell each, for a write that is cut      *)
(* short).  The process can be killed after any cell.  There is no index   *)
(* in the file: a reader gets from one record to the next by the number of *)
(* stack ids of the first, so that it must never start in the middle.      *)
(***************************************************************************)
EXTENDS Naturals, Sequences, SequencesExt

CONSTANTS
  Calls,          \* what the hooks record: addr, size and count of a call
  CmdLength,      \* length of the command line of the process
  CmdLengths,     \* lengths of the command line a converter may set instead
  MaxRecords,     \* bound: records written
  MaxForks        \* bound: times the file is closed and opened again

ASSUME PlainTraceAssumption ==
  /\ \A c \in Calls : c.addr \in Nat /\ c.size \in Nat /\ c.count \in Nat
  /\ CmdLength \in Nat /\ CmdLengths \subseteq Nat
  /\ MaxRecords \in Nat /\ MaxForks \in Nat

VARIABLES
  file,           \* the cells of the file
  pos,            \* the file offset
  pending,        \* cells the operation under way has still to write
  writer,         \* the PlainWriter
  state,          \* "running", "ending" (in the destructor), "ended", "killed"
  log,            \* history: the records handed to the writer
  forks           \* forks so far

traceVars == <<file, pos, pending, writer, state, log, forks>>

-----------------------------------------------------------------------------
(* The file *)

Field(n) == [kind |-> "field", value |-> n]
Arg == [kind |-> "arg"]
RecordHeader(r) == [kind |-> "record", record |-> r]
StackOf(r) == [kind |-> "stack", of |-> r.tstart]

HeaderFields == 3
FileHeader(s) ==
  <<Field(s.numRecords), Field(s.maxStacks), Field(s.cmdLength)>>
    \o [i \in 1 .. s.cmdLength |-> Arg]

Cells(r) == <<RecordHeader(r)>> \o [i \in 1 .. r.count |-> StackOf(r)]

\* A field that is not there keeps the value of a new FileStats: a short read
\* is not an error.
FieldOf(f, i) == IF i <= Len(f) THEN f[i].value ELSE 0

ReadStats(f) ==
  [numRecords |-> FieldOf(f, 1), maxStacks |-> FieldOf(f, 2),
   cmdLength |-> FieldOf(f, 3)]

\* Where FileStats::read leaves the offset: the first record, or the end.
FirstRecord(f) == Min({Len(f), HeaderFields + ReadStats(f).cmdLength})

\* Where Reader goes on behind a header.  A cell that is not a record's header
\* is taken for one without a stack.
NextHeader(f, h) ==
  h + 1 + IF f[h + 1].kind = "record" THEN f[h + 1].record.count ELSE 0

\* The positions Reader takes for records, turn by turn of its loop.
Starts(f) ==
  LET at[k \in 0 .. Len(f)] ==
        IF k = 0 THEN FirstRecord(f)
        ELSE LET h == at[k - 1] IN IF h < Len(f) THEN NextHeader(f, h) ELSE h
  IN [k \in 1 .. Cardinality({j \in 0 .. Len(f) : at[j] < Len(f)}) |-> at[k - 1]]

Found(f) == LET s == Starts(f) IN [i \in 1 .. Len(s) |-> f[s[i] + 1]]

\* The lines of a text dump: each record with the stack ids that follow it.
Dump(f) ==
  LET s == Starts(f)
      line(h) ==
        IF f[h + 1].kind # "record" THEN f[h + 1]
        ELSE SubSeq(f, h + 1, Min({Len(f), h + 1 + f[h + 1].record.count}))
  IN [i \in 1 .. Len(s) |-> line(s[i])]

\* What an updateStats with a shorter command line has left of the longer one
\* and no record covers: a reader takes it for records.
Stale(f) == {j \in DOMAIN f : j > HeaderFields + ReadStats(f).cmdLength /\ f[j] = Arg}

-----------------------------------------------------------------------------
(* The writer *)

NewStats == [numRecords |-> 0, maxStacks |-> 0, cmdLength |-> CmdLength]

TraceInit ==
  /\ file = <<>> /\ pos = 0
  /\ writer = [opened |-> TRUE, nRecords |-> 0, maxDepth |-> 0, stats |-> NewStats]
  /\ pending = FileHeader(NewStats)
  /\ state = "running"
  /\ log = <<>> /\ forks = 0

Ready == state = "running" /\ pending = <<>>

-----------------------------------------------------------------------------
(* Faulty variants, each one plausible slip in the code *)

ReopenAtHeader ==           \* no lseek to the end
  /\ Ready /\ ~writer.opened
  /\ writer' = [writer EXCEPT !.opened = TRUE, !.stats = ReadStats(file)]
  /\ pos' = HeaderFields
  /\ UNCHANGED <<file, pending, state, log, forks>>

EndWithoutCount ==          \* the header is written as it was read
  /\ Ready /\ writer.opened
  /\ pos' = 0
  /\ pending' = FileHeader(writer.stats)
  /\ state' = "ending"
  /\ UNCHANGED <<file, writer, log, forks>>

-----------------------------------------------------------------------------
(* The operations *)

\* The next write() of the operation under way.
WriteCell ==
  /\ state \in {"running", "ending"} /\ pending # <<>>
  /\ file' = IF pos < Len(file) THEN [file EXCEPT ![pos + 1] = Head(pending)]
             ELSE Append(file, Head(pending))
  /\ pos' = pos + 1
  /\ pending' = Tail(pending)
  /\ UNCHANGED <<writer, state, log, forks>>

WriteRecord ==
  /\ Ready /\ writer.opened
  /\ Len(log) < MaxRecords
  /\ \E c \in Calls :
       LET r == [addr |-> c.addr, size |-> c.size, count |-> c.count,
                 tstart |-> Len(log) + 1]
       IN /\ pending' = Cells(r)
          /\ log' = Append(log, r)
          /\ writer' = [writer EXCEPT !.nRecords = @ + 1,
                                      !.maxDepth = Max({@, r.count})]
  /\ UNCHANGED <<file, pos, state, forks>>

\* A converter copies the command line of its source before the first record.
\* The file is not cut behind a shorter one.
UpdateStats ==
  /\ Ready /\ writer.opened
  /\ writer.nRecords = 0
  /\ \E n \in CmdLengths :
       LET s == [writer.stats EXCEPT !.cmdLength = n] IN
       /\ writer' = [writer EXCEPT !.stats = s]
       /\ pending' = FileHeader(s)
  /\ pos' = 0
  /\ UNCHANGED <<file, state, log, forks>>

\* closeFile(false), before a fork.
CloseFile ==
  /\ Ready /\ writer.opened /\ forks < MaxForks
  /\ writer' = [writer EXCEPT !.opened = FALSE, !.stats = NewStats]
  /\ forks' = forks + 1
  /\ UNCHANGED <<file, pos, pending, state, log>>

\* reopenFile(true), after it; the statistics come back from the file.
ReopenFile ==
  /\ Ready /\ ~writer.opened
  /\ writer' = [writer EXCEPT !.opened = TRUE, !.stats = ReadStats(file)]
  /\ pos' = Len(file)
  /\ UNCHANGED <<file, pending, state, log, forks>>

\* The destructor writes the header again, in place.
BeginEnd ==
  /\ Ready /\ writer.opened
  /\ LET s == [writer.stats EXCEPT !.numRecords = writer.nRecords,
                                   !.maxStacks = writer.maxDepth]
     IN /\ writer' = [writer EXCEPT !.stats = s]
        /\ pending' = FileHeader(s)
  /\ pos' = 0
  /\ state' = "ending"
  /\ UNCHANGED <<file, log, forks>>

End ==
  /\ state = "ending" /\ pending = <<>>
  /\ state' = "ended"
  /\ writer' = [writer EXCEPT !.opened = FALSE]
  /\ UNCHANGED <<file, pos, pending, log, forks>>

Kill ==
  /\ state \in {"running", "ending"}
  /\ state' = "killed"
  /\ UNCHANGED <<file, pos, pending, writer, log, forks>>

TraceNext ==
  \/ WriteCell \/ WriteRecord \/ UpdateStats
  \/ CloseFile \/ ReopenFile
  \/ BeginEnd \/ End \/ Kill

-----------------------------------------------------------------------------
(* Properties *)

\* Whenever the process is stopped, a reader finds the records handed to the
\* writer, in order and with nothing in between; only the last one can be
\* missing.  Between two operations, forks included, a dump has the line of
\* every record with the stack ids of that record and no other.  The exception
\* is a file in which a part of a longer command line stands that nothing has
\* been written over: updateStats does not cut it off.  As soon as the records
\* have covered it they are found again.
RecordsFound ==
  Stale(file) = {} =>
    /\ LET found == Found(file)
           written == [i \in 1 .. Len(log) |-> RecordHeader(log[i])]
       IN IsPrefix(found, written) /\ Len(found) + 1 >= Len(written)
    /\ pending = <<>> => Dump(file) = [i \in 1 .. Len(log) |-> Cells(log[i])]

\* The header counts either no record or all of them.  After an orderly end
\* it counts all, "File should contain %ld entries", which a reader then finds
\* (with the exception of RecordsFound), and the longest stack.
HeaderHonest ==
  LET s == ReadStats(file) IN
  /\ s.numRecords \in {0, Len(log)}
  /\ state = "ended" =>
       /\ s.numRecords = Len(log)
       /\ Stale(file) = {} => Len(Starts(file)) = s.numRecords
       /\ \A i \in 1 .. Len(log) : log[i].count <= s.maxStacks
       /\ s.maxStacks \in {0} \cup {log[i].count : i \in 1 .. Len(log)}

=============================================================================
