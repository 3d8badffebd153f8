------------------------------ MODULE PyStream ------------------------------
(***************************************************************************)
(* The stream functions of the Python module, src/FOMTools.cxx:            *)
(* openStream, closeStream, next, size and at share one static             *)
(* IndexingReader and one static offset.  The interpreter's lock makes     *)
(* each call a single step.                                                *)
(*                                                                         *)
(* A C++ exception that leaves a call ends the interpreter.                *)
(***************************************************************************)
EXTENDS IndexingReader, Sequences

CONSTANTS
  Periods,            \* index periods of the streams; in the code, the default
  MaxOpens            \* bound: streams opened one after another

ASSUME PyStreamAssumption ==
  /\ Periods \subseteq 0 .. MaxPeriod /\ MaxOpens \in Nat
  /\ MaxRecords > 0

VARIABLES
  opened,             \* s_InReader is not null
  sIRdrCurrOffset,    \* where next() stands
  alive,              \* the interpreter runs
  opens,              \* streams opened so far
  result,             \* what the last call returned
  streamed            \* history: records next() has returned from this stream

pyVars == <<opened, sIRdrCurrOffset, alive, opens, result, streamed>>
allVars == <<vars, pyVars>>

Value(r) == [kind |-> "value", record |-> r]
PyNone == [kind |-> "none"]
RuntimeError == [kind |-> "error"]

PyInit ==
  /\ Init
  /\ opened = FALSE
  /\ sIRdrCurrOffset = 0
  /\ alive = TRUE
  /\ opens = 0
  /\ result = PyNone
  /\ streamed = <<>>

-----------------------------------------------------------------------------
(* Faulty variants, each one plausible slip in the code *)

RecordAtMovesOffset(pos) == \* at() and next() share the offset
  /\ alive /\ opened
  /\ pos < Size /\ pos < m_numRecords
  /\ At(pos)
  /\ sIRdrCurrOffset' = pos
  /\ result' = Value(pos)
  /\ UNCHANGED <<opened, alive, opens, streamed>>

RecordAtOffByOne(pos) ==    \* pos>size() is refused
  /\ alive /\ opened
  /\ pos <= Size
  /\ At(pos)
  /\ IF ret'.record = Throw
     THEN /\ alive' = FALSE
          /\ UNCHANGED result
     ELSE /\ result' = Value(ret'.record)
          /\ UNCHANGED alive
  /\ UNCHANGED <<opened, sIRdrCurrOffset, opens, streamed>>

-----------------------------------------------------------------------------
(* The functions *)

\* The offset is left where the stream before has brought it.
OpenStream ==
  /\ alive /\ opens < MaxOpens
  /\ \E n \in 0 .. MaxRecords, p \in Periods :
       /\ Open(n, p)
       /\ result' = Value(Size')
  /\ opened' = TRUE
  /\ opens' = opens + 1
  /\ streamed' = <<>>
  /\ UNCHANGED <<sIRdrCurrOffset, alive>>

\* The constructor throws: no such file, or too short a file.
OpenFails ==
  /\ alive /\ opens < MaxOpens
  /\ alive' = FALSE
  /\ UNCHANGED <<vars, opened, sIRdrCurrOffset, opens, result, streamed>>

CloseStream ==
  /\ alive
  /\ opened' = FALSE
  /\ result' = PyNone
  /\ UNCHANGED <<vars, sIRdrCurrOffset, alive, opens, streamed>>

\* The call's result when at(pos) has answered: the record, or the end.
Return(pos) ==
  IF ret'.record = Throw
  THEN /\ alive' = FALSE
       /\ UNCHANGED result
  ELSE /\ result' = Value(ret'.record)
       /\ UNCHANGED alive

NotOpened ==
  /\ alive /\ ~opened
  /\ result' = RuntimeError
  /\ UNCHANGED <<vars, opened, sIRdrCurrOffset, alive, opens, streamed>>

NextAtEnd ==
  /\ alive /\ opened
  /\ sIRdrCurrOffset >= Size
  /\ result' = PyNone
  /\ UNCHANGED <<vars, opened, sIRdrCurrOffset, alive, opens, streamed>>

NextRecord ==
  /\ alive /\ opened
  /\ sIRdrCurrOffset < Size
  /\ sIRdrCurrOffset' = sIRdrCurrOffset + 1
  /\ At(sIRdrCurrOffset')
  /\ Return(sIRdrCurrOffset')
  /\ streamed' = IF alive' THEN Append(streamed, ret'.record) ELSE streamed
  /\ UNCHANGED <<opened, opens>>

NumRecords ==
  /\ alive /\ opened
  /\ result' = Value(Size)
  /\ UNCHANGED <<vars, opened, sIRdrCurrOffset, alive, opens, streamed>>

RecordAtRefused(pos) ==
  /\ alive /\ opened
  /\ pos >= Size
  /\ result' = RuntimeError
  /\ UNCHANGED <<vars, opened, sIRdrCurrOffset, alive, opens, streamed>>

RecordAt(pos) ==
  /\ alive /\ opened
  /\ pos < Size
  /\ At(pos)
  /\ Return(pos)
  /\ UNCHANGED <<opened, sIRdrCurrOffset, opens, streamed>>

Terminated == ~alive /\ UNCHANGED allVars

PyNext ==
  \/ OpenStream \/ OpenFails \/ CloseStream \/ NotOpened
  \/ NextAtEnd \/ NextRecord \/ NumRecords
  \/ \E pos \in Index : RecordAtRefused(pos) \/ RecordAt(pos)
  \/ Terminated

PySpec == PyInit /\ [][PyNext]_allVars

-----------------------------------------------------------------------------
(* Properties *)

\* Every variable keeps to its type, and only an open stream has been read.
PyTypeOK ==
  /\ TypeOK
  /\ opened \in BOOLEAN /\ alive \in BOOLEAN
  /\ sIRdrCurrOffset \in Nat
  /\ opens \in 0 .. MaxOpens
  /\ \/ result \in {PyNone, RuntimeError}
     \/ result.kind = "value" /\ result.record \in 0 .. Word - 1
  /\ streamed \in Seq(Index)

\* Beside the types: next() gives the records of a stream one after the other, none twice and
\* none left out between, although at() and size() are called in between and
\* move the cursor of the reader they share.
StreamInOrder ==
  /\ PyTypeOK
  /\ \A i \in 1 .. Len(streamed) - 1 : streamed[i + 1] = streamed[i] + 1

\* In a stream that has records, at() never lets an exception out: its own
\* test against size() refuses what the reader would refuse.
AtIsGuarded ==
  [][\A pos \in Index : RecordAt(pos) /\ m_numRecords > 0 => alive']_allVars

\* The same for next(): its test for the end of the stream keeps the reader's
\* check of the index, "Asked for an index larger than number of records!",
\* from failing.
NextIsGuarded == [][NextRecord /\ m_numRecords > 0 => alive']_allVars

=============================================================================
