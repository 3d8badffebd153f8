----------------------------- MODULE ReaderBase -----------------------------
(***************************************************************************)
(* What every reader of a record file promises, class ReaderBase of        *)
(* src/FOMTools/Streamers.hpp: at(t) is record t of the file, whatever was *)
(* asked before, and an index past the end is refused.  IndexingReader and *)
(* ZlibReader implement it with state of their own.                        *)
(*                                                                         *)
(* A record is named by its position in the file.                          *)
(***************************************************************************)
EXTENDS Naturals

CONSTANTS
  MaxRecords,  \* bound: records in a file
  Throw,       \* the answer is an exception
  None         \* nothing has been asked

VARIABLES
  size,        \* number of records in the file
  ret          \* the last question and its answer, or None

Index == 0 .. MaxRecords
Answer(t, record) == [index |-> t, record |-> record]

Init ==
  /\ size \in 0 .. MaxRecords
  /\ ret = None

\* Another file may be opened in place of this one.
Open ==
  /\ size' \in 0 .. MaxRecords
  /\ ret' = None

At(t) ==
  /\ ret' = Answer(t, IF t < size THEN t ELSE Throw)
  /\ UNCHANGED size

Next == Open \/ \E t \in Index : At(t)

Spec == Init /\ [][Next]_<<size, ret>>

=============================================================================
