--------------------------- MODULE IndexingReader ---------------------------
(***************************************************************************)
(* The reader of plain record files, class IndexingReader of               *)
(* src/src/Streamers.cxx.  Its constructor walks the whole file and keeps  *)
(* the address of every m_period-th header; at(t) goes on from there, or   *)
(* from the header the call before ended at when that is nearer.           *)
(*                                                                         *)
(* A header's address is the position of its record: going from a header,  *)
(* over its count stack indices, to the next header adds one.  The file    *)
(* ends with a complete record.                                            *)
(***************************************************************************)
EXTENDS Integers, FiniteSets

CONSTANTS
  MaxRecords,  \* bound: records in a file
  MaxPeriod,   \* bound: index period a caller asks for
  Word,        \* number of values of size_t
  Throw,       \* the answer is an exception
  None         \* nothing has been asked

DefaultPeriod == 100

\* A record has more than 40 bytes, so that files stay far below 2^64 records.
ASSUME IndexingAssumption ==
  /\ MaxRecords \in Nat /\ MaxPeriod \in Nat
  /\ Word \in Nat /\ Word > MaxRecords + MaxPeriod + DefaultPeriod
  /\ Throw \notin Nat /\ None \notin Nat

VARIABLES
  m_numRecords,  \* records counted by the constructor
  m_period,      \* distance of two index points
  m_lastIndex,   \* position the last walk ended at
  m_lastHdr,     \* header the last walk ended at
  walked,        \* history: headers passed by the last call
  ret            \* the last question and its answer, or None

cursor == <<m_lastIndex, m_lastHdr>>
vars == <<m_numRecords, m_period, cursor, walked, ret>>

Index == 0 .. MaxRecords
Answer(t, record) == [index |-> t, record |-> record]

-----------------------------------------------------------------------------
(* Construction *)

Period(p) == IF p < 1 THEN DefaultPeriod ELSE p

Init ==
  /\ m_numRecords \in 0 .. MaxRecords
  /\ \E p \in 0 .. MaxPeriod : m_period = Period(p)
  /\ m_lastIndex = 0
  /\ m_lastHdr = 0
  /\ walked = 0
  /\ ret = None

\* Index points: the scan keeps a header whenever count%m_period is 0.
IndexedSize == Cardinality({h \in 0 .. m_numRecords - 1 : h % m_period = 0})
Record(bucket) == bucket * m_period
m_remainder == ((m_numRecords - 1) % Word) % m_period

Bucket(t) == t \div m_period
Offset(t) == t - Bucket(t) * m_period

\* t-m_lastIndex, in size_t: a huge distance when t lies behind.
Distance(t) == (t - m_lastIndex) % Word

-----------------------------------------------------------------------------
(* Faulty variants, each one plausible slip in the code *)

SizeNoRemainder == IndexedSize * m_period

AheadAnyDistance(t) ==      \* goes on even where an index point is nearer
  /\ t < m_numRecords /\ Offset(t) # 0
  /\ t > m_lastIndex
  /\ m_lastHdr' = m_lastHdr + Distance(t)
  /\ m_lastIndex' = t
  /\ walked' = Distance(t)
  /\ ret' = Answer(t, m_lastHdr')
  /\ UNCHANGED <<m_numRecords, m_period>>

AtPointMovesIndex(t) ==     \* the index follows, the header does not
  /\ t < m_numRecords /\ Offset(t) = 0
  /\ m_lastIndex' = t
  /\ walked' = 0
  /\ ret' = Answer(t, Record(Bucket(t)))
  /\ UNCHANGED <<m_numRecords, m_period, m_lastHdr>>

AheadForgetsIndex(t) ==     \* m_lastIndex=t only after a walk from a point
  /\ t < m_numRecords /\ Offset(t) # 0
  /\ Distance(t) \in 1 .. Offset(t) - 1
  /\ m_lastHdr' = m_lastHdr + Distance(t)
  /\ walked' = Distance(t)
  /\ ret' = Answer(t, m_lastHdr')
  /\ UNCHANGED <<m_numRecords, m_period, m_lastIndex>>

-----------------------------------------------------------------------------
(* A new reader *)

\* Another reader takes the place of this one.
Open(n, p) ==
  /\ m_numRecords' = n
  /\ m_period' = Period(p)
  /\ m_lastIndex' = 0
  /\ m_lastHdr' = 0
  /\ walked' = 0
  /\ ret' = None

NewerFile == \E n \in 0 .. MaxRecords, p \in 0 .. MaxPeriod : Open(n, p)

\* size() works with what the scan has left, in size_t.
Size == ((IndexedSize - 1) * m_period + m_remainder + 1) % Word

-----------------------------------------------------------------------------
(* at(t) *)

AtRefused(t) ==
  /\ t >= m_numRecords
  /\ walked' = 0
  /\ ret' = Answer(t, Throw)
  /\ UNCHANGED <<m_numRecords, m_period, cursor>>

\* An index point is returned as it is; the cursor stays.
AtPoint(t) ==
  /\ t < m_numRecords /\ Offset(t) = 0
  /\ walked' = 0
  /\ ret' = Answer(t, Record(Bucket(t)))
  /\ UNCHANGED <<m_numRecords, m_period, cursor>>

\* A walk from the cursor to t, or else from the index point before t.
Walk(t, from, steps) ==
  /\ m_lastHdr' = from + steps
  /\ m_lastIndex' = t
  /\ walked' = steps
  /\ ret' = Answer(t, from + steps)
  /\ UNCHANGED <<m_numRecords, m_period>>

AtAhead(t) ==
  /\ t < m_numRecords /\ Offset(t) # 0
  /\ Distance(t) > 0 /\ Distance(t) < Offset(t)
  /\ Walk(t, m_lastHdr, Distance(t))

AtFromPoint(t) ==
  /\ t < m_numRecords /\ Offset(t) # 0
  /\ ~(Distance(t) > 0 /\ Distance(t) < Offset(t))
  /\ Walk(t, Record(Bucket(t)), Offset(t))

At(t) == AtRefused(t) \/ AtPoint(t) \/ AtAhead(t) \/ AtFromPoint(t)

Next == NewerFile \/ \E t \in Index : At(t)

Spec == Init /\ [][Next]_vars

-----------------------------------------------------------------------------
(* Properties *)

\* Every variable keeps to its type; the cursor lies inside the file.
TypeOK ==
  /\ m_numRecords \in 0 .. MaxRecords
  /\ m_period \in 1 .. MaxPeriod + DefaultPeriod
  /\ m_lastIndex \in Index /\ (m_lastIndex = 0 \/ m_lastIndex < m_numRecords)
  /\ m_lastHdr \in Index
  /\ walked \in Nat
  /\ ret = None \/ \E t \in Index, r \in Index \cup {Throw} : ret = Answer(t, r)

\* The cached header is the one of the cached position, whichever of the
\* ways through at() the calls before took: a walk that starts at the header
\* and counts from the position never ends at another record.
CursorInPlace == m_lastHdr = m_lastIndex

\* No call passes as many headers as lie between two index points, although
\* it may start from wherever the call before ended.
WalkBounded == walked < m_period

\* size(), computed from the index points and the remainder, is the number of
\* records the scan has counted, in every file that has a record.  In one that
\* has none the remainder has wrapped, and size() is not 0.
SizeIsNumRecords == m_numRecords > 0 => Size = m_numRecords

\* at() answers as ReaderBase promises: record t, or an exception past the
\* end, whatever was asked before.
Base == INSTANCE ReaderBase WITH size <- m_numRecords
ImplementsReaderBase == Base!Spec

=============================================================================
