--------------------------- MODULE PyStreamProofs ---------------------------
(***************************************************************************)
(* IndexingReader and PyStream, which makes use of it.                     *)
(*                                                                         *)
(* The reader is proved for files of any length, index points at any       *)
(* distance and any sequence of calls; the theorems about it cite its own  *)
(* assumption only.  The stream functions are proved for streams of any    *)
(* length, any number of them and any order of the calls: whatever the     *)
(* functions do is what an IndexingReader may do, next() keeps the records *)
(* in order, and at() is safe.                                             *)
(***************************************************************************)
EXTENDS PyStream, FiniteSetTheorems, TLAPS

-----------------------------------------------------------------------------
(* Arithmetic of the index points and of size_t *)

\* Division leaves a remainder that is smaller than the divisor.
LEMMA Division ==
  ASSUME NEW t \in Nat, NEW p \in Nat \ {0}
  PROVE  /\ t \div p \in Nat
         /\ (t \div p) * p \in Nat
         /\ t - (t \div p) * p \in 0 .. p - 1
OBVIOUS

\* A multiple leaves no remainder, and a number without one is a multiple.
LEMMA Multiples ==
  ASSUME NEW p \in Nat \ {0}
  PROVE  /\ \A m \in Nat : m * p \in Nat /\ (m * p) % p = 0
         /\ \A t \in Nat : t % p = t - (t \div p) * p
<1>1. ASSUME NEW t \in Nat PROVE t % p = t - (t \div p) * p /\ t % p \in 0 .. p - 1
  OBVIOUS
<1>2. ASSUME NEW a \in Int, a * p \in 0 .. p - 1 PROVE a * p = 0
  <2>1. CASE a = 0
    BY <2>1
  <2>2. CASE a >= 1
    <3>1. (a - 1) * p >= 0
      BY <2>2
    <3>2. (a - 1) * p = a * p - p
      OBVIOUS
    <3>3. QED
      BY <1>2, <3>1, <3>2
  <2>3. CASE a <= -1
    <3>1. (0 - a) * p >= 0 /\ (0 - a - 1) * p >= 0
      BY <2>3
    <3>2. (0 - a - 1) * p = 0 - a * p - p
      OBVIOUS
    <3>3. QED
      BY <1>2, <3>1, <3>2
  <2>4. QED
    BY <2>1, <2>2, <2>3
<1>3. ASSUME NEW m \in Nat PROVE m * p \in Nat /\ (m * p) % p = 0
  <2> DEFINE x == m * p
             q == x \div p
  <2>1. x \in Nat
    OBVIOUS
  <2>2. x % p = x - q * p /\ x % p \in 0 .. p - 1 /\ q \in Nat
    <3> HIDE DEF x
    <3>1. QED
      BY <2>1
  <2> HIDE DEF q
  <2>3. (m - q) * p = m * p - q * p /\ m - q \in Int
    BY <2>2
  <2>4. (m - q) * p \in 0 .. p - 1 /\ x % p = (m - q) * p
    BY <2>2, <2>3
  <2>5. QED
    BY <1>2, <2>1, <2>3, <2>4
<1>4. QED
  BY <1>1, <1>3

\* The multiples of p below n are those of 0 .. (n - 1) \div p.
LEMMA CountMultiples ==
  ASSUME NEW n \in Nat, n > 0, NEW p \in Nat \ {0}
  PROVE  Cardinality({h \in 0 .. n - 1 : h % p = 0}) = (n - 1) \div p + 1
<1> DEFINE S == {h \in 0 .. n - 1 : h % p = 0}
           k == (n - 1) \div p
           f == [i \in 0 .. k |-> i * p]
<1>1. k \in Nat /\ k * p \in Nat /\ n - 1 - k * p \in 0 .. p - 1
  BY Division
<1> HIDE DEF k
<1>2. \A i \in 0 .. k : f[i] \in S
  <2> SUFFICES ASSUME NEW i \in 0 .. k PROVE i * p \in S
    OBVIOUS
  <2>1. i \in Nat /\ k - i \in Nat
    BY <1>1
  <2>2. i * p \in Nat /\ (i * p) % p = 0
    BY <2>1, Multiples
  <2>3. (k - i) * p \in Nat /\ (k - i) * p = k * p - i * p
    BY <1>1, <2>1
  <2>4. i * p \in 0 .. n - 1
    BY <1>1, <2>2, <2>3
  <2>5. QED
    BY <2>2, <2>4
<1>3. \A i, j \in 0 .. k : f[i] = f[j] => i = j
  <2> SUFFICES ASSUME NEW i \in 0 .. k, NEW j \in 0 .. k, i * p = j * p PROVE i = j
    OBVIOUS
  <2>1. (i - j) * p = 0 /\ i - j \in Int
    OBVIOUS
  <2>2. QED
    BY <2>1
<1>4. \A h \in S : \E i \in 0 .. k : f[i] = h
  <2> SUFFICES ASSUME NEW h \in S PROVE \E i \in 0 .. k : i * p = h
    OBVIOUS
  <2> DEFINE i == h \div p
  <2>1. h \in Nat /\ h % p = 0 /\ h <= n - 1
    OBVIOUS
  <2>2. i \in Nat /\ i * p = h
    BY <2>1, Division, Multiples
  <2> HIDE DEF i
  <2>3. i <= k
    <3>1. CASE i >= k + 1
      <4>1. (i - k - 1) * p >= 0 /\ (i - k - 1) * p = i * p - k * p - p
        BY <1>1, <2>2, <3>1
      <4>2. QED
        BY <1>1, <2>1, <2>2, <4>1
    <3>2. QED
      BY <1>1, <2>2, <3>1
  <2>4. i \in 0 .. k
    BY <1>1, <2>2, <2>3
  <2>5. QED
    BY <2>2, <2>4
<1>5. f \in Bijection(0 .. k, S)
  <2>1. f \in [0 .. k -> S]
    BY <1>2
  <2> HIDE DEF S, f
  <2>2. QED
    BY <1>3, <1>4, <2>1 DEF Bijection, Injection, Surjection, IsInjective
<1>6. IsFiniteSet(0 .. k) /\ Cardinality(0 .. k) = k + 1
  BY <1>1, FS_Interval
<1>7. Cardinality(S) = Cardinality(0 .. k)
  <2> HIDE DEF S, f
  <2>1. ExistsBijection(0 .. k, S)
    BY <1>5 DEF ExistsBijection
  <2>2. QED
    BY <1>6, <2>1, FS_Bijection
<1>8. QED
  BY <1>6, <1>7 DEF k

\* The wrap of size_t makes a position behind the cursor look farther away
\* than any file is long.
LEMMA Wrap ==
  ASSUME NEW t \in Index, NEW l \in Index
  PROVE  /\ t >= l => (t - l) % Word = t - l
         /\ t < l => (t - l) % Word = Word + t - l
         /\ (t - l) % Word \in Nat
BY IndexingAssumption DEF Index, DefaultPeriod

-----------------------------------------------------------------------------
(* The inductive invariant: TypeOK would not be inductive without the      *)
(* cursor, whose header bounds where a walk ends.                          *)

Inv ==
  /\ TypeOK
  /\ CursorInPlace
  /\ WalkBounded

LEMMA InitInv == Init => Inv
BY IndexingAssumption
   DEF Init, Inv, TypeOK, CursorInPlace, WalkBounded, Index, Period, DefaultPeriod

LEMMA OpenInv ==
  ASSUME Inv, NEW n \in 0 .. MaxRecords, NEW p \in 0 .. MaxPeriod, Open(n, p)
  PROVE  Inv'
BY IndexingAssumption
   DEF Open, Inv, TypeOK, CursorInPlace, WalkBounded, Index, Period, DefaultPeriod

\* Where a question leads, on each way through at().
LEMMA AtRefusedInv ==
  ASSUME Inv, NEW t \in Index, AtRefused(t)
  PROVE  Inv' /\ ret' = Answer(t, Throw)
BY DEF AtRefused, Inv, TypeOK, CursorInPlace, WalkBounded, cursor

LEMMA AtPointInv ==
  ASSUME Inv, NEW t \in Index, AtPoint(t)
  PROVE  Inv' /\ ret' = Answer(t, t)
<1>1. Record(Bucket(t)) = t
  BY Division DEF AtPoint, Inv, TypeOK, Index, Offset, Bucket, Record
<1>2. QED
  BY <1>1 DEF AtPoint, Inv, TypeOK, CursorInPlace, WalkBounded, cursor

\* A walk that ends at t and passes fewer headers than a period.
LEMMA WalkInv ==
  ASSUME Inv, NEW t \in Index, t < m_numRecords,
         NEW from \in Index, NEW steps \in Nat,
         steps < m_period, from + steps = t,
         Walk(t, from, steps)
  PROVE  Inv' /\ ret' = Answer(t, t)
BY DEF Walk, Inv, TypeOK, CursorInPlace, WalkBounded

LEMMA AtAheadInv ==
  ASSUME Inv, NEW t \in Index, AtAhead(t)
  PROVE  Inv' /\ ret' = Answer(t, t)
<1>1. Offset(t) \in 0 .. m_period - 1
  BY Division DEF Inv, TypeOK, Index, Offset, Bucket
<1>2. /\ m_lastHdr = m_lastIndex
      /\ m_lastIndex \in Index
  BY DEF Inv, TypeOK, CursorInPlace
<1>3. Distance(t) = t - m_lastIndex /\ Distance(t) \in Nat
  <2>1. Offset(t) < MaxPeriod + DefaultPeriod
    BY <1>1, IndexingAssumption DEF Inv, TypeOK, DefaultPeriod
  <2>2. CASE t < m_lastIndex      \* too far: no such step
    BY <2>1, <2>2, <1>1, <1>2, Wrap, IndexingAssumption
       DEF AtAhead, Distance, Index, Inv, TypeOK, DefaultPeriod
  <2>3. CASE t >= m_lastIndex
    BY <2>3, <1>2, Wrap DEF Distance, Index
  <2>4. QED  BY <2>2, <2>3, <1>2 DEF Index
<1>4. /\ Distance(t) < m_period
      /\ m_lastHdr + Distance(t) = t
      /\ Walk(t, m_lastHdr, Distance(t))
      /\ t < m_numRecords
  BY <1>1, <1>2, <1>3 DEF AtAhead, Index, Inv, TypeOK
<1>5. QED  BY <1>2, <1>3, <1>4, WalkInv

LEMMA AtFromPointInv ==
  ASSUME Inv, NEW t \in Index, AtFromPoint(t)
  PROVE  Inv' /\ ret' = Answer(t, t)
<1>1. /\ Offset(t) \in 0 .. m_period - 1
      /\ Record(Bucket(t)) \in Nat
      /\ Record(Bucket(t)) + Offset(t) = t
  BY Division DEF Inv, TypeOK, Index, Offset, Bucket, Record
<1>2. Record(Bucket(t)) \in Index
  BY <1>1, IndexingAssumption DEF Index, Inv, TypeOK
<1>3. /\ Walk(t, Record(Bucket(t)), Offset(t))
      /\ t < m_numRecords
      /\ Offset(t) \in Nat /\ Offset(t) < m_period
  BY <1>1 DEF AtFromPoint, Inv, TypeOK
<1>4. QED  BY <1>1, <1>2, <1>3, WalkInv

LEMMA StepInv ==
  ASSUME Inv, [Next]_vars
  PROVE  Inv'
<1>1. ASSUME NewerFile PROVE Inv'
  BY <1>1, OpenInv DEF NewerFile
<1>2. ASSUME NEW t \in Index, At(t) PROVE Inv'
  BY <1>2, AtRefusedInv, AtPointInv, AtAheadInv, AtFromPointInv DEF At
<1>3. CASE UNCHANGED vars
  BY <1>3 DEF vars, cursor, Inv, TypeOK, CursorInPlace, WalkBounded
<1>4. QED  BY <1>1, <1>2, <1>3 DEF Next

\* What size() computes from the index points.
LEMMA SizeLemma ==
  ASSUME TypeOK
  PROVE  SizeIsNumRecords
<1> SUFFICES ASSUME m_numRecords > 0 PROVE Size = m_numRecords
  BY DEF SizeIsNumRecords
<1> DEFINE n == m_numRecords
           p == m_period
<1>1. /\ n \in Nat /\ n > 0 /\ p \in Nat \ {0}
      /\ Word \in Nat /\ n < Word
  BY IndexingAssumption DEF TypeOK, DefaultPeriod
<1>2. IndexedSize = (n - 1) \div p + 1
  <2> HIDE DEF n, p
  <2>1. Cardinality({h \in 0 .. n - 1 : h % p = 0}) = (n - 1) \div p + 1
    BY <1>1, CountMultiples
  <2>2. QED
    BY <2>1 DEF IndexedSize, n, p
<1>3. m_remainder = (n - 1) % p
  <2> HIDE DEF n, p
  <2>1. (n - 1) % Word = n - 1
    BY <1>1
  <2>2. QED
    BY <2>1 DEF m_remainder, n, p
<1> HIDE DEF n, p
<1>4. /\ n - 1 \in Nat /\ (n - 1) \div p \in Nat /\ ((n - 1) \div p) * p \in Nat
      /\ (n - 1) % p = n - 1 - ((n - 1) \div p) * p
  <2> DEFINE u == n - 1
  <2>1. u \in Nat
    BY <1>1
  <2> HIDE DEF u
  <2>2. u \div p \in Nat /\ (u \div p) * p \in Nat /\ u % p = u - (u \div p) * p
    BY <1>1, <2>1, Division, Multiples
  <2>3. QED
    BY <2>1, <2>2 DEF u
<1>5. Size = n % Word
  <2> DEFINE k == (n - 1) \div p
  <2>1. k \in Nat /\ k * p \in Nat /\ IndexedSize = k + 1 /\ m_remainder = n - 1 - k * p
    BY <1>2, <1>3, <1>4
  <2> HIDE DEF k
  <2>2. IndexedSize - 1 = k
    BY <2>1
  <2>3. (IndexedSize - 1) * p + m_remainder + 1 = n
    BY <1>1, <2>1, <2>2
  <2>4. QED
    BY <2>3 DEF Size, p
<1>6. n % Word = n
  BY <1>1
<1>7. QED
  BY <1>5, <1>6 DEF n

-----------------------------------------------------------------------------
(* Theorems *)

\* The invariant holds of every reader: types, the cursor and the walks.
THEOREM InvHolds == Spec => []Inv
<1>1. Init => Inv
  BY InitInv
<1>2. Inv /\ [Next]_vars => Inv'
  BY StepInv
<1>3. QED  BY <1>1, <1>2, PTL DEF Spec

\* Every variable keeps its type and the cursor stays inside the file.
THEOREM TypeCorrect == Spec => []TypeOK
BY InvHolds, PTL DEF Inv

\* The cached header is always the one of the cached position.
THEOREM CursorCorrect == Spec => []CursorInPlace
BY InvHolds, PTL DEF Inv

\* No call of at() passes a whole period of headers.
THEOREM WalksAreShort == Spec => []WalkBounded
BY InvHolds, PTL DEF Inv

\* size(), computed in size_t from the index points and the remainder, is the
\* number of records of every file that has one, at any index period.
THEOREM SizeCorrect == Spec => []SizeIsNumRecords
BY InvHolds, SizeLemma, PTL DEF Inv

\* IndexingReader implements ReaderBase: each call answers with the record
\* asked for, or refuses an index past the end.
THEOREM Implements == Spec => ImplementsReaderBase
<1>1. Init => Base!Init
  BY DEF Init, Base!Init
<1>2. ASSUME Inv, [Next]_vars
      PROVE  [Base!Next]_<<m_numRecords, ret>>
  <2>1. ASSUME NewerFile PROVE Base!Open
    BY <2>1 DEF NewerFile, Open, Base!Open
  <2>2. ASSUME NEW t \in Index, At(t) PROVE Base!At(t)
    <3>1. CASE AtRefused(t)
      BY <3>1, <1>2, AtRefusedInv
         DEF AtRefused, Answer, Base!At, Base!Answer, Index, Inv, TypeOK
    <3>2. CASE AtPoint(t) \/ AtAhead(t) \/ AtFromPoint(t)
      <4>1. ret' = Answer(t, t)
        BY <3>2, <1>2, AtPointInv, AtAheadInv, AtFromPointInv
      <4>2. t < m_numRecords /\ UNCHANGED m_numRecords
        BY <3>2 DEF AtPoint, AtAhead, AtFromPoint, Walk
      <4>3. QED  BY <4>1, <4>2 DEF Answer, Base!At, Base!Answer
    <3>3. QED  BY <2>2, <3>1, <3>2 DEF At
  <2>3. CASE UNCHANGED vars
    BY <2>3 DEF vars
  <2>4. QED  BY <1>2, <2>1, <2>2, <2>3 DEF Next, Base!Next, Index, Base!Index
<1>3. QED  BY <1>1, <1>2, InvHolds, PTL DEF Spec, ImplementsReaderBase, Base!Spec

-----------------------------------------------------------------------------
(* The invariant: while the interpreter runs, next() stands at the record  *)
(* it has returned last, and in front of the end of some file.             *)

InOrder == \A i \in 1 .. Len(streamed) - 1 : streamed[i + 1] = streamed[i] + 1

AtLast ==
  alive /\ streamed # <<>> => streamed[Len(streamed)] = sIRdrCurrOffset

PyInv ==
  /\ Inv
  /\ PyTypeOK
  /\ InOrder
  /\ AtLast
  /\ alive => sIRdrCurrOffset < MaxRecords

LEMMA PyConstants ==
  /\ MaxRecords \in Nat \ {0} /\ Word \in Nat \ {0} /\ Word > MaxRecords
  /\ Index \subseteq 0 .. Word - 1 /\ Index \subseteq Nat /\ Throw \notin Nat
BY IndexingAssumption, PyStreamAssumption DEF Index, DefaultPeriod

\* size() is a size_t.
LEMMA SizeType == TypeOK => Size \in 0 .. Word - 1
<1> SUFFICES ASSUME TypeOK PROVE Size \in 0 .. Word - 1
  OBVIOUS
<1>1. /\ m_numRecords \in Nat /\ m_period \in Nat \ {0} /\ Word \in Nat \ {0}
  BY PyConstants, IndexingAssumption DEF TypeOK, DefaultPeriod
<1>2. IndexedSize \in Nat
  <2>1. IsFiniteSet(0 .. m_numRecords - 1)
    BY <1>1, FS_Interval
  <2>2. IsFiniteSet({h \in 0 .. m_numRecords - 1 : h % m_period = 0})
    BY <2>1, FS_Subset
  <2>3. QED
    BY <2>2, FS_CardinalityType DEF IndexedSize
<1>3. m_remainder \in Int
  <2>1. (m_numRecords - 1) % Word \in Int
    BY <1>1
  <2>2. QED
    BY <1>1, <2>1 DEF m_remainder
<1>4. (IndexedSize - 1) * m_period + m_remainder + 1 \in Int
  BY <1>1, <1>2, <1>3
<1>5. QED
  BY <1>1, <1>4 DEF Size

LEMMA PyInitInv == PyInit => PyInv
<1> SUFFICES ASSUME PyInit PROVE PyInv
  OBVIOUS
<1>1. Inv
  BY InitInv DEF PyInit
<1>2. streamed = <<>> /\ streamed \in Seq(Index) /\ Len(streamed) = 0
  BY DEF PyInit
<1>3. PyTypeOK
  <2>1. opened \in BOOLEAN /\ alive \in BOOLEAN
    BY DEF PyInit
  <2>2. sIRdrCurrOffset \in Nat /\ opens \in 0 .. MaxOpens /\ result = PyNone
    BY PyStreamAssumption DEF PyInit
  <2>3. QED
    BY <1>1, <1>2, <2>1, <2>2 DEF PyTypeOK, Inv
<1>4. QED
  BY <1>1, <1>2, <1>3, PyConstants DEF PyInit, PyInv, InOrder, AtLast

\* A sequence of records grows by the one that follows its last.
LEMMA AppendLemma ==
  ASSUME NEW s \in Seq(Index), NEW r \in Index, s # <<>> => r = s[Len(s)] + 1,
         \A i \in 1 .. Len(s) - 1 : s[i + 1] = s[i] + 1
  PROVE  /\ Append(s, r) \in Seq(Index) /\ Append(s, r) # <<>>
         /\ Append(s, r)[Len(Append(s, r))] = r
         /\ \A i \in 1 .. Len(Append(s, r)) - 1 : Append(s, r)[i + 1] = Append(s, r)[i] + 1
<1>1. /\ Append(s, r) \in Seq(Index) /\ Len(Append(s, r)) = Len(s) + 1
      /\ Append(s, r)[Len(s) + 1] = r /\ Len(s) \in Nat
      /\ \A i \in 1 .. Len(s) : Append(s, r)[i] = s[i]
  OBVIOUS
<1>2. Append(s, r) # <<>>
  BY <1>1
<1>3. ASSUME NEW i \in 1 .. Len(s) PROVE Append(s, r)[i + 1] = Append(s, r)[i] + 1
  <2>1. CASE i = Len(s)
    <3>1. s # <<>>
      OBVIOUS
    <3>2. QED
      BY <1>1, <2>1, <3>1
  <2>2. CASE i < Len(s)
    <3>1. i \in 1 .. Len(s) - 1 /\ i + 1 \in 1 .. Len(s)
      BY <1>1, <2>2
    <3>2. QED
      BY <1>1, <3>1
  <2>3. QED
    BY <1>1, <2>1, <2>2
<1>4. QED
  BY <1>1, <1>2, <1>3

-----------------------------------------------------------------------------
(* The functions *)

\* at(pos) of the reader, asked by the module.
LEMMA AtLemma ==
  ASSUME Inv, NEW pos \in Index, At(pos)
  PROVE  /\ Inv' /\ m_numRecords' = m_numRecords
         /\ pos < m_numRecords => ret' = Answer(pos, pos) /\ ret'.record = pos
         /\ ~(pos < m_numRecords) => ret'.record = Throw
         /\ pos \in Nat /\ pos # Throw
<1>1. pos \in Nat /\ pos # Throw /\ m_numRecords \in Nat
  BY PyConstants DEF Inv, TypeOK
<1>2. CASE AtRefused(pos)
  <2>1. Inv' /\ ret' = Answer(pos, Throw)
    BY <1>2, AtRefusedInv
  <2>2. ~(pos < m_numRecords) /\ m_numRecords' = m_numRecords
    BY <1>1, <1>2 DEF AtRefused
  <2>3. QED
    BY <1>1, <2>1, <2>2 DEF Answer
<1>3. CASE AtPoint(pos) \/ AtAhead(pos) \/ AtFromPoint(pos)
  <2>1. Inv' /\ ret' = Answer(pos, pos)
    BY <1>3, AtPointInv, AtAheadInv, AtFromPointInv
  <2>2. pos < m_numRecords /\ m_numRecords' = m_numRecords
    BY <1>3 DEF AtPoint, AtAhead, AtFromPoint, Walk
  <2>3. QED
    BY <1>1, <2>1, <2>2 DEF Answer
<1>4. QED
  BY <1>2, <1>3 DEF At

\* A step that leaves the stream and the offset alone.
LEMMA QuietLemma ==
  ASSUME PyInv, Inv', UNCHANGED <<sIRdrCurrOffset, streamed>>,
         opened' \in BOOLEAN, alive' \in BOOLEAN, opens' \in 0 .. MaxOpens,
         alive' => alive,
         \/ result' \in {PyNone, RuntimeError}
         \/ result'.kind = "value" /\ result'.record \in 0 .. Word - 1
  PROVE  PyInv'
<1>1. PyTypeOK'
  BY DEF PyInv, PyTypeOK, Inv, PyNone, RuntimeError
<1>2. InOrder' /\ AtLast'
  BY DEF PyInv, InOrder, AtLast
<1>3. alive' => sIRdrCurrOffset' < MaxRecords
  BY DEF PyInv
<1>4. QED
  BY <1>1, <1>2, <1>3 DEF PyInv

LEMMA SameReader == ASSUME Inv, UNCHANGED vars PROVE Inv'
BY DEF vars, cursor, Inv, TypeOK, CursorInPlace, WalkBounded

LEMMA OpenStreamInv ==
  ASSUME PyInv, OpenStream PROVE PyInv' /\ NewerFile
<1>1. PICK n \in 0 .. MaxRecords, p \in Periods : Open(n, p) /\ result' = Value(Size')
  BY DEF OpenStream
<1>2. p \in 0 .. MaxPeriod
  BY PyStreamAssumption
<1>3. Inv'
  BY <1>1, <1>2, OpenInv DEF PyInv
<1>4. (TypeOK => Size \in 0 .. Word - 1)'
  BY SizeType, PTL
<1>5. Size' \in 0 .. Word - 1
  BY <1>3, <1>4 DEF Inv
<1>6. result'.kind = "value" /\ result'.record \in 0 .. Word - 1
  BY <1>1, <1>5 DEF Value
<1>7. streamed' = <<>> /\ streamed' \in Seq(Index) /\ Len(streamed') = 0
  BY DEF OpenStream
<1>8. PyTypeOK'
  <2>1. opens' \in 0 .. MaxOpens
    BY PyStreamAssumption DEF OpenStream, PyInv, PyTypeOK
  <2>2. QED
    BY <1>3, <1>6, <1>7, <2>1 DEF OpenStream, PyInv, PyTypeOK, Inv
<1>9. InOrder' /\ AtLast'
  BY <1>7 DEF InOrder, AtLast
<1>10. QED
  BY <1>1, <1>2, <1>3, <1>8, <1>9 DEF PyInv, OpenStream, NewerFile

\* A call that does not ask the reader.
AloneNext ==
  OpenFails \/ CloseStream \/ NotOpened \/ NextAtEnd \/ NumRecords
    \/ (\E pos \in Index : RecordAtRefused(pos)) \/ Terminated

LEMMA AloneInv ==
  ASSUME PyInv, AloneNext \/ UNCHANGED allVars PROVE PyInv' /\ UNCHANGED vars
<1>1. UNCHANGED vars /\ UNCHANGED <<sIRdrCurrOffset, streamed>>
  BY DEF AloneNext, OpenFails, CloseStream, NotOpened, NextAtEnd, NumRecords,
         RecordAtRefused, Terminated, allVars, pyVars
<1>2. Inv'
  BY <1>1, SameReader DEF PyInv
<1>3. opened' \in BOOLEAN /\ alive' \in BOOLEAN /\ (alive' => alive)
  <2>1. opened' = opened \/ opened' = FALSE
    BY DEF AloneNext, OpenFails, CloseStream, NotOpened, NextAtEnd, NumRecords,
           RecordAtRefused, Terminated, allVars, pyVars
  <2>2. alive' = alive \/ alive' = FALSE
    BY DEF AloneNext, OpenFails, CloseStream, NotOpened, NextAtEnd, NumRecords,
           RecordAtRefused, Terminated, allVars, pyVars
  <2>3. opened \in BOOLEAN /\ alive \in BOOLEAN
    BY DEF PyInv, PyTypeOK
  <2>4. opened' \in BOOLEAN
    BY <2>1, <2>3
  <2>5. alive' \in BOOLEAN
    BY <2>2, <2>3
  <2>6. alive' => alive
    BY <2>2
  <2>7. QED
    BY <2>4, <2>5, <2>6
<1>4. opens' \in 0 .. MaxOpens
  BY PyStreamAssumption
     DEF AloneNext, OpenFails, CloseStream, NotOpened, NextAtEnd, NumRecords,
         RecordAtRefused, Terminated, allVars, pyVars, PyInv, PyTypeOK
<1>5. \/ result' \in {PyNone, RuntimeError}
      \/ result'.kind = "value" /\ result'.record \in 0 .. Word - 1
  <2>1. Size \in 0 .. Word - 1
    BY SizeType DEF PyInv, Inv
  <2>2. Value(Size).kind = "value" /\ Value(Size).record = Size
    BY DEF Value
  <2>3. result' \in {result, PyNone, RuntimeError, Value(Size)}
    BY DEF AloneNext, OpenFails, CloseStream, NotOpened, NextAtEnd, NumRecords,
           RecordAtRefused, Terminated, allVars, pyVars
  <2>4. \/ result \in {PyNone, RuntimeError}
        \/ result.kind = "value" /\ result.record \in 0 .. Word - 1
    BY DEF PyInv, PyTypeOK
  <2>5. QED
    BY <2>1, <2>2, <2>3, <2>4
<1>6. QED
  BY <1>1, <1>2, <1>3, <1>4, <1>5, QuietLemma

LEMMA RecordAtInv ==
  ASSUME PyInv, NEW pos \in Index, RecordAt(pos)
  PROVE  PyInv' /\ (m_numRecords > 0 => alive')
<1>1. /\ Inv' /\ pos \in Nat /\ pos # Throw
      /\ pos < m_numRecords => ret'.record = pos
      /\ ~(pos < m_numRecords) => ret'.record = Throw
  BY AtLemma DEF RecordAt, PyInv
<1>2. Return(pos) /\ alive /\ pos < Size
      /\ UNCHANGED <<opened, sIRdrCurrOffset, opens, streamed>>
  BY DEF RecordAt
<1>3. CASE ret'.record = Throw
  <2>1. alive' = FALSE /\ result' = result
    BY <1>2, <1>3 DEF Return
  <2>2. PyInv'
    BY <1>1, <1>2, <2>1, QuietLemma DEF PyInv, PyTypeOK
  <2>3. ~(m_numRecords > 0)
    <3>1. m_numRecords > 0 => Size = m_numRecords
      BY SizeLemma DEF PyInv, Inv, SizeIsNumRecords
    <3>2. QED
      BY <1>1, <1>2, <1>3, <3>1
  <2>4. QED
    BY <2>2, <2>3
<1>4. CASE ret'.record # Throw
  <2>1. ret'.record = pos /\ result' = Value(pos) /\ alive' = alive
    BY <1>1, <1>2, <1>4 DEF Return
  <2>2. result'.kind = "value" /\ result'.record \in 0 .. Word - 1
    BY <2>1, PyConstants DEF Value
  <2>3. PyInv'
    BY <1>1, <1>2, <2>1, <2>2, QuietLemma DEF PyInv, PyTypeOK
  <2>4. QED
    BY <1>2, <2>1, <2>3
<1>5. QED
  BY <1>3, <1>4

LEMMA NextRecordInv ==
  ASSUME PyInv, NextRecord
  PROVE  PyInv' /\ sIRdrCurrOffset' \in Index
<1> DEFINE pos == sIRdrCurrOffset + 1
<1>1. /\ alive /\ opened /\ sIRdrCurrOffset' = pos /\ At(pos) /\ Return(pos)
      /\ streamed' = IF alive' THEN Append(streamed, ret'.record) ELSE streamed
      /\ opened' = opened /\ opens' = opens
  BY DEF NextRecord, Return
<1>2. pos \in Index /\ sIRdrCurrOffset \in Nat
  BY <1>1, PyConstants DEF PyInv, PyTypeOK, Index
<1>3. /\ Inv' /\ pos \in Nat /\ pos # Throw
      /\ pos < m_numRecords => ret'.record = pos
      /\ ~(pos < m_numRecords) => ret'.record = Throw
  <2> HIDE DEF pos
  <2>1. QED
    BY <1>1, <1>2, AtLemma DEF PyInv
<1>4. CASE ret'.record = Throw
  <2>1. alive' = FALSE /\ result' = result /\ streamed' = streamed
    BY <1>1, <1>4 DEF Return
  <2>2. PyTypeOK'
    BY <1>1, <1>2, <1>3, <2>1 DEF PyInv, PyTypeOK, Inv
  <2>3. InOrder'
    BY <2>1 DEF PyInv, InOrder
  <2>4. QED
    BY <1>1, <1>2, <1>3, <2>1, <2>2, <2>3 DEF PyInv, AtLast
<1>5. CASE ret'.record # Throw
  <2>1. ret'.record = pos /\ result' = Value(pos) /\ alive' = alive /\ pos < m_numRecords
    BY <1>1, <1>3, <1>5 DEF Return
  <2>2. streamed' = Append(streamed, pos)
    BY <1>1, <2>1
  <2>3. /\ streamed \in Seq(Index) /\ (streamed # <<>> => pos = streamed[Len(streamed)] + 1)
        /\ \A i \in 1 .. Len(streamed) - 1 : streamed[i + 1] = streamed[i] + 1
    BY <1>1 DEF PyInv, PyTypeOK, AtLast, InOrder
  <2>4. /\ streamed' \in Seq(Index) /\ streamed' # <<>>
        /\ streamed'[Len(streamed')] = pos
        /\ \A i \in 1 .. Len(streamed') - 1 : streamed'[i + 1] = streamed'[i] + 1
    <3> HIDE DEF pos
    <3>1. QED
      BY <1>2, <2>2, <2>3, AppendLemma
  <2>5. result'.kind = "value" /\ result'.record \in 0 .. Word - 1
    BY <1>2, <2>1, PyConstants DEF Value
  <2>6. PyTypeOK'
    BY <1>1, <1>2, <1>3, <2>1, <2>4, <2>5 DEF PyInv, PyTypeOK, Inv
  <2>7. InOrder' /\ AtLast'
    BY <1>1, <2>4 DEF InOrder, AtLast
  <2>8. sIRdrCurrOffset' < MaxRecords
    BY <1>1, <1>2, <2>1, PyConstants DEF PyInv, Inv, TypeOK
  <2>9. QED
    BY <1>1, <1>2, <1>3, <2>6, <2>7, <2>8 DEF PyInv
<1>6. QED
  BY <1>4, <1>5

LEMMA PyStepInv == PyInv /\ [PyNext]_allVars => PyInv' /\ [Next]_vars
<1> SUFFICES ASSUME PyInv, [PyNext]_allVars PROVE PyInv' /\ [Next]_vars
  OBVIOUS
<1>1. CASE OpenStream
  BY <1>1, OpenStreamInv DEF Next
<1>2. CASE NextRecord
  <2>1. At(sIRdrCurrOffset')
    BY <1>2 DEF NextRecord
  <2>2. QED
    BY <1>2, <2>1, NextRecordInv DEF Next
<1>3. ASSUME NEW pos \in Index, RecordAt(pos) PROVE PyInv' /\ [Next]_vars
  <2>1. At(pos)
    BY <1>3 DEF RecordAt
  <2>2. QED
    BY <1>3, <2>1, RecordAtInv DEF Next
<1>4. CASE AloneNext \/ UNCHANGED allVars
  BY <1>4, AloneInv
<1>5. QED
  BY <1>1, <1>2, <1>3, <1>4 DEF PyNext, AloneNext

LEMMA PyInvHolds == PySpec => []PyInv
BY PyInitInv, PyStepInv, PTL DEF PySpec

-----------------------------------------------------------------------------
(* Theorems *)

\* next() gives the records of a stream in order, none twice and none left
\* out between, whatever at() and size() are asked in between.
THEOREM StreamStaysInOrder == PySpec => []StreamInOrder
<1>1. PyInv => StreamInOrder
  BY DEF PyInv, StreamInOrder, InOrder
<1>2. QED
  BY <1>1, PyInvHolds, PTL

\* In a stream that has records, at() lets no exception end the interpreter:
\* the size it compares with is the one the reader checks.
THEOREM AtStaysGuarded == PySpec => AtIsGuarded
<1>1. PyInv /\ [PyNext]_allVars =>
        [\A pos \in Index : RecordAt(pos) /\ m_numRecords > 0 => alive']_allVars
  BY RecordAtInv
<1>2. QED
  BY <1>1, PyInvHolds, PTL DEF PySpec, AtIsGuarded

\* Whatever the functions of the module do to the static reader is what an
\* IndexingReader may do, so that what is proved of that holds here.
THEOREM ModuleUsesReader == PySpec => Spec
<1>1. PyInit => Init
  BY DEF PyInit
<1>2. QED
  BY <1>1, PyInvHolds, PyStepInv, PTL DEF PySpec, Spec

=============================================================================
