----------------------------- MODULE ZlibReader -----------------------------
(***************************************************************************)
(* The reader of compressed record files, class ZlibReader of              *)
(* src/src/Streamers.cxx.  The file is a sequence of buckets; the reader   *)
(* keeps a few of them uncompressed, in buffers sorted by bucket, and      *)
(* loads a bucket over the buffer that was loaded longest ago.             *)
(*                                                                         *)
(* A record is named by its position in the file.  The file has been       *)
(* closed in good order and has no empty bucket: as ZlibTrace shows, only  *)
(* the first could be, if a record were as long as a bucket.  The          *)
(* correction of the records' times is modelled there, too, with the       *)
(* writer.                                                                 *)
(***************************************************************************)
EXTENDS Integers, Sequences, FiniteSetsExt, Functions

CONSTANTS
  MaxBuckets, MaxItems, \* bounds: buckets in a file, records in a bucket
  NumBuffers,           \* nUncompBuckets, the uncompressed buffers
  MaxTime,              \* bound: the clock, in microseconds
  Throw,                \* the answer is an exception
  None                  \* nothing has been asked; no buffer

ASSUME ZlibReaderAssumption ==
  /\ MaxBuckets \in Nat \ {0} /\ MaxItems \in Nat \ {0}
  /\ NumBuffers \in Nat \ {0}
  /\ MaxTime \in Nat \ {0}
  /\ Throw \notin Nat /\ None \notin Nat

VARIABLES
  items,               \* itemsInBucket of each bucket of the file
  rStart,              \* first record of each bucket, then the number of records
  m_buffers,           \* sorted: bucketIndex and lastUse of each buffer
  content,             \* the records in a buffer
  m_currBucket,
  m_recordsInCurrBuffer,
  swaps,               \* there are more buffers than std::sort moves whole (16)
  now,                 \* the steady clock, in whole microseconds
  newest,              \* history: the buffer loaded last
  ret                  \* the last question and its answer, or None

current == <<m_currBucket, m_recordsInCurrBuffer>>
bucketIndices == <<items, rStart>>
vars == <<bucketIndices, m_buffers, content, current, swaps, now, newest, ret>>

MaxRecords == MaxBuckets * MaxItems
Index == 0 .. MaxRecords
Buffer == 1 .. NumBuffers       \* bucketBuff and records of a buffer
Answer(t, record) == [index |-> t, record |-> record]

-----------------------------------------------------------------------------
(* The bucket index, built by the constructor's scan *)

NumBuckets == Len(items)
Bucket == 0 .. NumBuckets - 1
m_lastBucket == NumBuckets      \* an unused buffer is marked with it

REnd(b) == rStart[b + 1] - 1
m_numRecords == rStart[NumBuckets]

\* The scan adds up the items of the buckets.
Scanned ==
  /\ rStart[0] = 0
  /\ \A b \in Bucket : rStart[b + 1] = rStart[b] + items[b + 1]

\* std::lower_bound over rEnd; past the end when all are smaller.
SearchFrom(t) == Min({b \in Bucket : REnd(b) >= t} \cup {NumBuckets})

-----------------------------------------------------------------------------
(* The buffers *)

BuffRec(b, time, buffer) ==
  [bucketIndex |-> b, lastUse |-> time, buffer |-> buffer]

Position == 1 .. Len(m_buffers)

\* std::lower_bound over bucketIndex; past the end when all are smaller.
LowerBound(b) ==
  Min({i \in Position : m_buffers[i].bucketIndex >= b} \cup {Len(m_buffers) + 1})

Cached(b) ==
  LET i == LowerBound(b) IN i \in Position /\ m_buffers[i].bucketIndex = b

\* std::sort by bucketIndex.  A few elements are moved whole; of many, some
\* are swapped, and the swap of BuffRec leaves lastUse behind.
Orders == {p \in [Position -> Position] : IsInjective(p)}

Arranged(recs, place, time) ==
  [i \in Position |->
     BuffRec(recs[place[i]].bucketIndex, recs[time[i]].lastUse,
             recs[place[i]].buffer)]

IsSorted(recs) ==
  \A i, j \in Position : i < j => recs[i].bucketIndex <= recs[j].bucketIndex

SortResults(recs) ==
  LET arranged == {Arranged(recs, place, IF swaps THEN time ELSE place) :
                     place \in Orders, time \in Orders}
  IN {s \in arranged : IsSorted(s)}

\* What the caller gets: an element of the current vector, which checks.
RecordIn(records, t, b) ==
  LET k == t - rStart[b] + 1
  IN IF k \in DOMAIN records THEN records[k] ELSE Throw

-----------------------------------------------------------------------------
(* Faulty variants of the searches and of inflation *)

OldestFirst(uses) ==        \* lastUse is never set: the first every time
  1

BucketUpper(t) ==           \* upper_bound: the bucket after a last record
  LET above == {b \in Bucket : REnd(b) > t}
  IN IF above = {} THEN NumBuckets - 1 ELSE Min(above)

-----------------------------------------------------------------------------
(* The searches and inflation *)

\* The search's result when it holds t, else t/m_avgRecordsPerBucket.
BucketOf(t) ==
  LET b == SearchFrom(t)
  IN IF b \in Bucket /\ REnd(b) >= t /\ rStart[b] <= t
     THEN b ELSE (t * NumBuckets) \div m_numRecords

Inflate(b) == [k \in 1 .. items[b + 1] |-> rStart[b] + k - 1]

\* The loop that picks a buffer: the first with the smallest lastUse before
\* now, or the first of all when there is none.
Oldest(uses) ==
  LET before == {i \in Position : uses[i].lastUse < now}
  IN IF before = {} THEN 1
     ELSE CHOOSE i \in before :
            \A j \in before : \/ uses[i].lastUse < uses[j].lastUse
                              \/ uses[i].lastUse = uses[j].lastUse /\ i <= j

-----------------------------------------------------------------------------
(* Construction *)

Init ==
  /\ items \in UNION {[1 .. n -> 1 .. MaxItems] : n \in 1 .. MaxBuckets}
  /\ rStart \in [0 .. NumBuckets -> Index] /\ Scanned
  /\ m_buffers = [i \in 1 .. NumBuffers |-> BuffRec(m_lastBucket, 0, i)]
  /\ content = [b \in Buffer |-> <<>>]
  /\ m_currBucket = m_lastBucket + 1
  /\ m_recordsInCurrBuffer = None
  /\ swaps \in BOOLEAN
  /\ now = 1
  /\ newest = None
  /\ ret = None

\* The next load reads the clock in the same microsecond or in a later one.
Tick == now' \in {now, now + 1} /\ now' <= MaxTime

-----------------------------------------------------------------------------
(* Faulty variants of at(t) *)

LoadUnsorted(t) ==          \* the sort is missing
  LET b == BucketOf(t) IN
  /\ t < m_numRecords /\ b # m_currBucket /\ ~Cached(b)
  /\ LET i == Oldest(m_buffers)
         buffer == m_buffers[i].buffer
     IN /\ m_buffers' = [m_buffers EXCEPT ![i] = BuffRec(b, now, buffer)]
        /\ content' = [content EXCEPT ![buffer] = Inflate(b)]
        /\ m_recordsInCurrBuffer' = buffer
        /\ newest' = buffer
        /\ ret' = Answer(t, RecordIn(content'[buffer], t, b))
  /\ m_currBucket' = b
  /\ Tick
  /\ UNCHANGED <<bucketIndices, swaps>>

AtOtherForgetsCurrent(t) == \* m_currBucket=bucket is missing
  LET b == BucketOf(t)
      buffer == m_buffers[LowerBound(b)].buffer
  IN /\ t < m_numRecords /\ b # m_currBucket /\ Cached(b)
     /\ m_recordsInCurrBuffer' = buffer
     /\ ret' = Answer(t, RecordIn(content[buffer], t, b))
     /\ UNCHANGED <<bucketIndices, m_buffers, content, m_currBucket, swaps, now, newest>>

-----------------------------------------------------------------------------
(* at(t) *)

AtRefused(t) ==
  /\ t >= m_numRecords
  /\ ret' = Answer(t, Throw)
  /\ UNCHANGED <<bucketIndices, m_buffers, content, current, swaps, now, newest>>

AtCurrent(t) ==
  LET b == BucketOf(t) IN
  /\ t < m_numRecords /\ b = m_currBucket
  /\ ret' = Answer(t, RecordIn(content[m_recordsInCurrBuffer], t, b))
  /\ UNCHANGED <<bucketIndices, m_buffers, content, current, swaps, now, newest>>

AtOther(t) ==
  LET b == BucketOf(t)
      buffer == m_buffers[LowerBound(b)].buffer
  IN /\ t < m_numRecords /\ b # m_currBucket /\ Cached(b)
     /\ m_currBucket' = b
     /\ m_recordsInCurrBuffer' = buffer
     /\ ret' = Answer(t, RecordIn(content[buffer], t, b))
     /\ UNCHANGED <<bucketIndices, m_buffers, content, swaps, now, newest>>

AtLoad(t) ==
  LET b == BucketOf(t)
      i == Oldest(m_buffers)
      buffer == m_buffers[i].buffer
  IN /\ t < m_numRecords /\ b # m_currBucket /\ ~Cached(b)
     /\ m_buffers' \in
          SortResults([m_buffers EXCEPT ![i] = BuffRec(b, now, buffer)])
     /\ content' = [content EXCEPT ![buffer] = Inflate(b)]
     /\ m_currBucket' = b
     /\ m_recordsInCurrBuffer' = buffer
     /\ newest' = buffer
     /\ Tick
     /\ ret' = Answer(t, RecordIn(content'[buffer], t, b))
     /\ UNCHANGED <<bucketIndices, swaps>>

At(t) == AtRefused(t) \/ AtCurrent(t) \/ AtOther(t) \/ AtLoad(t)

Next == \E t \in Index : At(t)

Spec == Init /\ [][Next]_vars

-----------------------------------------------------------------------------
(* Properties *)

\* Every variable keeps to its type.
TypeOK ==
  /\ items \in Seq(1 .. MaxItems) /\ NumBuckets \in 1 .. MaxBuckets
  /\ rStart \in [0 .. NumBuckets -> Index]
  /\ m_buffers \in Seq([bucketIndex : 0 .. NumBuckets, lastUse : 0 .. now,
                        buffer : Buffer])
  /\ Len(m_buffers) = NumBuffers
  /\ content \in [Buffer -> Seq(Index)]
  /\ m_currBucket \in 0 .. NumBuckets + 1
  /\ m_recordsInCurrBuffer \in Buffer \cup {None}
  /\ swaps \in BOOLEAN
  /\ now \in 1 .. MaxTime
  /\ newest \in Buffer \cup {None}
  /\ ret = None \/ \E t \in Index, r \in Index \cup {Throw} : ret = Answer(t, r)

\* The search for a cached bucket relies on it: every buffer is one of the
\* list, which stays sorted, each is listed once, and no bucket is in two.
BuffersSearchable ==
  /\ TypeOK
  /\ \A i, j \in Position : i < j =>
       /\ m_buffers[i].bucketIndex <= m_buffers[j].bucketIndex
       /\ m_buffers[i].buffer # m_buffers[j].buffer
       /\ m_buffers[i].bucketIndex = m_buffers[j].bucketIndex
            => m_buffers[i].bucketIndex = m_lastBucket

\* The short cut for the bucket asked for last is never stale: the bucket is
\* still cached, in the buffer whose records the short cut uses, although
\* loads reuse buffers and sorting moves them.
CurrentIsCached ==
  m_currBucket \in Bucket =>
    \E i \in Position : /\ m_buffers[i].bucketIndex = m_currBucket
                        /\ m_buffers[i].buffer = m_recordsInCurrBuffer

\* While the buffers are few, a load discards the bucket loaded last only if
\* it finds all buffers loaded in one microsecond, so that lastUse does not
\* tell them apart and their order decides, whichever was loaded last.
NewestKept ==
  [][newest # None /\ content'[newest] # content[newest] =>
       swaps \/ \A i, j \in Position : m_buffers[i].lastUse = m_buffers[j].lastUse]_vars

\* at() answers as ReaderBase promises: record t, or an exception past the
\* end, whatever is cached.
Base == INSTANCE ReaderBase WITH size <- m_numRecords
ImplementsReaderBase == Base!Spec

=============================================================================
