--------------------------- MODULE ZlibReaderProofs ---------------------------
(***************************************************************************)
(* Theorems about ZlibReader, for any number of buckets, of records in a   *)
(* bucket, of buffers and of loads: the buffers stay searchable, the       *)
(* current bucket stays cached, and the reader implements ReaderBase.      *)
(***************************************************************************)
EXTENDS ZlibReader, FiniteSetTheorems, TLAPS

-----------------------------------------------------------------------------
(* Minima *)

LEMMA LeastNat ==
  ASSUME NEW S, S \subseteq Nat, S # {}
  PROVE  \E x \in S : \A y \in S : x <= y
<1> DEFINE R == OpToRel(<, Nat)
<1>1. PICK x \in S : \A y \in S : ~(<<y, x>> \in R)
  <2>1. IsWellFoundedOn(R, Nat)
    BY NatLessThanWellFounded
  <2> HIDE DEF R
  <2>2. QED
    BY <2>1, WFMin
<1>2. ASSUME NEW y \in S PROVE x <= y
  <2>1. x \in Nat /\ y \in Nat
    OBVIOUS
  <2>2. y < x => <<y, x>> \in R
    BY <2>1 DEF OpToRel
  <2> HIDE DEF R
  <2>3. ~(y < x)
    BY <1>1, <2>2
  <2>4. QED
    BY <2>1, <2>3
<1>3. QED
  BY <1>2

LEMMA MinLemma ==
  ASSUME NEW S, S \subseteq Nat, S # {}
  PROVE  Min(S) \in S /\ \A y \in S : Min(S) <= y
<1>1. PICK x \in S : \A y \in S : x <= y
  BY LeastNat
<1>2. Min(S) = CHOOSE z \in S : \A y \in S : z <= y
  BY DEF Min
<1>3. QED
  BY <1>1, <1>2

-----------------------------------------------------------------------------
(* The bucket index *)

FileOK ==
  /\ NumBuckets \in Nat \ {0}
  /\ items \in Seq(Nat \ {0})
  /\ rStart \in [0 .. NumBuckets -> Nat]
  /\ Scanned

\* No bucket is empty, so each starts after the ones before it.
LEMMA StartsIncrease ==
  ASSUME FileOK, NEW b \in Bucket, NEW c \in 0 .. NumBuckets, b < c
  PROVE  rStart[b] < rStart[c]
<1> DEFINE Bad == {d \in 0 .. NumBuckets : b < d /\ ~(rStart[b] < rStart[d])}
<1>0. NumBuckets \in Nat /\ b \in Nat /\ b < NumBuckets
  BY DEF FileOK, Bucket
<1>1. ASSUME Bad # {} PROVE FALSE
  <2>0. Bad \subseteq Nat
    BY <1>0
  <2>1. PICK d \in Bad : \A e \in Bad : d <= e
    <3> HIDE DEF Bad
    <3>1. QED
      BY <1>1, <2>0, LeastNat
  <2>2. d \in 1 .. NumBuckets /\ b < d /\ d - 1 \in Bucket
    BY <1>0, <2>1 DEF Bucket
  <2>3. rStart[d] = rStart[d - 1] + items[d]
    <3>1. (d - 1) + 1 = d
      BY <2>2
    <3>2. QED
      BY <2>2, <3>1 DEF FileOK, Scanned
  <2>4. items[d] \in Nat \ {0}
    BY <2>2 DEF FileOK, NumBuckets
  <2>5. rStart[d - 1] \in Nat /\ rStart[d] \in Nat /\ rStart[b] \in Nat
    BY <1>0, <2>2 DEF FileOK, Bucket
  <2>6. CASE b = d - 1
    BY <2>1, <2>3, <2>4, <2>5, <2>6
  <2>7. CASE b < d - 1
    <3>1. d - 1 \notin Bad
      BY <2>1, <2>2
    <3>2. rStart[b] < rStart[d - 1]
      BY <1>0, <2>2, <2>7, <3>1
    <3>3. QED
      BY <2>1, <2>3, <2>4, <2>5, <3>2
  <2>8. QED
    BY <1>0, <2>2, <2>6, <2>7
<1>2. QED
  BY <1>1

\* The search finds the bucket that holds the record.
LEMMA BucketOfLemma ==
  ASSUME FileOK, NEW t \in Nat, t < m_numRecords
  PROVE  /\ BucketOf(t) \in Bucket
         /\ rStart[BucketOf(t)] <= t /\ t < rStart[BucketOf(t) + 1]
<1> DEFINE Ends == {b \in Bucket : REnd(b) >= t} \cup {NumBuckets}
           m == Min(Ends)
<1>0. /\ NumBuckets \in Nat \ {0}
      /\ \A b \in Bucket : /\ b \in Nat /\ b < NumBuckets
                           /\ rStart[b] \in Nat /\ rStart[b + 1] \in Nat
                           /\ REnd(b) = rStart[b + 1] - 1
  BY DEF FileOK, Bucket, REnd
<1>1. m \in Ends /\ \A b \in Ends : m <= b
  <2>1. Ends \subseteq Nat /\ Ends # {}
    BY <1>0
  <2> HIDE DEF Ends
  <2>2. QED
    BY <2>1, MinLemma
<1>2. NumBuckets - 1 \in Ends
  <2>1. NumBuckets - 1 \in Bucket /\ (NumBuckets - 1) + 1 = NumBuckets
    BY <1>0 DEF Bucket
  <2>2. rStart[NumBuckets] \in Nat /\ rStart[NumBuckets] > t
    BY DEF m_numRecords, FileOK
  <2>3. REnd(NumBuckets - 1) = rStart[NumBuckets] - 1
    BY <2>1 DEF REnd
  <2>4. REnd(NumBuckets - 1) >= t
    BY <2>2, <2>3
  <2>5. QED
    BY <2>1, <2>4
<1>3. m \in Bucket /\ REnd(m) >= t
  <2>1. m <= NumBuckets - 1
    BY <1>1, <1>2
  <2>2. m # NumBuckets
    BY <1>0, <1>1, <2>1
  <2>3. QED
    BY <1>1, <2>2
<1>4. rStart[m] <= t
  <2>1. CASE m = 0
    BY <2>1 DEF FileOK, Scanned
  <2>2. CASE m # 0
    <3>1. m - 1 \in Bucket /\ (m - 1) + 1 = m
      BY <1>0, <1>3, <2>2 DEF Bucket
    <3>2. m - 1 \notin Ends
      <4>1. m \in Nat
        BY <1>0, <1>3
      <4> HIDE DEF m, Ends
      <4>2. QED
        BY <1>1, <4>1
    <3>3. ~(REnd(m - 1) >= t) /\ REnd(m - 1) = rStart[m] - 1 /\ rStart[m] \in Nat
      BY <1>0, <1>3, <3>1, <3>2
    <3>4. QED
      BY <3>3
  <2>3. QED
    BY <2>1, <2>2
<1>5. BucketOf(t) = m
  <2>1. SearchFrom(t) = m
    BY DEF SearchFrom
  <2> HIDE DEF m
  <2>2. QED
    BY <1>3, <1>4, <2>1 DEF BucketOf
<1>6. t < rStart[m + 1]
  BY <1>0, <1>3
<1>7. QED
  BY <1>3, <1>4, <1>5, <1>6

\* The record asked for is the one the inflated bucket holds for it.
LEMMA InflateLemma ==
  ASSUME FileOK, NEW b \in Bucket, NEW t \in Nat, rStart[b] <= t, t < rStart[b + 1]
  PROVE  /\ RecordIn(Inflate(b), t, b) = t
         /\ \A k \in DOMAIN Inflate(b) : Inflate(b)[k] \in 0 .. m_numRecords
<1>0. /\ b \in Nat /\ b + 1 \in 1 .. NumBuckets /\ NumBuckets \in Nat
      /\ rStart[b] \in Nat /\ items[b + 1] \in Nat
      /\ rStart[b + 1] = rStart[b] + items[b + 1]
  <2>1. b \in Nat /\ b + 1 \in 1 .. NumBuckets /\ b \in 0 .. NumBuckets /\ NumBuckets \in Nat
    BY DEF FileOK, Bucket
  <2>2. items[b + 1] \in Nat
    BY <2>1 DEF FileOK, NumBuckets
  <2>3. QED
    BY <2>1, <2>2 DEF FileOK, Scanned
<1>1. DOMAIN Inflate(b) = 1 .. items[b + 1]
      /\ \A k \in 1 .. items[b + 1] : Inflate(b)[k] = rStart[b] + k - 1
  BY DEF Inflate
<1>2. t - rStart[b] + 1 \in 1 .. items[b + 1]
  BY <1>0
<1>3. RecordIn(Inflate(b), t, b) = t
  BY <1>0, <1>1, <1>2 DEF RecordIn
<1>4. rStart[b + 1] <= m_numRecords /\ m_numRecords \in Nat
  <2>1. CASE b + 1 = NumBuckets
    BY <1>0, <2>1 DEF m_numRecords
  <2>2. CASE b + 1 # NumBuckets
    <3>1. b + 1 \in Bucket /\ NumBuckets \in 0 .. NumBuckets /\ b + 1 < NumBuckets
      BY <1>0, <2>2 DEF Bucket
    <3>2. rStart[b + 1] < rStart[NumBuckets]
      BY <3>1, StartsIncrease
    <3>3. rStart[NumBuckets] \in Nat
      BY <1>0 DEF FileOK
    <3>4. QED
      BY <1>0, <3>2, <3>3 DEF m_numRecords
  <2>3. QED
    BY <2>1, <2>2
<1>5. ASSUME NEW k \in 1 .. items[b + 1] PROVE Inflate(b)[k] \in 0 .. m_numRecords
  BY <1>0, <1>1, <1>4, <1>5
<1>6. QED
  BY <1>1, <1>3, <1>5

-----------------------------------------------------------------------------
(* The invariant *)

Recs == [bucketIndex : 0 .. NumBuckets, lastUse : Nat, buffer : Buffer]

Ordered(l) ==
  \A i, j \in Buffer : i < j => l[i].bucketIndex <= l[j].bucketIndex

\* Each buffer is listed once, and only unused ones have the same bucket.
Unique(l) ==
  \A i, j \in Buffer : i # j =>
    /\ l[i].buffer # l[j].buffer
    /\ l[i].bucketIndex = l[j].bucketIndex => l[i].bucketIndex = m_lastBucket

\* A buffer that is listed with a bucket holds the records of it.
Holds(l, c) ==
  \A i \in Buffer :
    l[i].bucketIndex \in Bucket => c[l[i].buffer] = Inflate(l[i].bucketIndex)

\* No buffer was used after now, and, when times keep to their buffers, none
\* after the newest.
Timely(l, time, new) ==
  /\ \A i \in Buffer : l[i].lastUse <= time
  /\ ~swaps /\ new # None =>
       \E i \in Buffer :
         /\ l[i].buffer = new
         /\ \A j \in Buffer : l[j].lastUse <= l[i].lastUse

Inv ==
  /\ TypeOK
  /\ Scanned
  /\ Ordered(m_buffers) /\ Unique(m_buffers)
  /\ Holds(m_buffers, content)
  /\ CurrentIsCached
  /\ m_currBucket # m_lastBucket
  /\ Timely(m_buffers, now, newest)

LEMMA TypeLemma ==
  ASSUME TypeOK
  PROVE  /\ m_buffers \in [Buffer -> Recs] /\ Position = Buffer
         /\ NumBuckets \in Nat \ {0} /\ Index \subseteq Nat /\ Index = 0 .. MaxRecords
         /\ MaxRecords \in Nat /\ NumBuffers \in Nat \ {0} /\ now \in Nat
<1>1. MaxRecords \in Nat /\ NumBuffers \in Nat \ {0}
  BY ZlibReaderAssumption DEF MaxRecords
<1>2. now \in Nat /\ NumBuckets \in Nat \ {0}
  BY ZlibReaderAssumption DEF TypeOK
<1>3. /\ m_buffers \in Seq([bucketIndex : 0 .. NumBuckets, lastUse : 0 .. now, buffer : Buffer])
      /\ Len(m_buffers) = NumBuffers
  BY DEF TypeOK
<1>4. m_buffers \in [Buffer -> [bucketIndex : 0 .. NumBuckets, lastUse : 0 .. now, buffer : Buffer]]
  <2> DEFINE R == [bucketIndex : 0 .. NumBuckets, lastUse : 0 .. now, buffer : Buffer]
  <2>1. m_buffers \in Seq(R) /\ Len(m_buffers) = NumBuffers
    BY <1>3
  <2> HIDE DEF R
  <2>2. m_buffers \in [1 .. Len(m_buffers) -> R]
    BY <2>1
  <2>3. m_buffers \in [Buffer -> R]
    BY <2>1, <2>2 DEF Buffer
  <2>4. QED
    BY <2>3 DEF R
<1>5. \A r \in [bucketIndex : 0 .. NumBuckets, lastUse : 0 .. now, buffer : Buffer] : r \in Recs
  BY <1>2 DEF Recs
<1>6. m_buffers \in [Buffer -> Recs]
  BY <1>4, <1>5
<1>7. QED
  BY <1>1, <1>2, <1>3, <1>6 DEF Position, Buffer, Index

LEMMA FileLemma ==
  ASSUME TypeOK, Scanned PROVE FileOK
<1>1. Index \subseteq Nat /\ NumBuckets \in Nat \ {0}
  BY TypeLemma
<1>2. items \in Seq(Nat \ {0})
  <2>1. items \in Seq(1 .. MaxItems) /\ MaxItems \in Nat
    BY ZlibReaderAssumption DEF TypeOK
  <2>2. 1 .. MaxItems \subseteq Nat \ {0}
    BY <2>1
  <2>3. QED
    BY <2>1, <2>2
<1>3. QED
  BY <1>1, <1>2 DEF FileOK, TypeOK

-----------------------------------------------------------------------------
(* The search for a cached bucket *)

LEMMA CachedLemma ==
  ASSUME TypeOK, Ordered(m_buffers), NEW b \in Bucket
  PROVE  /\ Cached(b) => /\ LowerBound(b) \in Buffer
                         /\ m_buffers[LowerBound(b)].bucketIndex = b
         /\ ~Cached(b) => \A i \in Buffer : m_buffers[i].bucketIndex # b
<1> DEFINE S == {i \in Position : m_buffers[i].bucketIndex >= b} \cup {Len(m_buffers) + 1}
           m == LowerBound(b)
<1>0. /\ Position = Buffer /\ m_buffers \in [Buffer -> Recs]
      /\ NumBuffers \in Nat /\ Len(m_buffers) = NumBuffers /\ b \in Nat
      /\ \A i \in Buffer : i \in Nat /\ i < NumBuffers + 1 /\ m_buffers[i].bucketIndex \in Nat
  <2>1. \A i \in Buffer : m_buffers[i] \in Recs
    BY TypeLemma
  <2>2. NumBuffers \in Nat /\ NumBuckets \in Nat
    BY TypeLemma
  <2>3. \A i \in Buffer : i \in Nat /\ i < NumBuffers + 1
    BY <2>2 DEF Buffer
  <2>4. \A i \in Buffer : m_buffers[i].bucketIndex \in Nat
    BY <2>1, <2>2 DEF Recs
  <2>5. b \in Nat
    BY <2>2 DEF Bucket
  <2>6. Len(m_buffers) = NumBuffers
    BY DEF TypeOK
  <2>7. QED
    BY <2>2, <2>3, <2>4, <2>5, <2>6, TypeLemma
<1>1. m \in S /\ \A i \in S : m <= i
  <2>1. S \subseteq Nat /\ S # {}
    BY <1>0
  <2>2. Min(S) \in S /\ \A i \in S : Min(S) <= i
    <3> HIDE DEF S
    <3>1. QED
      BY <2>1, MinLemma
  <2>3. QED
    BY <2>2 DEF LowerBound
<1>2. ASSUME NEW i \in Buffer, m_buffers[i].bucketIndex = b
      PROVE  m \in Buffer /\ m_buffers[m].bucketIndex = b
  <2>1. i \in S
    BY <1>0, <1>2
  <2>2. m <= i
    BY <1>1, <2>1
  <2>3. m # NumBuffers + 1
    BY <1>0, <2>2
  <2>4. m \in Buffer /\ m_buffers[m].bucketIndex >= b
    BY <1>0, <1>1, <2>3
  <2>5. CASE m = i
    BY <1>2, <2>5
  <2>6. CASE m < i
    <3>1. m_buffers[m].bucketIndex <= m_buffers[i].bucketIndex
      BY <2>4, <2>6 DEF Ordered
    <3>2. QED
      BY <1>0, <1>2, <2>4, <3>1
  <2>7. QED
    BY <1>0, <2>2, <2>4, <2>5, <2>6
<1>3. QED
  BY <1>0, <1>2 DEF Cached

-----------------------------------------------------------------------------
(* Sorting *)

\* An order of the list moves every buffer somewhere.
LEMMA OrderLemma ==
  ASSUME TypeOK, NEW place \in Orders
  PROVE  /\ place \in [Buffer -> Buffer]
         /\ \A i, j \in Buffer : place[i] = place[j] => i = j
         /\ \A j \in Buffer : \E i \in Buffer : place[i] = j
<1>1. Position = Buffer /\ NumBuffers \in Nat
  BY TypeLemma
<1>2. place \in [Buffer -> Buffer] /\ IsInjective(place)
  BY <1>1 DEF Orders
<1>3. place \in Injection(Buffer, Buffer)
  BY <1>2 DEF Injection
<1>4. IsFiniteSet(Buffer)
  BY <1>1, FS_Interval DEF Buffer
<1>5. place \in Surjection(Buffer, Buffer)
  BY <1>3, <1>4, FS_Injection
<1>6. QED
  BY <1>2, <1>5 DEF IsInjective, Surjection

\* What sorting keeps, whether or not a swap leaves the times behind.
LEMMA SortLemma ==
  ASSUME TypeOK, NEW l \in [Buffer -> Recs], NEW s \in SortResults(l)
  PROVE  /\ s \in [Buffer -> Recs] /\ Ordered(s)
         /\ Unique(l) => Unique(s)
         /\ \A c : Holds(l, c) => Holds(s, c)
         /\ \A time, new : Timely(l, time, new) => Timely(s, time, new)
         /\ \A j \in Buffer : \E i \in Buffer :
              s[i].bucketIndex = l[j].bucketIndex /\ s[i].buffer = l[j].buffer
<1>0. Position = Buffer /\ \A i \in Buffer : l[i] \in Recs
  BY TypeLemma
<1>1. PICK place \in Orders, time \in Orders :
        /\ s = Arranged(l, place, IF swaps THEN time ELSE place)
        /\ IsSorted(s)
  BY DEF SortResults
<1> DEFINE when == IF swaps THEN time ELSE place
<1>2. /\ place \in [Buffer -> Buffer] /\ when \in [Buffer -> Buffer]
      /\ \A i, j \in Buffer : place[i] = place[j] => i = j
      /\ \A j \in Buffer : \E i \in Buffer : place[i] = j
      /\ ~swaps => when = place
  BY OrderLemma
<1> HIDE DEF when
<1>3. s = [i \in Buffer |-> BuffRec(l[place[i]].bucketIndex, l[when[i]].lastUse,
                                   l[place[i]].buffer)]
  BY <1>0, <1>1 DEF Arranged, when
<1>31. DOMAIN s = Buffer
  BY <1>3
<1>32. ASSUME NEW i \in Buffer
       PROVE  /\ place[i] \in Buffer /\ when[i] \in Buffer
              /\ s[i].bucketIndex = l[place[i]].bucketIndex
              /\ s[i].buffer = l[place[i]].buffer
              /\ s[i].lastUse = l[when[i]].lastUse
  BY <1>2, <1>3 DEF BuffRec
<1>4. s \in [Buffer -> Recs]
  <2>1. \A i \in Buffer : s[i] \in Recs
    <3> SUFFICES ASSUME NEW i \in Buffer PROVE s[i] \in Recs
      OBVIOUS
    <3>1. l[place[i]] \in Recs /\ l[when[i]] \in Recs
      BY <1>0, <1>2
    <3>2. QED
      BY <1>3, <3>1 DEF Recs, BuffRec
  <2>2. QED
    BY <1>3, <1>31, <2>1
<1>5. Ordered(s)
  BY <1>0, <1>1 DEF IsSorted, Ordered
<1>6. ASSUME Unique(l) PROVE Unique(s)
  <2> SUFFICES ASSUME NEW i \in Buffer, NEW j \in Buffer, i # j
               PROVE  /\ s[i].buffer # s[j].buffer
                      /\ s[i].bucketIndex = s[j].bucketIndex
                           => s[i].bucketIndex = m_lastBucket
    BY DEF Unique
  <2>1. place[i] \in Buffer /\ place[j] \in Buffer /\ place[i] # place[j]
    BY <1>2, <1>32
  <2>2. QED
    BY <1>6, <1>32, <2>1 DEF Unique
<1>7. ASSUME NEW c, Holds(l, c) PROVE Holds(s, c)
  BY <1>7, <1>32 DEF Holds
<1>8. ASSUME NEW n, NEW new, Timely(l, n, new) PROVE Timely(s, n, new)
  <2>1. \A i \in Buffer : s[i].lastUse <= n
    BY <1>8, <1>32 DEF Timely
  <2>2. ASSUME ~swaps, new # None
        PROVE  \E i \in Buffer :
                 /\ s[i].buffer = new
                 /\ \A j \in Buffer : s[j].lastUse <= s[i].lastUse
    <3>1. PICK k \in Buffer :
            /\ l[k].buffer = new
            /\ \A j \in Buffer : l[j].lastUse <= l[k].lastUse
      BY <1>8, <2>2 DEF Timely
    <3>2. PICK i \in Buffer : place[i] = k
      BY <1>2
    <3>3. \A j \in Buffer : place[j] \in Buffer
      BY <1>2
    <3>4. s[i].buffer = new /\ s[i].lastUse = l[k].lastUse
      BY <1>2, <1>32, <2>2, <3>1, <3>2
    <3>5. \A j \in Buffer : s[j].lastUse <= s[i].lastUse
      BY <1>2, <1>32, <2>2, <3>1, <3>3, <3>4
    <3>6. QED
      BY <3>4, <3>5
  <2>3. QED
    BY <2>1, <2>2 DEF Timely
<1>9. \A j \in Buffer : \E i \in Buffer :
        s[i].bucketIndex = l[j].bucketIndex /\ s[i].buffer = l[j].buffer
  <2> SUFFICES ASSUME NEW j \in Buffer
               PROVE  \E i \in Buffer : s[i].bucketIndex = l[j].bucketIndex /\ s[i].buffer = l[j].buffer
    OBVIOUS
  <2>1. PICK i \in Buffer : place[i] = j
    BY <1>2
  <2>2. s[i].bucketIndex = l[j].bucketIndex /\ s[i].buffer = l[j].buffer
    BY <1>32, <2>1
  <2>3. QED
    BY <2>2
<1>10. QED
  BY <1>4, <1>5, <1>6, <1>7, <1>8, <1>9

-----------------------------------------------------------------------------
(* Loading *)

\* The loop picks a buffer that was loaded no later than any other.
LEMMA OldestLemma ==
  ASSUME TypeOK, \A i \in Buffer : m_buffers[i].lastUse <= now
  PROVE  /\ Oldest(m_buffers) \in Buffer
         /\ \A j \in Buffer :
              m_buffers[Oldest(m_buffers)].lastUse <= m_buffers[j].lastUse
<1> DEFINE Before == {i \in Buffer : m_buffers[i].lastUse < now}
           First(i) == \A j \in Before :
             \/ m_buffers[i].lastUse < m_buffers[j].lastUse
             \/ m_buffers[i].lastUse = m_buffers[j].lastUse /\ i <= j
<1>0. /\ Position = Buffer /\ 1 \in Buffer /\ now \in Nat
      /\ \A i \in Buffer : i \in Nat
      /\ \A i \in Buffer : m_buffers[i].lastUse \in Nat
  <2>1. \A i \in Buffer : m_buffers[i] \in Recs
    BY TypeLemma
  <2>2. NumBuffers \in Nat \ {0}
    BY TypeLemma
  <2>3. 1 \in Buffer /\ \A i \in Buffer : i \in Nat
    BY <2>2 DEF Buffer
  <2>4. QED
    BY <2>1, <2>3, TypeLemma DEF Recs
<1>1. Oldest(m_buffers) = IF Before = {} THEN 1 ELSE CHOOSE k \in Before : First(k)
  BY <1>0 DEF Oldest
<1>2. CASE Before = {}
  <2>1. \A j \in Buffer : m_buffers[j].lastUse = now
    BY <1>0, <1>2
  <2>2. Oldest(m_buffers) = 1
    BY <1>1, <1>2
  <2>3. QED
    BY <1>0, <2>1, <2>2
<1>3. CASE Before # {}
  <2> DEFINE Uses == {m_buffers[i].lastUse : i \in Before}
  <2>1. PICK u \in Uses : \A v \in Uses : u <= v
    <3>1. Uses \subseteq Nat /\ Uses # {}
      BY <1>0, <1>3
    <3> HIDE DEF Uses
    <3>2. QED
      BY <3>1, LeastNat
  <2> DEFINE Least == {i \in Before : m_buffers[i].lastUse = u}
  <2>2. PICK i \in Least : \A j \in Least : i <= j
    <3>1. Least \subseteq Nat /\ Least # {}
      BY <1>0, <2>1
    <3> HIDE DEF Least
    <3>2. QED
      BY <3>1, LeastNat
  <2>3. i \in Before /\ First(i)
    <3>1. i \in Before
      BY <2>2
    <3>2. ASSUME NEW j \in Before
          PROVE  \/ m_buffers[i].lastUse < m_buffers[j].lastUse
                 \/ m_buffers[i].lastUse = m_buffers[j].lastUse /\ i <= j
      <4>1. u <= m_buffers[j].lastUse /\ u \in Nat /\ m_buffers[j].lastUse \in Nat
        BY <1>0, <2>1
      <4>2. CASE m_buffers[j].lastUse = u
        BY <2>2, <4>2
      <4>3. CASE m_buffers[j].lastUse # u
        BY <2>2, <4>1, <4>3
      <4>4. QED
        BY <4>2, <4>3
    <3>3. QED
      BY <3>1, <3>2
  <2>4. Oldest(m_buffers) \in Before /\ First(Oldest(m_buffers))
    <3> HIDE DEF First, Before
    <3>1. QED
      BY <1>1, <1>3, <2>3
  <2>5. ASSUME NEW j \in Buffer
        PROVE  m_buffers[Oldest(m_buffers)].lastUse <= m_buffers[j].lastUse
    <3>1. /\ Oldest(m_buffers) \in Buffer /\ m_buffers[Oldest(m_buffers)].lastUse < now
          /\ m_buffers[j].lastUse \in Nat /\ m_buffers[Oldest(m_buffers)].lastUse \in Nat
      BY <1>0, <2>4
    <3>2. CASE j \in Before
      BY <2>4, <3>1, <3>2
    <3>3. CASE j \notin Before
      BY <1>0, <3>1, <3>3
    <3>4. QED
      BY <3>2, <3>3
  <2>6. QED
    BY <2>4, <2>5
<1>4. QED
  BY <1>2, <1>3

\* The buffer a load picks, the list before it is sorted, and the records.
Reused == m_buffers[Oldest(m_buffers)].buffer

Loaded(b) == [m_buffers EXCEPT ![Oldest(m_buffers)] = BuffRec(b, now, Reused)]

Filled(b) == [content EXCEPT ![Reused] = Inflate(b)]

\* A bucket that is in no buffer replaces what was loaded longest ago.
LEMMA LoadLemma ==
  ASSUME Inv, NEW b \in Bucket, ~Cached(b)
  PROVE  /\ Loaded(b) \in [Buffer -> Recs]
         /\ Reused \in Buffer
         /\ Unique(Loaded(b)) /\ Holds(Loaded(b), Filled(b))
         /\ Timely(Loaded(b), now, Reused)
         /\ \E i \in Buffer : Loaded(b)[i].bucketIndex = b /\ Loaded(b)[i].buffer = Reused
<1> DEFINE o == Oldest(m_buffers)
           l == Loaded(b)
<1>1. TypeOK /\ Ordered(m_buffers) /\ Unique(m_buffers) /\ Holds(m_buffers, content)
      /\ Timely(m_buffers, now, newest)
  BY DEF Inv
<1>2. \A i \in Buffer : m_buffers[i].lastUse <= now
  BY <1>1 DEF Timely
<1>3. o \in Buffer
  BY <1>1, <1>2, OldestLemma
<1>4. /\ m_buffers \in [Buffer -> Recs] /\ now \in Nat /\ NumBuckets \in Nat
      /\ b \in 0 .. NumBuckets /\ b # NumBuckets
      /\ content \in [Buffer -> Seq(Index)]
  <2>1. m_buffers \in [Buffer -> Recs] /\ now \in Nat /\ NumBuckets \in Nat
    BY <1>1, TypeLemma
  <2>2. b \in 0 .. NumBuckets /\ b # NumBuckets
    BY <2>1 DEF Bucket
  <2>3. content \in [Buffer -> Seq(Index)]
    BY <1>1 DEF TypeOK
  <2>4. QED
    BY <2>1, <2>2, <2>3
<1>5. \A i \in Buffer : m_buffers[i] \in Recs
  BY <1>4
<1>6. \A i \in Buffer : /\ m_buffers[i].bucketIndex \in 0 .. NumBuckets
                        /\ m_buffers[i].lastUse \in Nat /\ m_buffers[i].buffer \in Buffer
  BY <1>5 DEF Recs
<1>7. Reused \in Buffer
  BY <1>3, <1>6 DEF Reused
<1>8. /\ BuffRec(b, now, Reused) \in Recs
      /\ BuffRec(b, now, Reused).bucketIndex = b
      /\ BuffRec(b, now, Reused).lastUse = now
      /\ BuffRec(b, now, Reused).buffer = Reused
  BY <1>4, <1>7 DEF BuffRec, Recs
<1>9. \A c \in Bucket : Cached(c) \/ \A i \in Buffer : m_buffers[i].bucketIndex # c
  BY <1>1, CachedLemma
<1>10. \A i \in Buffer : m_buffers[i].bucketIndex # b
  BY <1>9
<1> DEFINE r == BuffRec(b, now, Reused)
<1> HIDE DEF r, o
<1>11. l = [m_buffers EXCEPT ![o] = r]
  BY DEF Loaded, r, o
<1>12. l \in [Buffer -> Recs] /\ l[o] = r /\ \A i \in Buffer : i # o => l[i] = m_buffers[i]
  <2> HIDE DEF l
  <2>1. r \in Recs
    BY <1>8 DEF r
  <2>2. QED
    BY <1>3, <1>4, <1>11, <2>1
<1>13. /\ l[o].bucketIndex = b /\ l[o].lastUse = now /\ l[o].buffer = Reused
       /\ Reused = m_buffers[o].buffer
  BY <1>8, <1>12 DEF r, o, Reused
<1> HIDE DEF l
<1>14. Unique(l)
  <2> SUFFICES ASSUME NEW i \in Buffer, NEW j \in Buffer, i # j
               PROVE  /\ l[i].buffer # l[j].buffer
                      /\ l[i].bucketIndex = l[j].bucketIndex
                           => l[i].bucketIndex = m_lastBucket
    BY DEF Unique
  <2>1. m_buffers[i].buffer # m_buffers[j].buffer
        /\ (m_buffers[i].bucketIndex = m_buffers[j].bucketIndex
             => m_buffers[i].bucketIndex = m_lastBucket)
    BY <1>1 DEF Unique
  <2>2. CASE i = o
    BY <1>10, <1>12, <1>13, <2>1, <2>2
  <2>3. CASE j = o
    BY <1>10, <1>12, <1>13, <2>1, <2>3
  <2>4. CASE i # o /\ j # o
    BY <1>12, <2>1, <2>4
  <2>5. QED
    BY <2>2, <2>3, <2>4
<1>15. Holds(l, Filled(b))
  <2> SUFFICES ASSUME NEW i \in Buffer, l[i].bucketIndex \in Bucket
               PROVE  Filled(b)[l[i].buffer] = Inflate(l[i].bucketIndex)
    BY DEF Holds
  <2>1. CASE i = o
    BY <1>4, <1>7, <1>13, <2>1 DEF Filled
  <2>2. CASE i # o
    <3>1. m_buffers[i].buffer # Reused /\ l[i] = m_buffers[i]
      BY <1>1, <1>3, <1>12, <1>13, <2>2 DEF Unique
    <3>2. content[m_buffers[i].buffer] = Inflate(m_buffers[i].bucketIndex)
      BY <1>1, <3>1 DEF Holds
    <3>3. Filled(b)[m_buffers[i].buffer] = content[m_buffers[i].buffer]
      BY <1>4, <1>6, <3>1 DEF Filled
    <3>4. QED
      BY <3>1, <3>2, <3>3
  <2>3. QED
    BY <2>1, <2>2
<1>16. Timely(l, now, Reused)
  <2>1. \A j \in Buffer : l[j].lastUse <= now
    <3> SUFFICES ASSUME NEW j \in Buffer PROVE l[j].lastUse <= now
      OBVIOUS
    <3>1. CASE j = o
      BY <1>4, <1>13, <3>1
    <3>2. CASE j # o
      BY <1>2, <1>12, <3>2
    <3>3. QED
      BY <3>1, <3>2
  <2>2. QED
    BY <1>3, <1>13, <2>1 DEF Timely
<1>17. QED
  BY <1>3, <1>7, <1>12, <1>13, <1>14, <1>15, <1>16 DEF l

-----------------------------------------------------------------------------
(* The initial state and the steps *)

LEMMA InitInv == Init => Inv
<1> SUFFICES ASSUME Init PROVE Inv
  OBVIOUS
<1>1. /\ MaxBuckets \in Nat \ {0} /\ MaxItems \in Nat \ {0} /\ NumBuffers \in Nat \ {0}
      /\ MaxTime \in Nat \ {0}
  BY ZlibReaderAssumption
<1>2. items \in Seq(1 .. MaxItems) /\ NumBuckets \in 1 .. MaxBuckets
  <2>1. PICK n \in 1 .. MaxBuckets : items \in [1 .. n -> 1 .. MaxItems]
    BY DEF Init
  <2>2. n \in Nat
    BY <1>1, <2>1
  <2> DEFINE S == 1 .. MaxItems
  <2>3. items \in [1 .. n -> S]
    BY <2>1
  <2> HIDE DEF S
  <2>4. items \in Seq(S) /\ Len(items) = n
    BY <2>2, <2>3
  <2>5. QED
    BY <2>1, <2>4 DEF S, NumBuckets
<1>3. NumBuckets \in Nat \ {0}
  BY <1>1, <1>2
<1>4. \A i \in Buffer : /\ m_buffers[i].bucketIndex = NumBuckets
                        /\ m_buffers[i].lastUse = 0
                        /\ m_buffers[i].buffer = i
  BY DEF Init, BuffRec, m_lastBucket, Buffer
<1>5. m_buffers \in Seq([bucketIndex : 0 .. NumBuckets, lastUse : 0 .. now, buffer : Buffer])
      /\ Len(m_buffers) = NumBuffers
  <2> DEFINE R == [bucketIndex : 0 .. NumBuckets, lastUse : 0 .. now, buffer : Buffer]
  <2>1. \A i \in Buffer : BuffRec(m_lastBucket, 0, i) \in R
    BY <1>3 DEF Init, BuffRec, m_lastBucket
  <2> HIDE DEF R
  <2>2. m_buffers \in [1 .. NumBuffers -> R]
    BY <2>1 DEF Init, Buffer
  <2>3. m_buffers \in Seq(R) /\ Len(m_buffers) = NumBuffers
    BY <1>1, <2>2
  <2>4. QED
    BY <2>3 DEF R
<1>6. content \in [Buffer -> Seq(Index)]
  BY DEF Init
<1>7. TypeOK
  <2>1. rStart \in [0 .. NumBuckets -> Index] /\ swaps \in BOOLEAN
        /\ m_currBucket = NumBuckets + 1 /\ m_recordsInCurrBuffer = None
        /\ now = 1 /\ newest = None /\ ret = None
    BY DEF Init, m_lastBucket
  <2>2. m_currBucket \in 0 .. NumBuckets + 1 /\ now \in 1 .. MaxTime
    BY <1>1, <1>3, <2>1
  <2>3. QED
    BY <1>2, <1>5, <1>6, <2>1, <2>2 DEF TypeOK
<1>8. \A i \in Buffer : i \in Nat
  BY <1>1 DEF Buffer
<1>9. Ordered(m_buffers) /\ Unique(m_buffers)
  BY <1>3, <1>4 DEF Ordered, Unique, m_lastBucket
<1>10. NumBuckets \notin Bucket /\ NumBuckets + 1 \notin Bucket /\ NumBuckets + 1 # NumBuckets
  BY <1>3 DEF Bucket
<1>11. Holds(m_buffers, content)
  BY <1>4, <1>10 DEF Holds
<1>12. m_currBucket # m_lastBucket /\ CurrentIsCached
  BY <1>10 DEF Init, m_lastBucket, CurrentIsCached
<1>13. Timely(m_buffers, now, newest)
  <2>1. now = 1 /\ newest = None
    BY DEF Init
  <2>2. \A i \in Buffer : m_buffers[i].lastUse <= now
    BY <1>4, <2>1
  <2>3. QED
    BY <2>1, <2>2 DEF Timely
<1>14. QED
  BY <1>7, <1>9, <1>11, <1>12, <1>13 DEF Inv, Init

\* What at() leaves as it was.
LEMMA FileUnchanged ==
  ASSUME UNCHANGED <<bucketIndices, swaps>>
  PROVE  /\ NumBuckets' = NumBuckets /\ Bucket' = Bucket
         /\ m_numRecords' = m_numRecords /\ m_lastBucket' = m_lastBucket
         /\ Scanned' = Scanned /\ swaps' = swaps /\ items' = items /\ rStart' = rStart
         /\ \A b : Inflate(b)' = Inflate(b)
<1>1. items' = items /\ rStart' = rStart /\ swaps' = swaps
  BY DEF bucketIndices
<1>2. NumBuckets' = NumBuckets
  BY <1>1 DEF NumBuckets
<1>3. Bucket' = Bucket /\ m_numRecords' = m_numRecords /\ m_lastBucket' = m_lastBucket
  BY <1>1, <1>2 DEF Bucket, m_numRecords, m_lastBucket
<1>4. Scanned' = Scanned
  BY <1>1, <1>3 DEF Scanned
<1>5. \A b : Inflate(b)' = Inflate(b)
  BY <1>1 DEF Inflate
<1>6. QED
  BY <1>1, <1>2, <1>3, <1>4, <1>5

\* A step that leaves the buffers alone, and the current bucket in one.
LEMMA QuietLemma ==
  ASSUME Inv, UNCHANGED <<bucketIndices, m_buffers, content, swaps, now, newest>>,
         m_currBucket' \in 0 .. NumBuckets + 1, m_currBucket' # m_lastBucket,
         m_recordsInCurrBuffer' \in Buffer \cup {None},
         CurrentIsCached',
         ret' = None \/ \E t \in Index, r \in Index \cup {Throw} : ret' = Answer(t, r)
  PROVE  Inv'
<1>1. /\ NumBuckets' = NumBuckets /\ Bucket' = Bucket /\ m_lastBucket' = m_lastBucket
      /\ Scanned' = Scanned /\ swaps' = swaps /\ items' = items /\ rStart' = rStart
      /\ m_buffers' = m_buffers /\ content' = content /\ now' = now /\ newest' = newest
      /\ \A b : Inflate(b)' = Inflate(b)
  BY FileUnchanged
<1>2. TypeOK'
  BY <1>1 DEF Inv, TypeOK
<1>3. Ordered(m_buffers)'
  BY <1>1 DEF Inv, Ordered
<1>4. Unique(m_buffers)'
  BY <1>1 DEF Inv, Unique
<1>5. Holds(m_buffers, content)'
  BY <1>1 DEF Inv, Holds, Inflate
<1>6. Timely(m_buffers, now, newest)'
  BY <1>1 DEF Inv, Timely
<1>7. QED
  BY <1>1, <1>2, <1>3, <1>4, <1>5, <1>6 DEF Inv

\* A cached bucket's buffer answers.
LEMMA AnswerLemma ==
  ASSUME Inv, NEW t \in Index, t < m_numRecords
  PROVE  /\ BucketOf(t) \in Bucket
         /\ RecordIn(Inflate(BucketOf(t)), t, BucketOf(t)) = t
<1>1. FileOK /\ t \in Nat
  BY FileLemma, TypeLemma DEF Inv
<1>2. /\ BucketOf(t) \in Bucket
      /\ rStart[BucketOf(t)] <= t /\ t < rStart[BucketOf(t) + 1]
  BY <1>1, BucketOfLemma
<1>3. QED
  BY <1>1, <1>2, InflateLemma

LEMMA RefusedInv ==
  ASSUME Inv, NEW t \in Index, AtRefused(t)
  PROVE  Inv' /\ ret' = Answer(t, Throw)
<1>1. CurrentIsCached'
  BY DEF AtRefused, current, Inv, CurrentIsCached, Position, Bucket, NumBuckets, bucketIndices
<1>2. ret' = Answer(t, Throw)
  BY DEF AtRefused
<1>3. m_currBucket' = m_currBucket /\ m_recordsInCurrBuffer' = m_recordsInCurrBuffer
  BY DEF AtRefused, current
<1>4. QED
  BY <1>1, <1>2, <1>3, QuietLemma DEF AtRefused, Inv, TypeOK

LEMMA CurrentInv ==
  ASSUME Inv, NEW t \in Index, AtCurrent(t)
  PROVE  Inv' /\ ret' = Answer(t, t)
<1> DEFINE b == BucketOf(t)
<1>1. b \in Bucket /\ RecordIn(Inflate(b), t, b) = t /\ b = m_currBucket
  BY AnswerLemma DEF AtCurrent
<1>2. PICK i \in Position : /\ m_buffers[i].bucketIndex = m_currBucket
                            /\ m_buffers[i].buffer = m_recordsInCurrBuffer
  BY <1>1 DEF Inv, CurrentIsCached
<1>3. i \in Buffer
  BY TypeLemma DEF Inv
<1>4. content[m_recordsInCurrBuffer] = Inflate(b)
  BY <1>1, <1>2, <1>3 DEF Inv, Holds
<1>5. ret' = Answer(t, t)
  BY <1>1, <1>4 DEF AtCurrent
<1>6. CurrentIsCached'
  BY DEF AtCurrent, current, Inv, CurrentIsCached, Position, Bucket, NumBuckets, bucketIndices
<1>7. m_currBucket' = m_currBucket /\ m_recordsInCurrBuffer' = m_recordsInCurrBuffer
  BY DEF AtCurrent, current
<1>8. QED
  BY <1>5, <1>6, <1>7, QuietLemma DEF AtCurrent, Inv, TypeOK

LEMMA OtherInv ==
  ASSUME Inv, NEW t \in Index, AtOther(t)
  PROVE  Inv' /\ ret' = Answer(t, t)
<1> DEFINE b == BucketOf(t)
           i == LowerBound(b)
<1>1. b \in Bucket /\ RecordIn(Inflate(b), t, b) = t
  BY AnswerLemma DEF AtOther
<1>2. Cached(b)
  BY DEF AtOther
<1>3. i \in Buffer /\ m_buffers[i].bucketIndex = b
  <2>1. TypeOK /\ Ordered(m_buffers)
    BY DEF Inv
  <2>2. \A c \in Bucket : Cached(c) =>
          LowerBound(c) \in Buffer /\ m_buffers[LowerBound(c)].bucketIndex = c
    BY <2>1, CachedLemma
  <2>3. QED
    BY <1>1, <1>2, <2>2
<1>4. m_currBucket' = b /\ m_recordsInCurrBuffer' = m_buffers[i].buffer
  BY DEF AtOther
<1>5. content[m_buffers[i].buffer] = Inflate(b)
  BY <1>1, <1>3 DEF Inv, Holds
<1>6. ret' = Answer(t, t)
  BY <1>1, <1>5 DEF AtOther
<1>7. Position = Buffer /\ NumBuckets \in Nat /\ m_buffers \in [Buffer -> Recs]
  BY TypeLemma DEF Inv
<1>8. CurrentIsCached'
  <2>1. m_buffers' = m_buffers /\ Position' = Position
    BY DEF AtOther, Position
  <2> HIDE DEF b, i
  <2>2. QED
    BY <1>3, <1>4, <1>7, <2>1 DEF CurrentIsCached
<1>9. m_currBucket' \in 0 .. NumBuckets + 1 /\ m_currBucket' # m_lastBucket
  BY <1>1, <1>4, <1>7 DEF Bucket, m_lastBucket
<1>10. m_recordsInCurrBuffer' \in Buffer
  <2>1. m_buffers[i] \in Recs
    BY <1>3, <1>7
  <2>2. QED
    BY <1>4, <2>1 DEF Recs
<1>11. QED
  BY <1>6, <1>8, <1>9, <1>10, QuietLemma DEF AtOther

\* What a load leaves.
LEMMA LoadedLemma ==
  ASSUME Inv, NEW t \in Index, AtLoad(t)
  PROVE  /\ BucketOf(t) \in Bucket
         /\ RecordIn(Inflate(BucketOf(t)), t, BucketOf(t)) = t
         /\ Reused \in Buffer
         /\ content' = Filled(BucketOf(t))
         /\ m_buffers' \in [Buffer -> Recs] /\ Ordered(m_buffers') /\ Unique(m_buffers')
         /\ Holds(m_buffers', content') /\ Timely(m_buffers', now', newest')
         /\ \E i \in Buffer : /\ m_buffers'[i].bucketIndex = BucketOf(t)
                              /\ m_buffers'[i].buffer = Reused
<1> DEFINE b == BucketOf(t)
           l == Loaded(b)
<1>1. b \in Bucket /\ RecordIn(Inflate(b), t, b) = t
  BY AnswerLemma DEF AtLoad
<1>2. /\ ~Cached(b)
      /\ m_buffers' \in SortResults(l) /\ content' = Filled(b)
      /\ now' \in {now, now + 1} /\ newest' = Reused
  BY DEF AtLoad, Tick, Loaded, Filled, Reused
<1>3. /\ l \in [Buffer -> Recs] /\ Reused \in Buffer /\ Unique(l) /\ Holds(l, content')
      /\ Timely(l, now', newest')
      /\ \E i \in Buffer : l[i].bucketIndex = b /\ l[i].buffer = Reused
  <2>1. \A c \in Bucket : ~Cached(c) =>
          /\ Loaded(c) \in [Buffer -> Recs] /\ Reused \in Buffer
          /\ Unique(Loaded(c)) /\ Holds(Loaded(c), Filled(c))
          /\ Timely(Loaded(c), now, Reused)
          /\ \E i \in Buffer : Loaded(c)[i].bucketIndex = c /\ Loaded(c)[i].buffer = Reused
    BY LoadLemma
  <2>2. /\ l \in [Buffer -> Recs] /\ Reused \in Buffer /\ Unique(l) /\ Holds(l, content')
        /\ Timely(l, now, newest')
        /\ \E i \in Buffer : l[i].bucketIndex = b /\ l[i].buffer = Reused
    <3> HIDE DEF b
    <3>1. QED
      BY <1>1, <1>2, <2>1
  <2> HIDE DEF b, l
  <2>3. Timely(l, now', newest')
    <3>1. /\ now \in Nat /\ \A i \in Buffer : l[i].lastUse \in Nat
          /\ \A i \in Buffer : l[i].lastUse <= now
      <4>1. \A i \in Buffer : l[i] \in Recs
        BY <2>2
      <4>2. QED
        BY <2>2, <4>1, TypeLemma DEF Inv, Recs, Timely
    <3>2. \A i \in Buffer : l[i].lastUse <= now'
      BY <1>2, <3>1
    <3>3. QED
      BY <2>2, <3>2 DEF Timely
  <2>4. QED
    BY <2>2, <2>3
<1> DEFINE s == m_buffers'
<1>4. TypeOK
  BY DEF Inv
<1>5. /\ s \in [Buffer -> Recs] /\ Ordered(s) /\ Unique(s)
      /\ Holds(s, content') /\ Timely(s, now', newest')
      /\ \A j \in Buffer : \E i \in Buffer :
           s[i].bucketIndex = l[j].bucketIndex /\ s[i].buffer = l[j].buffer
  <2>1. s \in SortResults(l)
    BY <1>2
  <2> HIDE DEF s, l, b
  <2>2. QED
    BY <1>3, <1>4, <2>1, SortLemma
<1>6. \E i \in Buffer : s[i].bucketIndex = b /\ s[i].buffer = Reused
  <2> HIDE DEF s, l, b
  <2>1. QED
    BY <1>3, <1>5
<1>7. QED
  BY <1>1, <1>2, <1>3, <1>5, <1>6

LEMMA LoadInv ==
  ASSUME Inv, NEW t \in Index, AtLoad(t)
  PROVE  Inv' /\ ret' = Answer(t, t)
<1> DEFINE b == BucketOf(t)
<1>1. /\ b \in Bucket /\ RecordIn(Inflate(b), t, b) = t
      /\ Reused \in Buffer
      /\ content' = Filled(b)
      /\ m_buffers' \in [Buffer -> Recs] /\ Ordered(m_buffers') /\ Unique(m_buffers')
      /\ Holds(m_buffers', content') /\ Timely(m_buffers', now', newest')
      /\ \E i \in Buffer : m_buffers'[i].bucketIndex = b /\ m_buffers'[i].buffer = Reused
  BY LoadedLemma
<1>2. /\ now' \in {now, now + 1} /\ now' <= MaxTime /\ newest' = Reused
      /\ m_currBucket' = b /\ m_recordsInCurrBuffer' = Reused
      /\ ret' = Answer(t, RecordIn(content'[Reused], t, b))
      /\ UNCHANGED <<bucketIndices, swaps>>
  BY DEF AtLoad, Tick, Reused
<1>3. /\ NumBuckets' = NumBuckets /\ Bucket' = Bucket /\ m_lastBucket' = m_lastBucket
      /\ Scanned' = Scanned /\ swaps' = swaps /\ items' = items /\ rStart' = rStart
      /\ \A c : Inflate(c)' = Inflate(c)
  BY <1>2, FileUnchanged
<1>4. /\ Position = Buffer /\ NumBuckets \in Nat \ {0} /\ NumBuffers \in Nat
      /\ Index \subseteq Nat /\ now \in Nat
      /\ content \in [Buffer -> Seq(Index)]
  BY TypeLemma DEF Inv, TypeOK
<1>5. MaxTime \in Nat /\ now \in 1 .. MaxTime
  BY ZlibReaderAssumption DEF Inv, TypeOK
<1>6. content'[Reused] = Inflate(b)
  BY <1>1, <1>4 DEF Filled
<1>7. ret' = Answer(t, t)
  BY <1>1, <1>2, <1>6
<1>8. Inflate(b) \in Seq(Index)
  <2>1. FileOK
    BY FileLemma DEF Inv
  <2>2. /\ b \in 0 .. NumBuckets /\ b + 1 \in 1 .. NumBuckets
        /\ b \in Nat /\ b + 1 \in 0 .. NumBuckets /\ b < b + 1
    BY <1>1, <1>4 DEF Bucket
  <2>3. items[b + 1] \in Nat /\ rStart[b] \in Nat /\ m_numRecords \in Index
    <3>1. items[b + 1] \in Nat
      BY <2>1, <2>2 DEF FileOK, NumBuckets
    <3>2. rStart[b] \in Nat
      BY <2>1, <2>2 DEF FileOK
    <3>3. NumBuckets \in 0 .. NumBuckets
      BY <1>4
    <3>4. m_numRecords \in Index
      BY <3>3 DEF Inv, TypeOK, m_numRecords
    <3>5. QED
      BY <3>1, <3>2, <3>4
  <2>4. rStart[b] < rStart[b + 1]
    BY <1>1, <2>1, <2>2, StartsIncrease
  <2>5. \A k \in DOMAIN Inflate(b) : Inflate(b)[k] \in 0 .. m_numRecords
    <3>1. \A c \in Bucket, u \in Nat : rStart[c] <= u /\ u < rStart[c + 1] =>
            \A k \in DOMAIN Inflate(c) : Inflate(c)[k] \in 0 .. m_numRecords
      BY <2>1, InflateLemma
    <3>2. rStart[b] <= rStart[b]
      BY <2>3
    <3> HIDE DEF b
    <3>3. QED
      BY <1>1, <2>3, <2>4, <3>1, <3>2
  <2>6. 0 .. m_numRecords \subseteq Index
    BY <2>3, TypeLemma DEF Inv
  <2>7. Inflate(b) \in [1 .. items[b + 1] -> Index]
    <3>1. DOMAIN Inflate(b) = 1 .. items[b + 1]
          /\ Inflate(b) = [k \in 1 .. items[b + 1] |-> Inflate(b)[k]]
      BY DEF Inflate
    <3>2. QED
      BY <2>5, <2>6, <3>1
  <2> HIDE DEF b
  <2>8. QED
    BY <2>3, <2>7
<1>9. content' \in [Buffer -> Seq(Index)]
  BY <1>1, <1>4, <1>8 DEF Filled
<1>10. now' \in Nat /\ \A i \in Buffer : m_buffers'[i].lastUse <= now'
  BY <1>1, <1>2, <1>4 DEF Timely
<1>11. /\ m_buffers' \in Seq([bucketIndex : 0 .. NumBuckets, lastUse : 0 .. now', buffer : Buffer])
       /\ Len(m_buffers') = NumBuffers
  <2> DEFINE R == [bucketIndex : 0 .. NumBuckets, lastUse : 0 .. now', buffer : Buffer]
             s == m_buffers'
  <2>1. ASSUME NEW i \in Buffer PROVE s[i] \in R
    <3>1. s[i] \in Recs /\ s[i].lastUse <= now'
      BY <1>1, <1>10
    <3>2. s[i].lastUse \in 0 .. now'
      BY <1>10, <3>1 DEF Recs
    <3>3. QED
      BY <3>1, <3>2 DEF Recs
  <2>2. s \in [Buffer -> Recs]
    BY <1>1
  <2> HIDE DEF R, s
  <2>3. s \in [1 .. NumBuffers -> R]
    BY <2>1, <2>2 DEF Buffer
  <2>4. s \in Seq(R) /\ Len(s) = NumBuffers
    BY <1>4, <2>3
  <2>5. QED
    BY <2>4 DEF R, s
<1>12. m_currBucket' \in 0 .. NumBuckets + 1 /\ m_currBucket' # m_lastBucket
  BY <1>1, <1>2, <1>4 DEF Bucket, m_lastBucket
<1>13. now' \in 1 .. MaxTime
  BY <1>2, <1>5
<1>14. TypeOK'
  <2>1. /\ items \in Seq(1 .. MaxItems) /\ NumBuckets \in 1 .. MaxBuckets
        /\ rStart \in [0 .. NumBuckets -> Index] /\ swaps \in BOOLEAN
    BY DEF Inv, TypeOK
  <2>2. m_recordsInCurrBuffer' \in Buffer \cup {None} /\ newest' \in Buffer \cup {None}
    BY <1>1, <1>2
  <2>3. /\ items' \in Seq(1 .. MaxItems) /\ NumBuckets' \in 1 .. MaxBuckets
        /\ rStart' \in [0 .. NumBuckets' -> Index] /\ swaps' \in BOOLEAN
    BY <1>3, <2>1
  <2>4. /\ m_buffers' \in Seq([bucketIndex : 0 .. NumBuckets', lastUse : 0 .. now', buffer : Buffer])
        /\ m_currBucket' \in 0 .. NumBuckets' + 1
    BY <1>2, <1>3, <1>11, <1>12
  <2>5. \E u \in Index, r \in Index \cup {Throw} : ret' = Answer(u, r)
    BY <1>7
  <2>6. QED
    BY <1>9, <1>11, <1>13, <2>2, <2>3, <2>4, <2>5 DEF TypeOK
<1>15. CurrentIsCached'
  <2>1. Position' = Buffer
    BY <1>11 DEF Position, Buffer
  <2> HIDE DEF b
  <2>2. QED
    BY <1>1, <1>2, <2>1 DEF CurrentIsCached
<1>16. Holds(m_buffers, content)'
  BY <1>1, <1>3 DEF Holds
<1>17. Ordered(m_buffers)'
  BY <1>1 DEF Ordered
<1>18. Unique(m_buffers)'
  BY <1>1, <1>3 DEF Unique
<1>19. Timely(m_buffers, now, newest)'
  BY <1>1, <1>3 DEF Timely
<1>20. Scanned' /\ m_currBucket' # m_lastBucket'
  BY <1>3, <1>12 DEF Inv
<1>21. QED
  BY <1>7, <1>14, <1>15, <1>16, <1>17, <1>18, <1>19, <1>20 DEF Inv

-----------------------------------------------------------------------------
(* The theorems *)

LEMMA StepInv == Inv /\ [Next]_vars => Inv'
<1> SUFFICES ASSUME Inv, [Next]_vars PROVE Inv'
  OBVIOUS
<1>1. ASSUME NEW t \in Index, At(t) PROVE Inv'
  BY <1>1, RefusedInv, CurrentInv, OtherInv, LoadInv DEF At
<1>2. CASE UNCHANGED vars
  <2>1. /\ UNCHANGED <<bucketIndices, m_buffers, content, swaps, now, newest>>
        /\ m_currBucket' = m_currBucket /\ ret' = ret
        /\ m_recordsInCurrBuffer' = m_recordsInCurrBuffer
    BY <1>2 DEF vars, current
  <2>2. CurrentIsCached'
    BY <2>1 DEF Inv, CurrentIsCached, Position, Bucket, NumBuckets, bucketIndices
  <2>3. QED
    BY <2>1, <2>2, QuietLemma DEF Inv, TypeOK
<1>3. QED
  BY <1>1, <1>2 DEF Next

LEMMA InvHolds == Spec => []Inv
  BY InitInv, StepInv, PTL DEF Spec

\* The search for a cached bucket can rely on the list of buffers: sorted,
\* every buffer in it once, and no bucket in two of them.
THEOREM SearchableAlways == Spec => []BuffersSearchable
<1>1. Inv => BuffersSearchable
  <2> SUFFICES ASSUME Inv PROVE BuffersSearchable
    OBVIOUS
  <2>1. TypeOK /\ Ordered(m_buffers) /\ Unique(m_buffers)
    BY DEF Inv
  <2>2. Position = Buffer /\ \A i \in Buffer : i \in Nat
    BY TypeLemma DEF Inv, Buffer
  <2>3. ASSUME NEW i \in Buffer, NEW j \in Buffer, i < j
        PROVE  /\ m_buffers[i].bucketIndex <= m_buffers[j].bucketIndex
               /\ m_buffers[i].buffer # m_buffers[j].buffer
               /\ m_buffers[i].bucketIndex = m_buffers[j].bucketIndex
                    => m_buffers[i].bucketIndex = m_lastBucket
    <3>1. i # j
      BY <2>2, <2>3
    <3>2. QED
      BY <2>1, <2>3, <3>1 DEF Ordered, Unique
  <2>4. QED
    BY <2>1, <2>2, <2>3 DEF BuffersSearchable
<1>2. QED
  BY <1>1, InvHolds, PTL

\* The short cut of at() for the bucket asked for last never uses a buffer
\* that a load or the sort has given to another bucket.
THEOREM CurrentAlwaysCached == Spec => []CurrentIsCached
<1>1. Inv => CurrentIsCached
  BY DEF Inv
<1>2. QED
  BY <1>1, InvHolds, PTL

\* When the buffers are few enough for the sort to move them whole, a load
\* discards the bucket loaded last only if it finds all buffers loaded in one
\* microsecond, however many there are.
THEOREM NewestIsKept == Spec => NewestKept
<1> DEFINE Same == \A i, j \in Position : m_buffers[i].lastUse = m_buffers[j].lastUse
<1>1. ASSUME Inv, [Next]_vars
      PROVE  [newest # None /\ content'[newest] # content[newest] => swaps \/ Same]_vars
  <2>1. ASSUME NEW t \in Index, AtLoad(t), ~swaps, newest # None, ~Same
        PROVE  content'[newest] = content[newest]
    <3>1. content' = Filled(BucketOf(t))
      BY <2>1, LoadedLemma, <1>1
    <3>2. /\ \A i \in Buffer : m_buffers[i].lastUse <= now
          /\ TypeOK
      BY <1>1 DEF Inv, Timely
    <3>3. PICK i \in Buffer :
            /\ m_buffers[i].buffer = newest
            /\ \A j \in Buffer : m_buffers[j].lastUse <= m_buffers[i].lastUse
      BY <1>1, <2>1 DEF Inv, Timely
    <3>4. /\ Oldest(m_buffers) \in Buffer
          /\ \A j \in Buffer : m_buffers[Oldest(m_buffers)].lastUse <= m_buffers[j].lastUse
      BY <3>2, OldestLemma
    <3>5. Position = Buffer /\ \A j \in Buffer : m_buffers[j].lastUse \in Nat
      <4>1. Position = Buffer /\ \A j \in Buffer : m_buffers[j] \in Recs
        BY <3>2, TypeLemma
      <4>2. QED
        BY <4>1 DEF Recs
    <3>6. Oldest(m_buffers) # i
      <4> SUFFICES ASSUME Oldest(m_buffers) = i PROVE FALSE
        OBVIOUS
      <4>1. \A j \in Buffer : m_buffers[j].lastUse = m_buffers[i].lastUse
        BY <3>3, <3>4, <3>5
      <4>2. QED
        BY <2>1, <3>5, <4>1
    <3>7. Reused # newest
      BY <1>1, <3>3, <3>4, <3>6 DEF Inv, Unique, Reused
    <3>8. newest \in Buffer /\ content \in [Buffer -> Seq(Index)]
      BY <2>1, <3>2 DEF TypeOK
    <3>9. QED
      BY <3>1, <3>7, <3>8 DEF Filled
  <2> HIDE DEF Same
  <2>2. ASSUME NEW t \in Index, AtRefused(t) \/ AtCurrent(t) \/ AtOther(t)
        PROVE  content' = content
    BY <2>2 DEF AtRefused, AtCurrent, AtOther
  <2>3. CASE UNCHANGED vars
    BY <2>3
  <2>4. QED
    BY <1>1, <2>1, <2>2, <2>3 DEF Next, At
<1>2. QED
  BY <1>1, InvHolds, PTL DEF Spec, NewestKept

\* ZlibReader implements ReaderBase: whatever is cached, each call answers
\* with the record asked for, or refuses an index past the end.
THEOREM Implements == Spec => ImplementsReaderBase
<1>1. Init => Base!Init
  <2> SUFFICES ASSUME Init PROVE Base!Init
    OBVIOUS
  <2>1. NumBuckets \in 0 .. NumBuckets /\ rStart \in [0 .. NumBuckets -> Index]
    <3>1. TypeOK
      BY InitInv DEF Inv
    <3>2. NumBuckets \in Nat
      BY <3>1, TypeLemma
    <3>3. QED
      BY <3>1, <3>2 DEF TypeOK
  <2>2. QED
    BY <2>1 DEF Init, Base!Init, m_numRecords, Index
<1>2. ASSUME Inv, [Next]_vars
      PROVE  [Base!Next]_<<m_numRecords, ret>>
  <2>1. ASSUME NEW t \in Index, At(t) PROVE Base!At(t)
    <3>1. UNCHANGED m_numRecords
      <4>1. UNCHANGED <<bucketIndices, swaps>>
        BY <2>1 DEF At, AtRefused, AtCurrent, AtOther, AtLoad
      <4>2. QED
        BY <4>1, FileUnchanged
    <3>2. CASE AtRefused(t)
      <4>1. m_numRecords \in Nat /\ t \in Nat
        <5>1. NumBuckets \in 0 .. NumBuckets /\ Index \subseteq Nat
          BY <1>2, TypeLemma DEF Inv
        <5>2. QED
          BY <1>2, <5>1 DEF Inv, TypeOK, m_numRecords
      <4>2. ~(t < m_numRecords)
        BY <3>2, <4>1 DEF AtRefused
      <4>3. QED
        BY <1>2, <3>1, <3>2, <4>2, RefusedInv DEF Answer, Base!At, Base!Answer
    <3>3. CASE AtCurrent(t) \/ AtOther(t) \/ AtLoad(t)
      <4>1. ret' = Answer(t, t)
        BY <1>2, <3>3, CurrentInv, OtherInv, LoadInv
      <4>2. t < m_numRecords
        BY <3>3 DEF AtCurrent, AtOther, AtLoad
      <4>3. QED
        BY <3>1, <4>1, <4>2 DEF Answer, Base!At, Base!Answer
    <3>4. QED
      BY <2>1, <3>2, <3>3 DEF At
  <2>2. CASE UNCHANGED vars
    BY <2>2 DEF vars, bucketIndices, m_numRecords, NumBuckets
  <2>3. QED
    BY <1>2, <2>1, <2>2 DEF Next, Base!Next, Index, Base!Index
<1>3. QED
  BY <1>1, <1>2, InvHolds, PTL DEF Spec, ImplementsReaderBase, Base!Spec

=============================================================================
