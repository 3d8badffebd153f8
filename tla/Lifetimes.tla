----------------------------- MODULE Lifetimes -----------------------------
(***************************************************************************)
(* The converter extras/record2TTree.cxx: for each record of a trace the   *)
(* time without the overhead of recording, how many records lie around it, *)
(* and for an allocation the time until it is freed.                       *)
(*                                                                         *)
(* Four cursors run over the trace besides the record in turn: both ends   *)
(* of the density window, the last free the look-ahead has met, and the    *)
(* search that starts from it.  Each carries the overhead of the records   *)
(* it has passed, to correct a time stamp without going back.  A free that *)
(* a search meets and does not want is kept in freeMap, for the allocation *)
(* that will.                                                              *)
(*                                                                         *)
(* The records come from a reader (see ReaderBase); one action is one turn *)
(* of a loop of the code.                                                  *)
(***************************************************************************)
EXTENDS Integers, Sequences, FiniteSetsExt

CONSTANTS
  Traces,         \* the traces to convert
  DHalf,          \* half of the density window
  LookAhead,      \* maxLookAheadTime
  MapLen,         \* mapLen: entries of the map up to which it looks further
  Percent,        \* records per marker, 100 in the code
  Word            \* values of size_t and uint64_t

FREE == 0
MALLOC == 1

ASSUME LifetimesAssumption ==
  /\ DHalf \in Nat /\ LookAhead \in Nat /\ MapLen \in Nat
  /\ Percent \in Nat \ {0} /\ Word \in Nat \ {0}

\* What the first k records of tr have cost, the sum of their overheads.
Cost(tr, k) ==
  LET sum[n \in 0 .. k] == IF n = 0 THEN 0 ELSE sum[n - 1] + (tr[n].t2 - tr[n].t0)
  IN sum[k]

\* The traces of any program, with any number of threads: calls of different
\* threads overlap, and records need not be in the order of their times.  A file
\* has fewer records than size_t values, and its times and the windows around
\* them stay far below 2^63 ns, although a time without the overhead of all
\* threads may be negative.
ASSUME TracesAssumption ==
  \A tr \in Traces :
    /\ tr \in Seq([allocType : Nat, addr : Nat, t0 : Nat, t2 : Nat])
    /\ Len(tr) < Word
    /\ \A k \in 0 .. Len(tr) - 1 :
         LET t == tr[k + 1].t0 - Cost(tr, k) IN
         4 * (t + DHalf + LookAhead) < Word /\ 4 * (DHalf + LookAhead - t) < Word

VARIABLES
  trace,          \* the records
  i,              \* the record in turn, from 0
  TOffset,        \* overhead of the records before it, then of it too
  TCorr,          \* its corrected time
  LifeTime,       \* its lifetime, -1 while unknown
  low, high,      \* windowMin with wlOffset, windowMax with whOffset
  look,           \* lastFreeIndex, lastTOffset, lastTCorr
  ahead,          \* currIdx with aoff
  freeMap,        \* address -> frees seen and not yet used
  tableSize,
  tree,           \* the entries filled so far
  pc              \* the loop under way, or "next", "fill", "done", "crashed"

vars == <<trace, i, TOffset, TCorr, LifeTime, low, high, look, ahead, freeMap,
          tableSize, tree, pc>>

-----------------------------------------------------------------------------
(* The trace *)

nrecords == Len(trace)
Rec(k) == trace[k + 1]
Overhead(k) == Rec(k).t2 - Rec(k).t0
IsFree(k) == Rec(k).allocType = FREE

Frees(k, a) == IsFree(k) /\ Rec(k).addr = a

TStart == 0

\* The values are sums and differences of 64-bit words, which agree with those
\* of integers modulo 2^64.  What they are compared or written as is their value
\* as a uint64_t or as an int64_t.
Unsigned(x) == x % Word
Signed(x) == ((x + Word \div 2) % Word) - (Word \div 2)

Cursor(at, offset) == [at |-> at, offset |-> offset]
Advanced(c) == Cursor(c.at + 1, c.offset + Overhead(c.at))

\* The time of the record at a cursor.
Corrected(c) == Rec(c.at).t0 - TStart - c.offset

NoEntry == [a \in {} |-> <<>>]

Init ==
  /\ trace \in Traces
  /\ i = 0 /\ TOffset = 0 /\ TCorr = 0 /\ LifeTime = -1
  /\ low = Cursor(0, 0) /\ high = Cursor(0, 0) /\ ahead = Cursor(0, 0)
  /\ look = [at |-> 0, offset |-> IF trace = <<>> THEN 0 ELSE Overhead(0), TCorr |-> 0]
  /\ freeMap = NoEntry /\ tableSize = 0
  /\ tree = <<>>
  /\ pc = IF trace = <<>> THEN "crashed" ELSE "next"      \* rdr->at(0)

NextRecord ==
  /\ pc = "next" /\ i < nrecords
  /\ TCorr' = Corrected(Cursor(i, TOffset))
  /\ TOffset' = TOffset + Overhead(i)
  /\ LifeTime' = -1
  /\ pc' = "low"
  /\ UNCHANGED <<trace, i, low, high, look, ahead, freeMap, tableSize, tree>>

-----------------------------------------------------------------------------
(* The density window *)

Window == <<trace, i, TOffset, TCorr, LifeTime, look, ahead, freeMap, tableSize, tree>>

BelowWindow == Signed(Corrected(low)) < Signed(TCorr - DHalf)

LowTurn ==
  /\ pc = "low" /\ BelowWindow
  /\ low' = Advanced(low)
  /\ UNCHANGED <<Window, high, pc>>

LowEnds ==
  /\ pc = "low" /\ ~BelowWindow
  /\ pc' = "high"
  /\ UNCHANGED <<Window, low, high>>

InWindowClosed ==           \* faulty variant: the upper end belongs to it
  high.at < nrecords /\ Signed(Corrected(high)) <= Signed(TCorr + DHalf)

InWindow == high.at < nrecords /\ Signed(Corrected(high)) < Signed(TCorr + DHalf)

HighTurn ==
  /\ pc = "high" /\ InWindow
  /\ high' = Advanced(high)
  /\ UNCHANGED <<Window, low, pc>>

HighEnds ==
  /\ pc = "high" /\ ~InWindow
  /\ pc' = "life"
  /\ UNCHANGED <<Window, low, high>>

-----------------------------------------------------------------------------
(* The look-ahead *)

Search == <<trace, i, TOffset, TCorr, low, high, tree>>

TMax == TCorr + LookAhead

FreeRecord(c) == [filePos |-> c.at, TCorr |-> Corrected(c)]

Pushed(a, f) ==
  [b \in DOMAIN freeMap \cup {a} |->
     IF b # a THEN freeMap[b]
     ELSE IF a \in DOMAIN freeMap THEN Append(freeMap[a], f) ELSE <<f>>]

PoppedLast(a) ==            \* faulty variant: the newest entry is removed
  [b \in {x \in DOMAIN freeMap : x # a \/ Len(freeMap[x]) > 1} |->
     IF b = a THEN SubSeq(freeMap[b], 1, Len(freeMap[b]) - 1) ELSE freeMap[b]]

Popped(a) ==
  [b \in {x \in DOMAIN freeMap : x # a \/ Len(freeMap[x]) > 1} |->
     IF b = a THEN Tail(freeMap[b]) ELSE freeMap[b]]

LastFreeBare(c) ==          \* faulty variant: without the free's own overhead
  [at |-> c.at, offset |-> c.offset, TCorr |-> Corrected(c)]

LastFree(c) ==
  [at |-> c.at, offset |-> c.offset + Overhead(c.at), TCorr |-> Corrected(c)]

Missing == ~IsFree(i) /\ Rec(i).addr \notin DOMAIN freeMap
Beyond == Unsigned(look.TCorr) >= Unsigned(TMax) \/ look.at + 1 >= nrecords

\* A free has no lifetime; neither has an allocation of whose address no free
\* is known when the look-ahead is further than its time, or at the end.
NoLifetime ==
  /\ pc = "life" /\ (IsFree(i) \/ (Missing /\ Beyond))
  /\ pc' = "fill"
  /\ UNCHANGED <<Search, LifeTime, look, ahead, freeMap, tableSize>>

FromMap ==
  /\ pc = "life" /\ ~IsFree(i) /\ ~Missing
  /\ LET a == Rec(i).addr IN
       /\ LifeTime' = Signed(Head(freeMap[a]).TCorr - TCorr)
       /\ freeMap' = Popped(a)
  /\ tableSize' = (tableSize - 1) % Word
  /\ pc' = "fill"
  /\ UNCHANGED <<Search, look, ahead>>

\* The free of record i, met at cursor c.
Found(c) ==
  /\ LifeTime' = Signed(Corrected(c) - TCorr)
  /\ look' = LastFree(c)
  /\ pc' = "fill"
  /\ UNCHANGED <<freeMap, tableSize>>

\* The first record is dealt with before the loop.  If it is the free of
\* another address it is kept, but the look-ahead does not move past it, and
\* it is not counted if there is an entry already.
BeginSearch ==
  /\ pc = "life" /\ Missing /\ ~Beyond
  /\ LET c == Cursor(look.at + 1, look.offset)
         b == Rec(c.at).addr
     IN /\ ahead' = c
        /\ \/ Frees(c.at, Rec(i).addr) /\ Found(c)
           \/ /\ IsFree(c.at) /\ b \notin {0, Rec(i).addr}
              /\ freeMap' = Pushed(b, FreeRecord(c))
              /\ tableSize' = IF b \in DOMAIN freeMap THEN tableSize
                              ELSE (tableSize + 1) % Word
              /\ pc' = "search"
              /\ UNCHANGED <<LifeTime, look>>
           \/ /\ ~IsFree(c.at) \/ (b = 0 /\ Rec(i).addr # 0)
              /\ pc' = "search"
              /\ UNCHANGED <<LifeTime, look, freeMap, tableSize>>
  /\ UNCHANGED Search

\* On, until the look-ahead time is over and the map is full, or the file.
Further ==
  /\ Unsigned(Corrected(ahead)) < Unsigned(TMax) \/ tableSize < MapLen
  /\ ahead.at < nrecords - 1

SearchTurn ==
  /\ pc = "search" /\ Further
  /\ LET c == Advanced(ahead)
         b == Rec(c.at).addr
     IN /\ ahead' = c
        /\ \/ /\ ~IsFree(c.at) \/ b = 0
              /\ UNCHANGED <<LifeTime, look, freeMap, tableSize, pc>>
           \/ b # 0 /\ Frees(c.at, Rec(i).addr) /\ Found(c)
           \/ /\ IsFree(c.at) /\ b \notin {0, Rec(i).addr}
              /\ look' = LastFree(c)
              /\ freeMap' = Pushed(b, FreeRecord(c))
              /\ tableSize' = (tableSize + 1) % Word
              /\ UNCHANGED <<LifeTime, pc>>
  /\ UNCHANGED Search

SearchEnds ==
  /\ pc = "search" /\ ~Further
  /\ pc' = "fill"
  /\ UNCHANGED <<Search, LifeTime, look, ahead, freeMap, tableSize>>

-----------------------------------------------------------------------------
(* The end of a turn, and of the file *)

Marker == nrecords \div Percent     \* a remainder by 0 ends the process

Fill ==
  /\ pc = "fill"
  /\ tree' = Append(tree, [TCorr |-> Unsigned(TCorr), LifeTime |-> LifeTime,
                           Density |-> Unsigned(high.at - low.at - 1)])
  /\ i' = i + 1
  /\ pc' = IF Marker = 0 THEN "crashed" ELSE "next"
  /\ UNCHANGED <<trace, TOffset, TCorr, LifeTime, low, high, look, ahead,
                 freeMap, tableSize>>

Finish ==
  /\ pc = "next" /\ i = nrecords
  /\ pc' = "done"
  /\ UNCHANGED <<Search, LifeTime, look, ahead, freeMap, tableSize>>

Stopped ==
  /\ pc \in {"done", "crashed"}
  /\ UNCHANGED vars

Next ==
  \/ NextRecord
  \/ LowTurn \/ LowEnds \/ HighTurn \/ HighEnds
  \/ NoLifetime \/ FromMap \/ BeginSearch \/ SearchTurn \/ SearchEnds
  \/ Fill \/ Finish \/ Stopped

Spec == Init /\ [][Next]_vars

-----------------------------------------------------------------------------
(* Properties *)

\* What the records before record k have cost, and its time without that.
OverheadBefore(k) == Cost(trace, k)
TrueTime(k) == Rec(k).t0 - TStart - OverheadBefore(k)

\* A record is being converted.
Busy == pc \in {"low", "high", "life", "search", "fill"}

\* The five cursors agree on the time of a record, whether or not calls overlap:
\* each has counted exactly the overhead of the records it has passed, though it
\* stops and goes on at different moments, and every free in the map is a free of
\* its address, with the time it would have as the record in turn.
ClocksAgree ==
  /\ TOffset = OverheadBefore(IF Busy THEN i + 1 ELSE i)
  /\ low.offset = OverheadBefore(low.at) /\ high.offset = OverheadBefore(high.at)
  /\ pc = "search" => ahead.offset = OverheadBefore(ahead.at)
  /\ trace # <<>> => look.offset = OverheadBefore(look.at + 1)
  /\ look.at # 0 => look.TCorr = TrueTime(look.at)
  /\ \A k \in 1 .. Len(tree) : tree[k].TCorr = Unsigned(TrueTime(k - 1))
  /\ \A a \in DOMAIN freeMap :
       /\ freeMap[a] # <<>>
       /\ \A n \in 1 .. Len(freeMap[a]) :
            LET f == freeMap[a][n] IN
            Frees(f.filePos, a) /\ f.TCorr = TrueTime(f.filePos)

\* No two calls overlap, as in a program with one thread: each begins after the
\* record of the one before it is written.  This is so just if the corrected
\* times are in order.
OneThread == \A k \in 0 .. nrecords - 2 : Rec(k).t2 <= Rec(k + 1).t0

\* In a trace in which no two calls overlap, the density of a record is the
\* number of other records in the half-open window around it, for a window that
\* is not empty, though its ends only move forward and those of the first
\* records are negative.
DensityCounts ==
  DHalf > 0 /\ OneThread =>
    \A k \in 1 .. Len(tree) :
      LET t == TrueTime(k - 1) IN
      tree[k].Density + 1 =
        Cardinality({n \in 0 .. nrecords - 1 :
                       TrueTime(n) >= t - DHalf /\ TrueTime(n) < t + DHalf})

\* The first free of the address of record k behind it.
FreesAfter(k) == {n \in k + 1 .. nrecords - 1 : Frees(n, Rec(k).addr)}
FirstFree(k) == Min(FreesAfter(k))

\* A trace from which nothing is missing: between two allocations of an
\* address, and behind the last one, it is freed, and nothing else is.
Balanced ==
  \A k \in 0 .. nrecords - 1 : Rec(k).addr # 0 =>
    IF IsFree(k)
    THEN \E n \in 0 .. k - 1 :
           /\ ~IsFree(n) /\ Rec(n).addr = Rec(k).addr
           /\ \A m \in n + 1 .. k - 1 : Rec(m).addr # Rec(k).addr
    ELSE \E n \in k + 1 .. nrecords - 1 :
           /\ Frees(n, Rec(k).addr)
           /\ \A m \in k + 1 .. n - 1 : Rec(m).addr # Rec(k).addr

\* The trace is over within the look-ahead time; the address of record k is
\* allocated only there.
Short == \A k \in 0 .. nrecords - 1 : TrueTime(k) \in 0 .. LookAhead - 1
Unique(k) ==
  \A n \in 0 .. nrecords - 1 : ~IsFree(n) /\ Rec(n).addr = Rec(k).addr => n = k

\* In such a trace an allocation lives until the first free of its address
\* behind it, in whatever order the searches have met the frees and whether it
\* comes from the map or from the file; it is without a lifetime only if that
\* free is further away than the look-ahead time.  This is so whether or not
\* calls overlap if the time limit does not apply; if it does, for addresses that
\* are not used again and without overlaps, whatever the size of the map.
LivesUntilFreed ==
  Balanced =>
    \A k \in 1 .. Len(tree) :
      ~IsFree(k - 1) /\ Rec(k - 1).addr # 0 /\ (Short \/ (OneThread /\ Unique(k - 1))) =>
        LET life == TrueTime(FirstFree(k - 1)) - TrueTime(k - 1) IN
        tree[k].LifeTime = life \/ (tree[k].LifeTime = -1 /\ life >= LookAhead)

=============================================================================
