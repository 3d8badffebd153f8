--------------------------- MODULE LifetimesProofs ---------------------------
(***************************************************************************)
(* Theorems about Lifetimes, for traces of any length, any window,         *)
(* look-ahead time, size of the map and width of the words that holds what *)
(* TracesAssumption says: the cursors agree on the times of any trace, the *)
(* density is that of the window if no two calls overlap, and lifetimes    *)
(* end with the right free.                                                *)
(*                                                                         *)
(* The first part is about a trace alone: its costs, its times, and which  *)
(* free ends which allocation.  The second one is about the cursors, the   *)
(* third about the window, the last about the map.                         *)
(***************************************************************************)
EXTENDS Lifetimes, NaturalsInduction, WellFoundedInduction, FiniteSetTheorems,
        SequenceTheorems, TLAPS

Row == [allocType : Nat, addr : Nat, t0 : Nat, t2 : Nat]

\* What TracesAssumption says of a trace.
Proper(tr) ==
  /\ tr \in Seq(Row)
  /\ Len(tr) < Word
  /\ \A k \in 0 .. Len(tr) - 1 :
       LET t == tr[k + 1].t0 - Cost(tr, k) IN
       4 * (t + DHalf + LookAhead) < Word /\ 4 * (DHalf + LookAhead - t) < Word

-----------------------------------------------------------------------------
(* The least of a set of numbers, for the inductions below *)

LEMMA LeastNat ==
  ASSUME NEW S, S \subseteq Nat, S # {}
  PROVE  \E x \in S : \A y \in S : x <= y
<1> DEFINE R == OpToRel(<, Nat)
<1>1. PICK x \in S : \A y \in S : ~(<<y, x>> \in R)
  <2>1. IsWellFoundedOn(R, Nat)
    BY NatLessThanWellFounded
  <2> HIDE DEF R
  <2>2. QED
    BY <2>1, WFMin
<1>2. ASSUME NEW y \in S PROVE x <= y
  <2>1. x \in Nat /\ y \in Nat
    OBVIOUS
  <2>2. y < x => <<y, x>> \in R
    BY <2>1 DEF OpToRel
  <2> HIDE DEF R
  <2>3. ~(y < x)
    BY <1>1, <2>2
  <2>4. QED
    BY <2>1, <2>3
<1>3. QED
  BY <1>2

-----------------------------------------------------------------------------
(* Costs *)

\* s holds the costs of the first 0 to m records of tr.
Costs(s, tr, m) ==
  s = [n \in 0 .. m |-> IF n = 0 THEN 0 ELSE s[n - 1] + (tr[n].t2 - tr[n].t0)]

LEMMA CostsExist ==
  ASSUME NEW tr \in Seq(Row), NEW m \in 0 .. Len(tr)
  PROVE  \E s : Costs(s, tr, m)
<1> DEFINE Bad == {k \in 0 .. Len(tr) : ~\E s : Costs(s, tr, k)}
<1>1. ASSUME Bad # {} PROVE FALSE
  <2>0. Bad \subseteq Nat
    OBVIOUS
  <2>1. PICK k \in Bad : \A j \in Bad : k <= j
    <3> HIDE DEF Bad
    <3>1. QED
      BY <1>1, <2>0, LeastNat
  <2>2. k # 0
    <3>1. Costs([n \in 0 .. 0 |-> 0], tr, 0)
      BY DEF Costs
    <3>2. QED
      BY <3>1
  <2>3. k - 1 \in 0 .. Len(tr) /\ k - 1 < k /\ k \in Nat
    BY <2>2
  <2>4. PICK s : Costs(s, tr, k - 1)
    BY <2>1, <2>3
  <2> DEFINE t == [n \in 0 .. k |->
                     IF n = k THEN s[k - 1] + (tr[k].t2 - tr[k].t0) ELSE s[n]]
  <2>5. ASSUME NEW n \in 0 .. k
        PROVE  t[n] = IF n = 0 THEN 0 ELSE t[n - 1] + (tr[n].t2 - tr[n].t0)
    <3>1. CASE n = k
      BY <3>1, <2>2, <2>3
    <3>2. CASE n # k
      BY <3>2, <2>2, <2>3, <2>4 DEF Costs
    <3>3. QED
      BY <3>1, <3>2
  <2>6. Costs(t, tr, k)
    BY <2>5 DEF Costs
  <2>7. QED
    BY <2>6
<1>2. QED
  BY <1>1

LEMMA CostsAgree ==
  ASSUME NEW tr, NEW i1 \in Nat, NEW j1 \in Nat, i1 <= j1,
         NEW s, NEW t, Costs(s, tr, i1), Costs(t, tr, j1)
  PROVE  s[i1] = t[i1]
<1> DEFINE Bad == {n \in 0 .. i1 : s[n] # t[n]}
<1>1. ASSUME Bad # {} PROVE FALSE
  <2>0. Bad \subseteq Nat
    OBVIOUS
  <2>1. PICK k \in Bad : \A n \in Bad : k <= n
    <3> HIDE DEF Bad
    <3>1. QED
      BY <1>1, <2>0, LeastNat
  <2>2. k # 0
    BY DEF Costs
  <2>3. k - 1 \in 0 .. i1 /\ k - 1 < k /\ k \in 1 .. i1 /\ k \in 0 .. j1
    BY <2>2
  <2>4. s[k - 1] = t[k - 1]
    BY <2>1, <2>3
  <2>5. s[k] = s[k - 1] + (tr[k].t2 - tr[k].t0) /\ t[k] = t[k - 1] + (tr[k].t2 - tr[k].t0)
    BY <2>2, <2>3 DEF Costs
  <2>6. QED
    BY <2>3, <2>4, <2>5
<1>2. QED
  BY <1>1

LEMMA CostsInt ==
  ASSUME NEW tr \in Seq(Row), NEW m \in 0 .. Len(tr), NEW s, Costs(s, tr, m)
  PROVE  \A n \in 0 .. m : s[n] \in Int
<1> DEFINE Bad == {n \in 0 .. m : s[n] \notin Int}
<1>1. ASSUME Bad # {} PROVE FALSE
  <2>0. Bad \subseteq Nat
    OBVIOUS
  <2>1. PICK k \in Bad : \A n \in Bad : k <= n
    <3> HIDE DEF Bad
    <3>1. QED
      BY <1>1, <2>0, LeastNat
  <2>2. k # 0
    BY DEF Costs
  <2>3. k - 1 \in 0 .. m /\ k - 1 < k /\ k \in 1 .. Len(tr)
    BY <2>2
  <2>4. s[k - 1] \in Int
    BY <2>1, <2>3
  <2>5. tr[k].t2 - tr[k].t0 \in Int
    <3>1. tr[k] \in Row
      BY <2>3
    <3>2. QED
      BY <3>1 DEF Row
  <2>6. s[k] = s[k - 1] + (tr[k].t2 - tr[k].t0)
    BY <2>2, <2>3 DEF Costs
  <2>7. QED
    BY <2>4, <2>5, <2>6
<1>2. QED
  BY <1>1

LEMMA CostIs ==
  ASSUME NEW tr \in Seq(Row), NEW m \in 0 .. Len(tr)
  PROVE  \E s : Costs(s, tr, m) /\ Cost(tr, m) = s[m]
<1> DEFINE s == CHOOSE s : Costs(s, tr, m)
<1>1. Costs(s, tr, m)
  BY CostsExist
<1>2. Cost(tr, m) = s[m]
  BY DEF Cost, Costs
<1>3. QED
  BY <1>1, <1>2

\* All that is used of the recursion: a cursor that passes a record adds what
\* the record has cost.
LEMMA CostStep ==
  ASSUME NEW tr \in Seq(Row)
  PROVE  /\ Cost(tr, 0) = 0
         /\ \A m \in 0 .. Len(tr) : Cost(tr, m) \in Int
         /\ \A m \in 0 .. Len(tr) - 1 :
              Cost(tr, m + 1) = Cost(tr, m) + (tr[m + 1].t2 - tr[m + 1].t0)
<1>1. Cost(tr, 0) = 0
  BY CostIs DEF Costs
<1>2. \A m \in 0 .. Len(tr) : Cost(tr, m) \in Int
  BY CostIs, CostsInt
<1>3. ASSUME NEW m \in 0 .. Len(tr) - 1
      PROVE  Cost(tr, m + 1) = Cost(tr, m) + (tr[m + 1].t2 - tr[m + 1].t0)
  <2>1. m \in Nat /\ m + 1 \in Nat /\ m <= m + 1 /\ m + 1 \in 0 .. Len(tr)
        /\ m \in 0 .. Len(tr) /\ m + 1 \in 0 .. m + 1 /\ m + 1 # 0 /\ (m + 1) - 1 = m
    OBVIOUS
  <2>2. PICK s : Costs(s, tr, m) /\ Cost(tr, m) = s[m]
    BY <2>1, CostIs
  <2>3. PICK t : Costs(t, tr, m + 1) /\ Cost(tr, m + 1) = t[m + 1]
    BY <2>1, CostIs
  <2>4. s[m] = t[m]
    BY <2>1, <2>2, <2>3, CostsAgree
  <2>5. t[m + 1] = t[(m + 1) - 1] + (tr[m + 1].t2 - tr[m + 1].t0)
    BY <2>1, <2>3 DEF Costs
  <2>6. QED
    BY <2>1, <2>2, <2>3, <2>4, <2>5
<1>4. QED
  BY <1>1, <1>2, <1>3

-----------------------------------------------------------------------------
(* A trace: its records, its times *)

\* The trace under conversion.
Given == Proper(trace)

LEMMA GivenFromTraces ==
  trace \in Traces => Given
BY TracesAssumption DEF Given, Proper, Row

LEMMA Records ==
  ASSUME Given
  PROVE  /\ nrecords \in Nat /\ nrecords < Word
         /\ \A k \in 0 .. nrecords - 1 :
              /\ Rec(k).allocType \in Nat /\ Rec(k).addr \in Nat
              /\ Rec(k).t0 \in Nat /\ Rec(k).t2 \in Nat
              /\ Overhead(k) \in Int
<1>1. nrecords \in Nat /\ nrecords < Word
  BY DEF Given, Proper, nrecords
<1>2. ASSUME NEW k \in 0 .. nrecords - 1
      PROVE  /\ Rec(k).allocType \in Nat /\ Rec(k).addr \in Nat
             /\ Rec(k).t0 \in Nat /\ Rec(k).t2 \in Nat
             /\ Overhead(k) \in Int
  <2>1. k + 1 \in 1 .. Len(trace)
    BY <1>1 DEF nrecords
  <2>2. trace[k + 1] \in Row
    BY <2>1 DEF Given, Proper
  <2>3. QED
    BY <2>2 DEF Row, Rec, Overhead
<1>3. QED
  BY <1>1, <1>2

\* How a cursor that has counted right goes on.
LEMMA Passed ==
  ASSUME Given
  PROVE  /\ OverheadBefore(0) = 0
         /\ \A k \in 0 .. nrecords : OverheadBefore(k) \in Int
         /\ \A k \in 0 .. nrecords - 1 :
              OverheadBefore(k + 1) = OverheadBefore(k) + Overhead(k)
BY CostStep DEF Given, Proper, OverheadBefore, nrecords, Overhead, Rec

\* The times and the ends of the windows around them are small.
LEMMA Times ==
  ASSUME Given
  PROVE  \A k \in 0 .. nrecords - 1 :
           /\ TrueTime(k) \in Int
           /\ 4 * (TrueTime(k) + DHalf + LookAhead) < Word
           /\ 4 * (DHalf + LookAhead - TrueTime(k)) < Word
<1> SUFFICES ASSUME NEW k \in 0 .. nrecords - 1
             PROVE  /\ TrueTime(k) \in Int
                    /\ 4 * (TrueTime(k) + DHalf + LookAhead) < Word
                    /\ 4 * (DHalf + LookAhead - TrueTime(k)) < Word
  OBVIOUS
<1>1. Rec(k).t0 \in Nat /\ OverheadBefore(k) \in Int /\ k \in 0 .. Len(trace) - 1
  BY Records, Passed DEF nrecords
<1>2. TrueTime(k) = trace[k + 1].t0 - Cost(trace, k) /\ TrueTime(k) \in Int
  BY <1>1 DEF TrueTime, TStart, Rec, OverheadBefore
<1>3. QED
  BY <1>1, <1>2 DEF Given, Proper

\* Without overlaps they are in order, from the start of the trace on.
LEMMA OrderedTimes ==
  ASSUME Given, OneThread
  PROVE  \A k \in 0 .. nrecords - 1 : TrueTime(k) \in Nat
         /\ \A j \in 0 .. k : TrueTime(j) <= TrueTime(k)
<1>1. \A k \in 0 .. nrecords - 1 : TrueTime(k) \in Int
  BY Times
<1>2. \A k \in 0 .. nrecords - 2 : TrueTime(k) <= TrueTime(k + 1)
  BY Records, Passed DEF TrueTime, TStart, Overhead, OneThread
<1>3. nrecords > 0 => TrueTime(0) \in Nat
  BY Records, Passed DEF TrueTime, TStart
<1>4. nrecords \in Nat
  BY Records
<1> DEFINE Bad == {k \in 0 .. nrecords - 1 :
                     ~ \A j \in 0 .. k : TrueTime(j) <= TrueTime(k)}
<1>5. Bad = {}
  <2>0. Bad \subseteq Nat
    OBVIOUS
  <2>1. SUFFICES ASSUME Bad # {} PROVE FALSE
    OBVIOUS
  <2>2. PICK k \in Bad : \A n \in Bad : k <= n
    <3> HIDE DEF Bad
    <3>1. QED
      BY <2>0, <2>1, LeastNat
  <2>3. k # 0
    BY <1>1, <1>4
  <2>4. k - 1 \in 0 .. nrecords - 1 /\ k - 1 \in 0 .. nrecords - 2 /\ k - 1 \notin Bad
        /\ (k - 1) + 1 = k
    BY <2>2, <2>3, <1>4
  <2>5. \A j \in 0 .. k - 1 : TrueTime(j) <= TrueTime(k - 1)
    BY <2>4
  <2>6. TrueTime(k - 1) <= TrueTime(k)
    BY <1>2, <2>4
  <2>7. \A j \in 0 .. k : j = k \/ j \in 0 .. k - 1
    BY <1>4
  <2>8. QED
    BY <1>1, <1>4, <2>4, <2>5, <2>6, <2>7
<1>6. \A k \in 0 .. nrecords - 1 : \A j \in 0 .. k : TrueTime(j) <= TrueTime(k)
  BY <1>5
<1>7. \A k \in 0 .. nrecords - 1 : 0 \in 0 .. k /\ 0 \in 0 .. nrecords - 1
  BY <1>4
<1>8. QED
  BY <1>1, <1>3, <1>4, <1>6, <1>7

LEMMA SmallMod ==
  ASSUME NEW w \in Nat \ {0}, NEW n \in 0 .. w - 1
  PROVE  n % w = n
OBVIOUS

\* Of a number that is small, both words are the number.
LEMMA Words ==
  ASSUME NEW x \in Int, 2 * x < Word, -2 * x < Word
  PROVE  Signed(x) = x /\ (x \in Nat => Unsigned(x) = x)
<1> DEFINE h == Word \div 2
<1>1. h \in Nat /\ Word \in Nat \ {0} /\ 2 * h <= Word /\ Word <= 2 * h + 1
  BY LifetimesAssumption
<1>2. x + h \in 0 .. Word - 1
  <2> HIDE DEF h
  <2>1. QED
    BY <1>1
<1>3. (x + h) % Word = x + h
  BY <1>1, <1>2, SmallMod
<1>4. Signed(x) = x
  <2>1. Signed(x) = ((x + h) % Word) - h
    BY DEF Signed
  <2> HIDE DEF h
  <2>2. QED
    BY <1>1, <1>3, <2>1
<1>5. ASSUME x \in Nat PROVE Unsigned(x) = x
  <2>1. x \in 0 .. Word - 1
    BY <1>1, <1>5
  <2>2. QED
    BY <1>1, <2>1, SmallMod DEF Unsigned
<1>6. QED
  BY <1>4, <1>5

\* What the converter compares and writes is therefore what it means, but for
\* times before the start of the trace, which only Signed leaves alone.
LEMMA Compared ==
  ASSUME Given, NEW k \in 0 .. nrecords - 1
  PROVE  /\ Signed(TrueTime(k)) = TrueTime(k)
         /\ Signed(TrueTime(k) - DHalf) = TrueTime(k) - DHalf
         /\ Signed(TrueTime(k) + DHalf) = TrueTime(k) + DHalf
         /\ TrueTime(k) \in Nat =>
              /\ Unsigned(TrueTime(k)) = TrueTime(k)
              /\ Unsigned(TrueTime(k) + LookAhead) = TrueTime(k) + LookAhead
         /\ \A j \in 0 .. nrecords - 1 :
              Signed(TrueTime(j) - TrueTime(k)) = TrueTime(j) - TrueTime(k)
<1>1. /\ DHalf \in Nat /\ LookAhead \in Nat /\ Word \in Nat
      /\ \A j \in 0 .. nrecords - 1 :
           /\ TrueTime(j) \in Int
           /\ 4 * (TrueTime(j) + DHalf + LookAhead) < Word
           /\ 4 * (DHalf + LookAhead - TrueTime(j)) < Word
  BY Times, LifetimesAssumption
<1>2. PICK t : t = TrueTime(k)
  OBVIOUS
<1>3. t \in Int /\ 4 * (t + DHalf + LookAhead) < Word /\ 4 * (DHalf + LookAhead - t) < Word
  BY <1>1, <1>2
<1>4. Signed(t) = t /\ (t \in Nat => Unsigned(t) = t)
  <2>1. 2 * t < Word /\ -2 * t < Word
    BY <1>1, <1>3
  <2>2. QED
    BY <1>3, <2>1, Words
<1>5. Signed(t - DHalf) = t - DHalf
  <2>1. t - DHalf \in Int /\ 2 * (t - DHalf) < Word /\ -2 * (t - DHalf) < Word
    BY <1>1, <1>3
  <2>2. QED
    BY <2>1, Words
<1>6. Signed(t + DHalf) = t + DHalf
  <2>1. t + DHalf \in Int /\ 2 * (t + DHalf) < Word /\ -2 * (t + DHalf) < Word
    BY <1>1, <1>3
  <2>2. QED
    BY <2>1, Words
<1>7. ASSUME t \in Nat PROVE Unsigned(t + LookAhead) = t + LookAhead
  <2>1. t + LookAhead \in Int /\ 2 * (t + LookAhead) < Word /\ -2 * (t + LookAhead) < Word
        /\ t + LookAhead \in Nat
    BY <1>1, <1>3, <1>7
  <2>2. QED
    BY <2>1, Words
<1>8. ASSUME NEW j \in 0 .. nrecords - 1
      PROVE  Signed(TrueTime(j) - t) = TrueTime(j) - t
  <2>1. PICK u : u = TrueTime(j)
    OBVIOUS
  <2>2. u \in Int /\ 4 * (u + DHalf + LookAhead) < Word /\ 4 * (DHalf + LookAhead - u) < Word
    BY <1>1, <2>1
  <2>3. u - t \in Int /\ 2 * (u - t) < Word /\ -2 * (u - t) < Word
    BY <1>1, <1>3, <2>2
  <2>4. QED
    BY <2>1, <2>3, Words
<1>9. QED
  BY <1>2, <1>4, <1>5, <1>6, <1>7, <1>8

-----------------------------------------------------------------------------
(* The clocks *)

CursorType == [at : Nat, offset : Int]
Fields == [filePos : Nat, TCorr : Int]

Types ==
  /\ trace \in Traces
  /\ i \in 0 .. nrecords
  /\ TCorr \in Int /\ LifeTime \in Int
  /\ low \in CursorType /\ high \in CursorType /\ ahead \in CursorType
  /\ look \in [at : Nat, offset : Int, TCorr : Int]
  /\ tableSize \in Nat
  /\ tree \in Seq([TCorr : Int, LifeTime : Int, Density : Int])
  /\ Len(tree) = i
  /\ pc \in {"next", "low", "high", "life", "search", "fill", "done", "crashed"}
  /\ Busy => i < nrecords
  /\ trace = <<>> => pc = "crashed"

\* The lower end of the window never passes the record in turn.
Places ==
  /\ low.at <= i /\ high.at <= nrecords
  /\ trace # <<>> => look.at < nrecords
  /\ pc = "search" => look.at <= ahead.at /\ ahead.at < nrecords

Clocks ==
  /\ TOffset = OverheadBefore(IF Busy THEN i + 1 ELSE i)
  /\ low.offset = OverheadBefore(low.at) /\ high.offset = OverheadBefore(high.at)
  /\ pc = "search" => ahead.offset = OverheadBefore(ahead.at)
  /\ trace # <<>> => look.offset = OverheadBefore(look.at + 1)
  /\ look.TCorr = IF look.at = 0 THEN look.TCorr ELSE TrueTime(look.at)
  /\ look.at = 0 => look.TCorr = 0
  /\ Busy => TCorr = TrueTime(i)
  /\ pc = "next" /\ i > 0 => TCorr = TrueTime(i - 1)
  /\ \A k \in 1 .. Len(tree) : tree[k].TCorr = Unsigned(TrueTime(k - 1))

\* f is what the map should hold of a free of a.
Entry(f, a) ==
  /\ f \in Fields /\ f.filePos < nrecords
  /\ Frees(f.filePos, a) /\ f.TCorr = TrueTime(f.filePos)

MapAt(m) ==
  /\ m = [a \in DOMAIN m |-> m[a]]
  /\ DOMAIN m \subseteq Nat \ {0}
  /\ \A a \in DOMAIN m :
       /\ m[a] \in Seq(Fields) /\ m[a] # <<>>
       /\ \A n \in 1 .. Len(m[a]) : Entry(m[a][n], a)

ClockInv == Types /\ Places /\ Clocks /\ MapAt(freeMap)

LEMMA InitClocks == Init => ClockInv
<1> SUFFICES ASSUME Init PROVE ClockInv
  OBVIOUS
<1>1. Given
  BY GivenFromTraces DEF Init
<1>2. nrecords \in Nat /\ (trace # <<>> => nrecords > 0)
  BY <1>1 DEF Given, Proper, nrecords
<1>3. Types
  BY <1>1, <1>2, Records, LifetimesAssumption DEF Init, Types, Cursor, CursorType, Busy
<1>4. Places
  BY <1>2 DEF Init, Places, Cursor
<1>5. Clocks
  <2>1. OverheadBefore(0) = 0
    BY <1>1, Passed
  <2>2. trace # <<>> => OverheadBefore(0 + 1) = Overhead(0)
    <3>1. SUFFICES ASSUME trace # <<>> PROVE OverheadBefore(0 + 1) = Overhead(0)
      OBVIOUS
    <3>2. 0 \in 0 .. nrecords - 1
      BY <1>2, <3>1
    <3>3. Overhead(0) \in Int
      BY <1>1, <3>2, Records
    <3>4. QED
      BY <1>1, <2>1, <3>2, <3>3, Passed
  <2>3. QED
    BY <2>1, <2>2 DEF Init, Clocks, Cursor, Busy
<1>6. MapAt(freeMap)
  BY DEF Init, MapAt, NoEntry
<1>7. QED
  BY <1>3, <1>4, <1>5, <1>6 DEF ClockInv

\* What a new entry does to the map, and what using one does.
LEMMA PushKeeps ==
  ASSUME MapAt(freeMap), NEW a \in Nat \ {0}, NEW f, Entry(f, a)
  PROVE  MapAt(Pushed(a, f))
<1> DEFINE m == Pushed(a, f)
<1>1. m = [b \in DOMAIN m |-> m[b]] /\ DOMAIN m = DOMAIN freeMap \cup {a}
  BY DEF Pushed
<1>2. ASSUME NEW b \in DOMAIN m
      PROVE  /\ m[b] \in Seq(Fields) /\ m[b] # <<>>
             /\ \A n \in 1 .. Len(m[b]) : Entry(m[b][n], b)
  <2>0. f \in Fields
    BY DEF Entry
  <2>1. CASE b # a
    <3>1. m[b] = freeMap[b] /\ b \in DOMAIN freeMap
      BY <1>1, <2>1 DEF Pushed
    <3>2. QED
      BY <3>1 DEF MapAt
  <2>2. CASE b = a /\ a \in DOMAIN freeMap
    <3>1. m[b] = Append(freeMap[a], f)
      BY <1>1, <2>2 DEF Pushed
    <3>2. freeMap[a] \in Seq(Fields)
      BY <2>2 DEF MapAt
    <3>3. /\ m[b] \in Seq(Fields) /\ Len(m[b]) = Len(freeMap[a]) + 1
          /\ m[b][Len(freeMap[a]) + 1] = f
          /\ \A n \in 1 .. Len(freeMap[a]) : m[b][n] = freeMap[a][n]
      BY <2>0, <3>1, <3>2
    <3>4. \A n \in 1 .. Len(freeMap[a]) : Entry(freeMap[a][n], a)
      BY <2>2 DEF MapAt
    <3>5. Len(freeMap[a]) \in Nat
      BY <3>2
    <3>6. QED
      BY <2>2, <3>3, <3>4, <3>5
  <2>3. CASE b = a /\ a \notin DOMAIN freeMap
    <3>1. m[b] = <<f>>
      BY <1>1, <2>3 DEF Pushed
    <3>2. QED
      BY <2>0, <2>3, <3>1
  <2>4. QED
    BY <2>1, <2>2, <2>3
<1>3. DOMAIN m \subseteq Nat \ {0}
  BY <1>1 DEF MapAt
<1> HIDE DEF m
<1>4. MapAt(m)
  BY <1>1, <1>2, <1>3 DEF MapAt
<1>5. QED
  BY <1>4 DEF m

LEMMA PopKeeps ==
  ASSUME MapAt(freeMap), NEW a \in DOMAIN freeMap
  PROVE  MapAt(Popped(a))
<1> DEFINE m == Popped(a)
<1>1. /\ m = [b \in DOMAIN m |-> m[b]]
      /\ DOMAIN m = {x \in DOMAIN freeMap : x # a \/ Len(freeMap[x]) > 1}
  BY DEF Popped
<1>2. ASSUME NEW b \in DOMAIN m
      PROVE  /\ m[b] \in Seq(Fields) /\ m[b] # <<>>
             /\ \A n \in 1 .. Len(m[b]) : Entry(m[b][n], b)
  <2>1. CASE b # a
    <3>1. m[b] = freeMap[b] /\ b \in DOMAIN freeMap
      BY <1>1, <2>1 DEF Popped
    <3>2. QED
      BY <3>1 DEF MapAt
  <2>2. CASE b = a
    <3>1. m[b] = Tail(freeMap[a]) /\ Len(freeMap[a]) > 1
      BY <1>1, <2>2 DEF Popped
    <3>2. freeMap[a] \in Seq(Fields)
      BY DEF MapAt
    <3>3. /\ m[b] \in Seq(Fields) /\ Len(m[b]) = Len(freeMap[a]) - 1
          /\ \A n \in 1 .. Len(freeMap[a]) - 1 : m[b][n] = freeMap[a][n + 1]
      BY <3>1, <3>2
    <3>4. \A n \in 1 .. Len(freeMap[a]) : Entry(freeMap[a][n], a)
      BY DEF MapAt
    <3>5. Len(freeMap[a]) \in Nat
      BY <3>2
    <3>6. \A n \in 1 .. Len(m[b]) : n + 1 \in 1 .. Len(freeMap[a]) /\ n \in 1 .. Len(freeMap[a]) - 1
      BY <3>3, <3>5
    <3>7. m[b] # <<>>
      <4>1. Len(m[b]) > 0 /\ Len(<<>>) = 0
        BY <3>1, <3>3, <3>5
      <4>2. QED
        BY <4>1
    <3>8. QED
      BY <2>2, <3>3, <3>4, <3>6, <3>7
  <2>3. QED
    BY <2>1, <2>2
<1>3. DOMAIN m \subseteq Nat \ {0}
  BY <1>1 DEF MapAt
<1> HIDE DEF m
<1>4. MapAt(m)
  BY <1>1, <1>2, <1>3 DEF MapAt
<1>5. QED
  BY <1>4 DEF m

\* What a step needs to know of the state it starts from.
LEMMA AtHand ==
  ASSUME ClockInv
  PROVE  /\ Given
         /\ nrecords \in Nat /\ nrecords < Word
         /\ \A k \in 0 .. nrecords : OverheadBefore(k) \in Int
         /\ \A k \in 0 .. nrecords - 1 :
              /\ Rec(k).addr \in Nat /\ Rec(k).t0 \in Nat /\ Rec(k).t2 \in Nat
              /\ Overhead(k) \in Int /\ TrueTime(k) \in Int
              /\ OverheadBefore(k + 1) = OverheadBefore(k) + Overhead(k)
<1>1. Given
  BY GivenFromTraces DEF ClockInv, Types
<1>2. QED
  BY <1>1, Records, Passed, Times

\* A cursor that has counted right shows the time of its record.
LEMMA ClockRight ==
  ASSUME NEW c \in CursorType, c.offset = OverheadBefore(c.at)
  PROVE  Corrected(c) = TrueTime(c.at)
BY DEF Corrected, TrueTime

\* As long as the trace stays, so does what is defined by it.
LEMMA TraceStays ==
  ASSUME trace' = trace
  PROVE  /\ nrecords' = nrecords
         /\ \A k : OverheadBefore(k)' = OverheadBefore(k)
         /\ \A k : TrueTime(k)' = TrueTime(k)
         /\ \A f, a : Entry(f, a)' <=> Entry(f, a)
BY DEF nrecords, OverheadBefore, TrueTime, Rec, Entry, Frees, IsFree

LEMMA NextRecordClocks ==
  ASSUME ClockInv, NextRecord
  PROVE  ClockInv'
<1>1. nrecords' = nrecords /\ trace' = trace
      /\ (\A k : OverheadBefore(k)' = OverheadBefore(k))
      /\ (\A k : TrueTime(k)' = TrueTime(k))
      /\ \A f, a : Entry(f, a)' <=> Entry(f, a)
  BY TraceStays DEF NextRecord
<1>2. i \in 0 .. nrecords - 1 /\ nrecords \in Nat
  BY AtHand DEF NextRecord, ClockInv, Types
<1>3. TCorr' = TrueTime(i) /\ TCorr' \in Int
  <2>1. TOffset = OverheadBefore(i)
    BY DEF ClockInv, Clocks, NextRecord, Busy
  <2>2. OverheadBefore(i) \in Int /\ TrueTime(i) \in Int
    BY <1>2, AtHand
  <2>3. Cursor(i, TOffset) \in CursorType /\ Cursor(i, TOffset).at = i
        /\ Cursor(i, TOffset).offset = TOffset
    BY <1>2, <2>1, <2>2 DEF Cursor, CursorType
  <2>4. QED
    BY <2>1, <2>2, <2>3, ClockRight DEF NextRecord
<1>4. Types'
  BY <1>1, <1>2, <1>3 DEF ClockInv, Types, NextRecord, Busy
<1>5. Places'
  BY <1>1 DEF ClockInv, Places, NextRecord
<1>6. Clocks'
  <2>1. TOffset' = OverheadBefore(i + 1)
    BY <1>2, AtHand DEF NextRecord, ClockInv, Clocks, Busy
  <2>2. QED
    BY <1>1, <1>3, <2>1 DEF ClockInv, Clocks, NextRecord, Busy
<1>7. MapAt(freeMap)'
  BY <1>1 DEF ClockInv, MapAt, NextRecord
<1>8. QED
  BY <1>4, <1>5, <1>6, <1>7 DEF ClockInv

\* A cursor that passes the record it stands at has counted right again.
LEMMA AdvancedRight ==
  ASSUME ClockInv, NEW c \in CursorType, c.at < nrecords,
         c.offset = OverheadBefore(c.at)
  PROVE  /\ Advanced(c) \in CursorType /\ Advanced(c).at = c.at + 1
         /\ Advanced(c).offset = OverheadBefore(c.at + 1)
<1>1. c.at \in 0 .. nrecords - 1
  BY AtHand DEF CursorType
<1>2. QED
  BY <1>1, AtHand DEF Advanced, Cursor, CursorType

\* What a step that leaves the clocks alone has to keep.
LEMMA QuietClocks ==
  ASSUME ClockInv,
         UNCHANGED <<trace, i, TOffset, TCorr, low, high, look, freeMap, tableSize, tree>>,
         LifeTime' \in Int, ahead' = ahead,
         pc' = pc \/ pc' \in {"next", "low", "high", "life", "fill", "done", "crashed"},
         Busy <=> Busy', pc' = "next" => pc = "next",
         trace = <<>> => pc' = "crashed"
  PROVE  ClockInv'
<1>1. nrecords' = nrecords /\ trace' = trace
      /\ (\A k : OverheadBefore(k)' = OverheadBefore(k))
      /\ (\A k : TrueTime(k)' = TrueTime(k))
      /\ \A f, a : Entry(f, a)' <=> Entry(f, a)
  BY TraceStays
<1>2. Types'
  BY <1>1 DEF ClockInv, Types
<1>3. Places'
  BY <1>1 DEF ClockInv, Places
<1>4. Clocks'
  BY <1>1 DEF ClockInv, Clocks
<1>5. MapAt(freeMap)'
  BY <1>1 DEF ClockInv, MapAt
<1>6. QED
  BY <1>2, <1>3, <1>4, <1>5 DEF ClockInv

LEMMA QuietStepsClocks ==
  ASSUME ClockInv,
         LowEnds \/ HighEnds \/ NoLifetime \/ SearchEnds \/ Finish \/ Stopped
  PROVE  ClockInv'
<1>1. /\ LifeTime \in Int /\ (trace = <<>> => pc = "crashed")
  BY DEF ClockInv, Types
<1>2. CASE LowEnds
  BY <1>1, <1>2, QuietClocks DEF LowEnds, Window, Busy
<1>3. CASE HighEnds
  BY <1>1, <1>3, QuietClocks DEF HighEnds, Window, Busy
<1>4. CASE NoLifetime
  BY <1>1, <1>4, QuietClocks DEF NoLifetime, Search, Busy
<1>5. CASE SearchEnds
  BY <1>1, <1>5, QuietClocks DEF SearchEnds, Search, Busy
<1>6. CASE Finish
  BY <1>1, <1>6, QuietClocks DEF Finish, Search, Busy
<1>7. CASE Stopped
  BY <1>1, <1>7, QuietClocks DEF Stopped, vars, Busy
<1>8. QED
  BY <1>2, <1>3, <1>4, <1>5, <1>6, <1>7

\* What the loops of the window compare, by the times of the records.
LEMMA LowEdge ==
  ASSUME ClockInv, pc = "low"
  PROVE  BelowWindow <=> TrueTime(low.at) < TCorr - DHalf
<1>1. /\ low \in CursorType /\ low.offset = OverheadBefore(low.at) /\ TCorr = TrueTime(i)
      /\ low.at \in 0 .. nrecords - 1 /\ i \in 0 .. nrecords - 1 /\ Given
  <2>1. Given /\ nrecords \in Nat
    BY AtHand
  <2>2. low \in CursorType /\ i \in 0 .. nrecords /\ i < nrecords
    BY DEF ClockInv, Types, Busy
  <2>3. low.at <= i
    BY DEF ClockInv, Places
  <2>4. low.offset = OverheadBefore(low.at) /\ TCorr = TrueTime(i)
    BY DEF ClockInv, Clocks, Busy
  <2>5. low.at \in Nat
    BY <2>2 DEF CursorType
  <2>6. QED
    BY <2>1, <2>2, <2>3, <2>4, <2>5
<1>2. Corrected(low) = TrueTime(low.at)
  BY <1>1, ClockRight
<1>3. Signed(TrueTime(low.at)) = TrueTime(low.at)
      /\ Signed(TrueTime(i) - DHalf) = TrueTime(i) - DHalf
  BY <1>1, Compared
<1>4. QED
  BY <1>1, <1>2, <1>3 DEF BelowWindow

LEMMA HighEdge ==
  ASSUME ClockInv, pc = "high"
  PROVE  InWindow <=> high.at < nrecords /\ TrueTime(high.at) < TCorr + DHalf
<1>1. /\ high \in CursorType /\ high.offset = OverheadBefore(high.at) /\ TCorr = TrueTime(i)
      /\ i \in 0 .. nrecords - 1 /\ Given /\ nrecords \in Nat
  <2>1. Given /\ nrecords \in Nat
    BY AtHand
  <2>2. high \in CursorType /\ i \in 0 .. nrecords /\ i < nrecords
    BY DEF ClockInv, Types, Busy
  <2>3. high.offset = OverheadBefore(high.at) /\ TCorr = TrueTime(i)
    BY DEF ClockInv, Clocks, Busy
  <2>4. QED
    BY <2>1, <2>2, <2>3
<1>2. Corrected(high) = TrueTime(high.at) /\ high.at \in Nat
  BY <1>1, ClockRight DEF CursorType
<1>3. Signed(TrueTime(i) + DHalf) = TrueTime(i) + DHalf
  BY <1>1, Compared
<1>4. high.at < nrecords => Signed(TrueTime(high.at)) = TrueTime(high.at)
  <2>1. high.at < nrecords => high.at \in 0 .. nrecords - 1
    BY <1>1, <1>2
  <2>2. QED
    BY <1>1, <2>1, Compared
<1>5. QED
  BY <1>1, <1>2, <1>3, <1>4 DEF InWindow

LEMMA LowTurnClocks ==
  ASSUME ClockInv, LowTurn
  PROVE  ClockInv'
<1>1. nrecords' = nrecords /\ trace' = trace
      /\ (\A k : OverheadBefore(k)' = OverheadBefore(k))
      /\ (\A k : TrueTime(k)' = TrueTime(k))
      /\ \A f, a : Entry(f, a)' <=> Entry(f, a)
  BY TraceStays DEF LowTurn, Window
<1>2. /\ i \in 0 .. nrecords - 1 /\ nrecords \in Nat /\ low \in CursorType
      /\ low.offset = OverheadBefore(low.at) /\ low.at <= i /\ TCorr = TrueTime(i)
  BY AtHand DEF LowTurn, ClockInv, Types, Clocks, Places, Busy
<1>3. low.at < i
  <2>1. TrueTime(low.at) < TCorr - DHalf
    BY LowEdge DEF LowTurn
  <2>2. TrueTime(i) \in Int
    BY <1>2, AtHand
  <2>3. QED
    BY <1>2, <2>1, <2>2, LifetimesAssumption DEF CursorType
<1>4. low.at < nrecords /\ low.at \in Nat
  BY <1>2, <1>3 DEF CursorType
<1>5. low' \in CursorType /\ low'.at = low.at + 1 /\ low'.offset = OverheadBefore(low.at + 1)
  BY <1>2, <1>4, AdvancedRight DEF LowTurn
<1>6. Types'
  BY <1>1, <1>5 DEF ClockInv, Types, LowTurn, Window, Busy
<1>7. Places'
  BY <1>1, <1>2, <1>3, <1>4, <1>5 DEF ClockInv, Places, LowTurn, Window
<1>8. Clocks'
  BY <1>1, <1>5 DEF ClockInv, Clocks, LowTurn, Window, Busy
<1>9. MapAt(freeMap)'
  BY <1>1 DEF ClockInv, MapAt, LowTurn, Window
<1>10. QED
  BY <1>6, <1>7, <1>8, <1>9 DEF ClockInv

LEMMA HighTurnClocks ==
  ASSUME ClockInv, HighTurn
  PROVE  ClockInv'
<1>1. nrecords' = nrecords /\ trace' = trace
      /\ (\A k : OverheadBefore(k)' = OverheadBefore(k))
      /\ (\A k : TrueTime(k)' = TrueTime(k))
      /\ \A f, a : Entry(f, a)' <=> Entry(f, a)
  BY TraceStays DEF HighTurn, Window
<1>2. /\ nrecords \in Nat /\ high \in CursorType
      /\ high.offset = OverheadBefore(high.at) /\ high.at < nrecords /\ high.at \in Nat
  BY AtHand DEF HighTurn, ClockInv, Types, Clocks, InWindow, CursorType
<1>5. high' \in CursorType /\ high'.at = high.at + 1
      /\ high'.offset = OverheadBefore(high.at + 1)
  BY <1>2, AdvancedRight DEF HighTurn
<1>6. Types'
  BY <1>1, <1>5 DEF ClockInv, Types, HighTurn, Window, Busy
<1>7. Places'
  BY <1>1, <1>2, <1>5 DEF ClockInv, Places, HighTurn, Window
<1>8. Clocks'
  BY <1>1, <1>5 DEF ClockInv, Clocks, HighTurn, Window, Busy
<1>9. MapAt(freeMap)'
  BY <1>1 DEF ClockInv, MapAt, HighTurn, Window
<1>10. QED
  BY <1>6, <1>7, <1>8, <1>9 DEF ClockInv

LEMMA FillClocks ==
  ASSUME ClockInv, Fill
  PROVE  ClockInv'
<1>1. nrecords' = nrecords /\ trace' = trace
      /\ (\A k : OverheadBefore(k)' = OverheadBefore(k))
      /\ (\A k : TrueTime(k)' = TrueTime(k))
      /\ \A f, a : Entry(f, a)' <=> Entry(f, a)
  BY TraceStays DEF Fill
<1>2. /\ i \in 0 .. nrecords - 1 /\ nrecords \in Nat /\ nrecords < Word
      /\ TCorr = TrueTime(i) /\ TCorr \in Int /\ LifeTime \in Int
      /\ low.at \in Nat /\ high.at \in Nat
  BY AtHand DEF Fill, ClockInv, Types, Clocks, Busy, CursorType
<1> DEFINE row == [TCorr |-> Unsigned(TCorr), LifeTime |-> LifeTime,
                   Density |-> Unsigned(high.at - low.at - 1)]
<1>3. row \in [TCorr : Int, LifeTime : Int, Density : Int] /\ row.TCorr = Unsigned(TCorr)
  <2>1. Unsigned(high.at - low.at - 1) \in Int /\ Unsigned(TCorr) \in Int
    BY <1>2, LifetimesAssumption DEF Unsigned
  <2>2. QED
    BY <1>2, <2>1
<1>4. /\ tree \in Seq([TCorr : Int, LifeTime : Int, Density : Int]) /\ Len(tree) = i
      /\ tree' = Append(tree, row) /\ i' = i + 1 /\ pc' \in {"crashed", "next"} /\ trace # <<>>
  BY DEF ClockInv, Types, Fill
<1> HIDE DEF row
<1>5. /\ tree' \in Seq([TCorr : Int, LifeTime : Int, Density : Int]) /\ Len(tree') = i + 1
      /\ tree'[i + 1] = row /\ \A k \in 1 .. i : tree'[k] = tree[k]
  BY <1>2, <1>3, <1>4
<1>6. Types'
  BY <1>1, <1>2, <1>4, <1>5 DEF ClockInv, Types, Fill, Busy
<1>7. Places'
  BY <1>1, <1>2, <1>4 DEF ClockInv, Types, Places, Fill, CursorType
<1>8. Clocks'
  <2>1. \A k \in 1 .. Len(tree') : tree'[k].TCorr = Unsigned(TrueTime(k - 1))
    <3>1. \A k \in 1 .. Len(tree') : k \in 1 .. i \/ k = i + 1
      BY <1>2, <1>5
    <3>2. \A k \in 1 .. i : tree[k].TCorr = Unsigned(TrueTime(k - 1))
      BY <1>4 DEF ClockInv, Clocks
    <3>3. tree'[i + 1].TCorr = Unsigned(TrueTime((i + 1) - 1))
      BY <1>2, <1>3, <1>5
    <3>4. QED
      BY <1>5, <3>1, <3>2, <3>3
  <2>2. (i + 1) - 1 = i /\ i + 1 > 0
    BY <1>2
  <2>3. TOffset' = OverheadBefore(i + 1)
    BY DEF ClockInv, Clocks, Fill, Busy
  <2>4. QED
    BY <1>1, <1>2, <1>4, <2>1, <2>2, <2>3 DEF ClockInv, Clocks, Fill, Busy
<1>9. MapAt(freeMap)'
  BY <1>1 DEF ClockInv, MapAt, Fill
<1>10. QED
  BY <1>6, <1>7, <1>8, <1>9 DEF ClockInv

\* What a search does at a record is right by its cursor.
LEMMA MetRight ==
  ASSUME ClockInv, NEW c \in CursorType, c.at < nrecords,
         c.offset = OverheadBefore(c.at)
  PROVE  /\ LastFree(c) \in [at : Nat, offset : Int, TCorr : Int]
         /\ LastFree(c).at = c.at /\ LastFree(c).TCorr = TrueTime(c.at)
         /\ LastFree(c).offset = OverheadBefore(c.at + 1)
         /\ Corrected(c) = TrueTime(c.at)
         /\ IsFree(c.at) => Entry(FreeRecord(c), Rec(c.at).addr)
<1>1. c.at \in 0 .. nrecords - 1 /\ c.at \in Nat /\ c.offset \in Int
  BY AtHand DEF CursorType
<1>2. Corrected(c) = TrueTime(c.at) /\ TrueTime(c.at) \in Int
  BY <1>1, ClockRight, AtHand
<1>3. c.offset + Overhead(c.at) = OverheadBefore(c.at + 1) /\ OverheadBefore(c.at + 1) \in Int
  BY <1>1, AtHand
<1>4. QED
  BY <1>1, <1>2, <1>3 DEF LastFree, FreeRecord, Entry, Frees, Fields

LEMMA SignedInt ==
  ASSUME NEW x \in Int
  PROVE  Signed(x) \in Int
BY LifetimesAssumption DEF Signed

LEMMA FromMapClocks ==
  ASSUME ClockInv, FromMap
  PROVE  ClockInv'
<1>1. nrecords' = nrecords /\ trace' = trace
      /\ (\A k : OverheadBefore(k)' = OverheadBefore(k))
      /\ (\A k : TrueTime(k)' = TrueTime(k))
      /\ \A f, a : Entry(f, a)' <=> Entry(f, a)
  BY TraceStays DEF FromMap, Search
<1> DEFINE a == Rec(i).addr
<1>2. a \in DOMAIN freeMap
  BY DEF FromMap, Missing
<1>3. MapAt(Popped(a))
  BY <1>2, PopKeeps DEF ClockInv
<1>4. LifeTime' \in Int
  <2>1. freeMap[a] \in Seq(Fields) /\ freeMap[a] # <<>>
    BY <1>2 DEF ClockInv, MapAt
  <2>2. Head(freeMap[a]) \in Fields
    BY <2>1
  <2>3. Head(freeMap[a]).TCorr \in Int /\ TCorr \in Int
    BY <2>2 DEF Fields, ClockInv, Types
  <2>4. QED
    BY <2>3, SignedInt DEF FromMap
<1>5. tableSize' \in Nat
  BY LifetimesAssumption DEF FromMap, ClockInv, Types
<1>6. Types'
  BY <1>1, <1>4, <1>5 DEF ClockInv, Types, FromMap, Search, Busy
<1>7. Places'
  BY <1>1 DEF ClockInv, Places, FromMap, Search
<1>8. Clocks'
  BY <1>1 DEF ClockInv, Clocks, FromMap, Search, Busy
<1>9. MapAt(freeMap)'
  BY <1>1, <1>3 DEF MapAt, FromMap
<1>10. QED
  BY <1>6, <1>7, <1>8, <1>9 DEF ClockInv

\* The cursor a search starts from, and the next one of a search.
LEMMA StartsRight ==
  ASSUME ClockInv, BeginSearch
  PROVE  LET c == Cursor(look.at + 1, look.offset) IN
         /\ c \in CursorType /\ c.at = look.at + 1 /\ c.at < nrecords
         /\ c.offset = OverheadBefore(c.at)
<1>1. look.at + 1 < nrecords /\ look.at \in Nat /\ nrecords \in Nat /\ look.offset \in Int
  BY AtHand DEF BeginSearch, Beyond, ClockInv, Types
<1>2. trace # <<>>
  BY DEF BeginSearch, ClockInv, Types
<1>3. QED
  BY <1>1, <1>2 DEF ClockInv, Clocks, Cursor, CursorType

LEMMA GoesOnRight ==
  ASSUME ClockInv, SearchTurn
  PROVE  LET c == Advanced(ahead) IN
         /\ c \in CursorType /\ c.at = ahead.at + 1 /\ c.at < nrecords
         /\ c.offset = OverheadBefore(c.at)
<1>1. ahead \in CursorType /\ ahead.at < nrecords /\ ahead.offset = OverheadBefore(ahead.at)
      /\ nrecords \in Nat /\ ahead.at \in Nat /\ ahead.at < nrecords - 1
  BY AtHand DEF SearchTurn, ClockInv, Types, Clocks, Further, CursorType, Places
<1>2. QED
  BY <1>1, AdvancedRight

\* A step of a search that goes on leaves the clocks right.
LEMMA SearchClocks ==
  ASSUME ClockInv, NEW c \in CursorType, c.at < nrecords, look.at < c.at,
         c.offset = OverheadBefore(c.at), trace # <<>>, i < nrecords, Busy,
         UNCHANGED Search, ahead' = c, LifeTime' \in Int, tableSize' \in Nat,
         pc' \in {"search", "fill"},
         look' = look \/ look' = LastFree(c), MapAt(freeMap')
  PROVE  ClockInv'
<1>1. nrecords' = nrecords /\ trace' = trace
      /\ (\A k : OverheadBefore(k)' = OverheadBefore(k))
      /\ (\A k : TrueTime(k)' = TrueTime(k))
      /\ \A f, a : Entry(f, a)' <=> Entry(f, a)
  BY TraceStays DEF Search
<1>2. Busy'
  BY DEF Busy
<1>3. Types'
  BY <1>1, <1>2, MetRight DEF ClockInv, Types, Search
<1>4. c.at \in Nat /\ c.at # 0
  BY DEF ClockInv, Types, CursorType
<1>5. /\ look'.TCorr = IF look'.at = 0 THEN look'.TCorr ELSE TrueTime(look'.at)
      /\ look'.at = 0 => look'.TCorr = 0
      /\ look'.offset = OverheadBefore(look'.at + 1)
      /\ look'.at <= c.at /\ look'.at < nrecords
  <2>1. CASE look' = look
    <3>1. look.at \in Nat
      BY DEF ClockInv, Types
    <3>2. QED
      BY <1>4, <2>1, <3>1 DEF ClockInv, Clocks, Places
  <2>2. CASE look' = LastFree(c)
    BY <1>4, <2>2, MetRight
  <2>3. QED
    BY <2>1, <2>2
<1>6. Clocks'
  <2>1. TOffset' = OverheadBefore(i + 1) /\ TCorr' = TrueTime(i)
    BY DEF ClockInv, Clocks, Search
  <2>2. QED
    BY <1>1, <1>2, <1>5, <2>1 DEF ClockInv, Clocks, Search, Busy
<1>7. Places'
  BY <1>1, <1>5 DEF ClockInv, Places, Search
<1>8. MapAt(freeMap)'
  BY <1>1 DEF MapAt
<1>9. QED
  BY <1>3, <1>6, <1>7, <1>8 DEF ClockInv

LEMMA SearchStepsClocks ==
  ASSUME ClockInv, BeginSearch \/ SearchTurn
  PROVE  ClockInv'
<1> DEFINE c == IF pc = "life" THEN Cursor(look.at + 1, look.offset) ELSE Advanced(ahead)
           b == Rec(c.at).addr
<1>1. /\ c \in CursorType /\ c.at < nrecords /\ c.offset = OverheadBefore(c.at)
      /\ look.at < c.at /\ trace # <<>> /\ i < nrecords /\ Busy /\ UNCHANGED Search
      /\ ahead' = c /\ pc' \in {"search", "fill"}
  <2>1. CASE BeginSearch
    BY <2>1, StartsRight DEF BeginSearch, Found, ClockInv, Types, Busy
  <2>2. CASE SearchTurn
    BY <2>2, GoesOnRight DEF SearchTurn, Found, ClockInv, Types, Places, Busy, CursorType
  <2>3. QED
    BY <2>1, <2>2
<1>2. /\ c.at \in 0 .. nrecords - 1 /\ b \in Nat /\ LifeTime \in Int /\ TCorr \in Int
      /\ tableSize \in Nat /\ MapAt(freeMap) /\ Corrected(c) \in Int
  <2> HIDE DEF c
  <2>1. c.at \in Nat /\ nrecords \in Nat
    BY <1>1, AtHand DEF CursorType
  <2>2. c.at \in 0 .. nrecords - 1
    BY <1>1, <2>1
  <2>3. b \in Nat /\ TrueTime(c.at) \in Int
    BY <2>2, AtHand
  <2>4. Corrected(c) = TrueTime(c.at)
    BY <1>1, MetRight
  <2>5. LifeTime \in Int /\ TCorr \in Int /\ tableSize \in Nat /\ MapAt(freeMap)
    BY DEF ClockInv, Types
  <2>6. QED
    BY <2>2, <2>3, <2>4, <2>5
<1>3. LifeTime' \in Int /\ tableSize' \in Nat /\ (look' = look \/ look' = LastFree(c))
  <2>1. Corrected(c) - TCorr \in Int
    BY <1>2
  <2>2. Signed(Corrected(c) - TCorr) \in Int
    BY <2>1, SignedInt
  <2>3. LifeTime' = LifeTime \/ LifeTime' = Signed(Corrected(c) - TCorr)
    BY DEF BeginSearch, SearchTurn, Found
  <2>4. tableSize' \in Nat
    BY <1>2, LifetimesAssumption DEF BeginSearch, SearchTurn, Found
  <2>5. look' = look \/ look' = LastFree(c)
    BY DEF BeginSearch, SearchTurn, Found
  <2>6. QED
    BY <1>2, <2>2, <2>3, <2>4, <2>5
<1>4. \/ freeMap' = freeMap
      \/ freeMap' = Pushed(b, FreeRecord(c)) /\ IsFree(c.at) /\ b # 0
  BY DEF BeginSearch, SearchTurn, Found
<1>5. MapAt(freeMap')
  BY <1>1, <1>2, <1>4, MetRight, PushKeeps
<1> HIDE DEF c, b
<1>6. QED
  BY <1>1, <1>3, <1>5, SearchClocks

LEMMA StepClocks == ClockInv /\ [Next]_vars => ClockInv'
<1> SUFFICES ASSUME ClockInv, [Next]_vars PROVE ClockInv'
  OBVIOUS
<1>1. CASE UNCHANGED vars
  BY <1>1, QuietClocks DEF vars, ClockInv, Types, Busy
<1>2. CASE Next
  BY <1>2, NextRecordClocks, LowTurnClocks, HighTurnClocks, QuietStepsClocks, FromMapClocks,
     SearchStepsClocks, FillClocks DEF Next
<1>3. QED
  BY <1>1, <1>2

\* Every cursor has counted exactly the overhead of the records it has passed,
\* in whatever order the loops go on and stop, and every free in the map is
\* one of its address with its own time: of any trace, also if calls overlap.
THEOREM CursorsAgree == Spec => []ClocksAgree
<1>1. ClockInv => ClocksAgree
  BY DEF ClockInv, Clocks, ClocksAgree, MapAt, Entry
<1>2. QED
  BY InitClocks, StepClocks, <1>1, PTL DEF Spec

-----------------------------------------------------------------------------
(* The density window *)

\* The records a cursor has passed are in front of the end it marks, and the
\* one it stands at, when its loop is over, is not.
Edges ==
  /\ \A n \in 0 .. low.at - 1 : TrueTime(n) < TCorr - DHalf
  /\ \A n \in 0 .. high.at - 1 : TrueTime(n) < TCorr + DHalf
  /\ pc \in {"high", "life", "search", "fill"} => TrueTime(low.at) >= TCorr - DHalf
  /\ pc \in {"life", "search", "fill"} =>
       high.at = nrecords \/ TrueTime(high.at) >= TCorr + DHalf
  /\ pc = "next" /\ i = 0 => high.at = 0

InDensity(t) ==
  {n \in 0 .. nrecords - 1 : TrueTime(n) >= t - DHalf /\ TrueTime(n) < t + DHalf}

Counted(k) == tree[k].Density + 1 = Cardinality(InDensity(TrueTime(k - 1)))

WindowInv ==
  /\ ClockInv
  /\ OneThread => Edges
  /\ OneThread /\ DHalf > 0 => \A k \in 1 .. Len(tree) : Counted(k)

\* Its times are then in order.
LEMMA InOrder ==
  ASSUME ClockInv, OneThread
  PROVE  \A k \in 0 .. nrecords - 1 : TrueTime(k) \in Nat
         /\ \A j \in 0 .. k : TrueTime(j) <= TrueTime(k)
BY AtHand, OrderedTimes

LEMMA OrderStays ==
  ASSUME trace' = trace
  PROVE  OneThread' <=> OneThread
BY DEF OneThread, nrecords, Rec

LEMMA InitWindow == Init => WindowInv
<1>1. Init => ClockInv
  BY InitClocks
<1>2. Init => Edges
  BY DEF Init, Edges, Cursor
<1>3. Init => Len(tree) = 0
  BY DEF Init
<1>4. QED
  BY <1>1, <1>2, <1>3 DEF WindowInv

\* A step that leaves the rows alone leaves them counted.
LEMMA RowsStay ==
  ASSUME WindowInv, trace' = trace, tree' = tree
  PROVE  (OneThread /\ DHalf > 0 => \A k \in 1 .. Len(tree) : Counted(k))'
<1>1. nrecords' = nrecords /\ \A k : TrueTime(k)' = TrueTime(k)
  BY TraceStays
<1>2. \A k : Counted(k)' <=> Counted(k)
  BY <1>1 DEF Counted, InDensity
<1>3. QED
  BY <1>2, OrderStays DEF WindowInv

LEMMA NextRecordWindow ==
  ASSUME WindowInv, OneThread, NextRecord
  PROVE  Edges'
<1>1. nrecords' = nrecords /\ (\A k : TrueTime(k)' = TrueTime(k)) /\ low' = low /\ high' = high
  BY TraceStays DEF NextRecord
<1>2. i \in 0 .. nrecords - 1 /\ nrecords \in Nat /\ ClockInv
  BY AtHand DEF NextRecord, ClockInv, Types, WindowInv
<1>3. TCorr' = TrueTime(i)
  BY <1>1, <1>2, NextRecordClocks DEF ClockInv, Clocks, Busy, NextRecord
<1>4. pc' = "low" /\ pc = "next" /\ low.at \in Nat /\ high.at \in Nat /\ low.at <= i
      /\ high.at <= nrecords
  BY <1>2 DEF NextRecord, ClockInv, Types, Places, CursorType
<1>5. CASE i = 0
  <2>1. low.at = 0 /\ high.at = 0
    BY <1>4, <1>5 DEF WindowInv, Edges
  <2>2. QED
    BY <1>1, <1>4, <2>1 DEF Edges
<1>6. CASE i # 0
  <2>1. i - 1 \in 0 .. i /\ i - 1 \in 0 .. nrecords - 1
    BY <1>2, <1>6
  <2>2. TCorr = TrueTime(i - 1)
    BY <1>2, <1>4, <1>6 DEF ClockInv, Clocks
  <2>3. TCorr <= TCorr' /\ TCorr \in Int /\ TCorr' \in Int
    BY <1>2, <1>3, <2>1, <2>2, InOrder
  <2>4. /\ \A n \in 0 .. low.at - 1 : TrueTime(n) \in Nat /\ TrueTime(n) < TCorr - DHalf
        /\ \A n \in 0 .. high.at - 1 : TrueTime(n) \in Nat /\ TrueTime(n) < TCorr + DHalf
    <3>1. \A n \in 0 .. low.at - 1 : n \in 0 .. nrecords - 1
      BY <1>2, <1>4
    <3>2. \A n \in 0 .. high.at - 1 : n \in 0 .. nrecords - 1
      BY <1>2, <1>4
    <3>3. QED
      BY <1>2, <3>1, <3>2, InOrder DEF WindowInv, Edges
  <2>5. QED
    BY <1>1, <1>4, <2>3, <2>4, LifetimesAssumption DEF Edges
<1>7. QED
  BY <1>5, <1>6

LEMMA LowTurnWindow ==
  ASSUME WindowInv, OneThread, LowTurn
  PROVE  Edges'
<1>1. nrecords' = nrecords /\ (\A k : TrueTime(k)' = TrueTime(k))
      /\ high' = high /\ TCorr' = TCorr /\ i' = i /\ pc' = "low" /\ pc = "low"
  BY TraceStays DEF LowTurn, Window
<1>2. low \in CursorType /\ low.at \in Nat /\ low' = Advanced(low)
      /\ low.offset = OverheadBefore(low.at)
  BY DEF LowTurn, WindowInv, ClockInv, Types, Clocks, CursorType
<1>3. low'.at = low.at + 1
  BY <1>2 DEF Advanced, Cursor
<1>4. TrueTime(low.at) < TCorr - DHalf
  BY <1>1, LowEdge DEF LowTurn, WindowInv
<1>5. \A n \in 0 .. low'.at - 1 : n = low.at \/ n \in 0 .. low.at - 1
  BY <1>2, <1>3
<1>6. QED
  BY <1>1, <1>4, <1>5 DEF WindowInv, Edges

LEMMA LowEndsWindow ==
  ASSUME WindowInv, OneThread, LowEnds
  PROVE  Edges'
<1>1. nrecords' = nrecords /\ (\A k : TrueTime(k)' = TrueTime(k)) /\ low' = low
      /\ high' = high /\ TCorr' = TCorr /\ i' = i /\ pc' = "high" /\ pc = "low"
  BY TraceStays DEF LowEnds, Window
<1>2. TrueTime(low.at) >= TCorr - DHalf
  <2>1. ~(TrueTime(low.at) < TCorr - DHalf)
    BY <1>1, LowEdge DEF LowEnds, WindowInv
  <2>2. low.at \in 0 .. nrecords - 1 /\ TCorr \in Int /\ ClockInv
    BY <1>1, AtHand DEF WindowInv, ClockInv, Types, Places, Busy, CursorType
  <2>3. TrueTime(low.at) \in Int
    BY <2>2, AtHand
  <2>4. QED
    BY <2>1, <2>2, <2>3, LifetimesAssumption
<1>3. QED
  BY <1>1, <1>2 DEF WindowInv, Edges

LEMMA HighTurnWindow ==
  ASSUME WindowInv, OneThread, HighTurn
  PROVE  Edges'
<1>1. nrecords' = nrecords /\ (\A k : TrueTime(k)' = TrueTime(k)) /\ low' = low
      /\ TCorr' = TCorr /\ i' = i /\ pc' = "high" /\ pc = "high"
  BY TraceStays DEF HighTurn, Window
<1>2. high \in CursorType /\ high.at \in Nat /\ high' = Advanced(high)
      /\ high.offset = OverheadBefore(high.at)
  BY DEF HighTurn, WindowInv, ClockInv, Types, Clocks, CursorType
<1>3. high'.at = high.at + 1
  BY <1>2 DEF Advanced, Cursor
<1>4. TrueTime(high.at) < TCorr + DHalf
  BY <1>1, HighEdge DEF HighTurn, WindowInv
<1>5. \A n \in 0 .. high'.at - 1 : n = high.at \/ n \in 0 .. high.at - 1
  BY <1>2, <1>3
<1>6. QED
  BY <1>1, <1>4, <1>5 DEF WindowInv, Edges

LEMMA HighEndsWindow ==
  ASSUME WindowInv, OneThread, HighEnds
  PROVE  Edges'
<1>1. nrecords' = nrecords /\ (\A k : TrueTime(k)' = TrueTime(k)) /\ low' = low
      /\ high' = high /\ TCorr' = TCorr /\ i' = i /\ pc' = "life" /\ pc = "high"
  BY TraceStays DEF HighEnds, Window
<1>2. high.at = nrecords \/ TrueTime(high.at) >= TCorr + DHalf
  <2>1. SUFFICES ASSUME high.at # nrecords PROVE TrueTime(high.at) >= TCorr + DHalf
    OBVIOUS
  <2>2. high.at \in 0 .. nrecords - 1 /\ nrecords \in Nat /\ TCorr \in Int /\ ClockInv
    BY <2>1, AtHand DEF WindowInv, ClockInv, Types, Places, CursorType
  <2>3. ~(TrueTime(high.at) < TCorr + DHalf)
    <3>1. high.at < nrecords
      BY <2>2
    <3>2. QED
      BY <1>1, <2>2, <3>1, HighEdge DEF HighEnds
  <2>4. TrueTime(high.at) \in Int
    BY <2>2, AtHand
  <2>5. QED
    BY <2>2, <2>3, <2>4, LifetimesAssumption
<1>3. QED
  BY <1>1, <1>2 DEF WindowInv, Edges

LEMMA LookWindow ==
  ASSUME WindowInv, NoLifetime \/ FromMap \/ BeginSearch \/ SearchTurn \/ SearchEnds
  PROVE  (OneThread => Edges') /\ trace' = trace /\ tree' = tree
<1>1. nrecords' = nrecords /\ (\A k : TrueTime(k)' = TrueTime(k)) /\ low' = low
      /\ high' = high /\ TCorr' = TCorr /\ i' = i /\ trace' = trace /\ tree' = tree
  BY TraceStays DEF NoLifetime, FromMap, BeginSearch, SearchTurn, SearchEnds, Search
<1>2. pc \in {"life", "search"} /\ pc' \in {"search", "fill"}
  BY DEF NoLifetime, FromMap, BeginSearch, SearchTurn, SearchEnds, Found
<1>3. QED
  BY <1>1, <1>2 DEF WindowInv, Edges

\* At the end of a turn the window is what lies between the two cursors, the
\* record in turn included.
LEMMA WindowIsBetween ==
  ASSUME WindowInv, OneThread, DHalf > 0, pc = "fill"
  PROVE  /\ InDensity(TrueTime(i)) = low.at .. high.at - 1
         /\ low.at \in Nat /\ high.at \in Nat /\ low.at < high.at /\ high.at <= nrecords
<1>1. /\ ClockInv /\ nrecords \in Nat /\ i \in 0 .. nrecords - 1 /\ TCorr = TrueTime(i)
      /\ low.at \in Nat /\ high.at \in Nat /\ low.at <= i /\ high.at <= nrecords
      /\ DHalf \in Nat
  BY AtHand, LifetimesAssumption
  DEF WindowInv, ClockInv, Types, Places, Clocks, CursorType, Busy
<1>2. /\ \A n \in 0 .. nrecords - 1 : TrueTime(n) \in Nat
      /\ \A n \in 0 .. nrecords - 1 : \A m \in 0 .. n : TrueTime(m) <= TrueTime(n)
  BY <1>1, InOrder
<1>3. i < high.at
  <2>1. CASE high.at = nrecords
    BY <1>1, <2>1
  <2>2. CASE high.at # nrecords
    <3>1. high.at \in 0 .. nrecords - 1 /\ TrueTime(high.at) >= TrueTime(i) + DHalf
      BY <1>1, <2>2 DEF WindowInv, Edges
    <3>2. ~(high.at \in 0 .. i)
      BY <1>1, <1>2, <3>1
    <3>3. QED
      BY <1>1, <3>1, <3>2
  <2>3. QED
    BY <2>1, <2>2
<1>4. ASSUME NEW n \in low.at .. high.at - 1
      PROVE  n \in InDensity(TrueTime(i))
  <2>1. n \in 0 .. nrecords - 1 /\ n \in 0 .. high.at - 1 /\ low.at \in 0 .. n
    BY <1>1
  <2>2. low.at \in 0 .. nrecords - 1
    BY <1>1
  <2>3. TrueTime(n) < TrueTime(i) + DHalf /\ TrueTime(low.at) >= TrueTime(i) - DHalf
    BY <1>1, <2>1 DEF WindowInv, Edges
  <2>4. TrueTime(low.at) <= TrueTime(n)
    BY <1>2, <2>1
  <2>5. TrueTime(n) >= TrueTime(i) - DHalf
    BY <1>1, <1>2, <2>1, <2>2, <2>3, <2>4
  <2>6. QED
    BY <2>1, <2>3, <2>5 DEF InDensity
<1>5. ASSUME NEW n \in InDensity(TrueTime(i))
      PROVE  n \in low.at .. high.at - 1
  <2>1. n \in 0 .. nrecords - 1 /\ TrueTime(n) >= TrueTime(i) - DHalf
        /\ TrueTime(n) < TrueTime(i) + DHalf
    BY DEF InDensity
  <2>2. ~(n \in 0 .. low.at - 1)
    <3>1. SUFFICES ASSUME n \in 0 .. low.at - 1 PROVE FALSE
      OBVIOUS
    <3>2. TrueTime(n) < TrueTime(i) - DHalf
      BY <1>1, <3>1 DEF WindowInv, Edges
    <3>3. QED
      BY <1>1, <1>2, <2>1, <3>2
  <2>3. n < high.at
    <3>1. SUFFICES ASSUME ~(n < high.at) PROVE FALSE
      OBVIOUS
    <3>2. high.at # nrecords /\ high.at \in 0 .. n
      BY <1>1, <2>1, <3>1
    <3>3. TrueTime(high.at) >= TrueTime(i) + DHalf /\ TrueTime(high.at) <= TrueTime(n)
      BY <1>1, <1>2, <2>1, <3>2 DEF WindowInv, Edges
    <3>4. high.at \in 0 .. nrecords - 1
      BY <1>1, <3>2
    <3>5. QED
      BY <1>1, <1>2, <2>1, <3>3, <3>4
  <2>4. QED
    BY <1>1, <2>1, <2>2, <2>3
<1>6. InDensity(TrueTime(i)) = low.at .. high.at - 1
  BY <1>4, <1>5
<1>7. QED
  BY <1>1, <1>3, <1>6

LEMMA FillWindow ==
  ASSUME WindowInv, Fill
  PROVE  WindowInv'
<1>1. nrecords' = nrecords /\ (\A k : TrueTime(k)' = TrueTime(k)) /\ low' = low
      /\ high' = high /\ TCorr' = TCorr /\ i' = i + 1 /\ pc = "fill" /\ pc' \in {"crashed", "next"}
  BY TraceStays DEF Fill
<1>2. ClockInv' /\ ClockInv /\ nrecords \in Nat /\ nrecords < Word /\ i \in Nat
  BY FillClocks, AtHand DEF WindowInv, ClockInv, Types
<1>3. OneThread => Edges'
  BY <1>1, <1>2 DEF WindowInv, Edges
<1>4. ASSUME OneThread, DHalf > 0, NEW k \in 1 .. Len(tree')
      PROVE  Counted(k)'
  <2> DEFINE row == [TCorr |-> Unsigned(TCorr), LifeTime |-> LifeTime,
                     Density |-> Unsigned(high.at - low.at - 1)]
  <2>1. /\ tree \in Seq([TCorr : Int, LifeTime : Int, Density : Int]) /\ Len(tree) = i
        /\ tree' = Append(tree, row)
    BY <1>2 DEF ClockInv, Types, Fill
  <2>2. CASE k \in 1 .. i
    <3>1. tree'[k] = tree[k]
      BY <2>1, <2>2
    <3>2. Counted(k)
      BY <1>4, <2>1, <2>2 DEF WindowInv
    <3>3. QED
      BY <1>1, <3>1, <3>2 DEF Counted, InDensity
  <2>3. CASE k = i + 1
    <3>1. tree'[k] = row /\ k - 1 = i
      BY <1>2, <2>1, <2>3
    <3>2. /\ InDensity(TrueTime(i)) = low.at .. high.at - 1
          /\ low.at \in Nat /\ high.at \in Nat /\ low.at < high.at /\ high.at <= nrecords
      BY <1>1, <1>4, WindowIsBetween
    <3>3. Cardinality(InDensity(TrueTime(i))) = high.at - low.at
      <4>1. high.at - 1 \in Int /\ low.at \in Int /\ ~(low.at > high.at - 1)
            /\ (high.at - 1) - low.at + 1 = high.at - low.at
        BY <3>2
      <4>2. Cardinality(low.at .. high.at - 1) = (high.at - 1) - low.at + 1
        BY <4>1, FS_Interval
      <4>3. QED
        BY <3>2, <4>1, <4>2
    <3>4. high.at - low.at - 1 \in 0 .. Word - 1
      BY <1>2, <3>2, LifetimesAssumption
    <3>5. row.Density + 1 = high.at - low.at
      <4>1. Unsigned(high.at - low.at - 1) = high.at - low.at - 1
        BY <3>4, LifetimesAssumption, SmallMod DEF Unsigned
      <4>2. QED
        BY <3>2, <4>1
    <3>6. QED
      BY <1>1, <3>1, <3>3, <3>5 DEF Counted, InDensity
  <2>4. QED
    <3>1. Len(tree') = i + 1
      BY <2>1
    <3>2. QED
      BY <1>2, <2>2, <2>3, <3>1
<1>5. OneThread' <=> OneThread
  BY OrderStays DEF Fill
<1>6. QED
  BY <1>2, <1>3, <1>4, <1>5 DEF WindowInv

LEMMA StepWindow == WindowInv /\ [Next]_vars => WindowInv'
<1> SUFFICES ASSUME WindowInv, [Next]_vars PROVE WindowInv'
  OBVIOUS
<1>0. ClockInv' /\ (OneThread' <=> OneThread)
  <2>1. trace' = trace
    BY DEF Next, vars, NextRecord, LowTurn, LowEnds, HighTurn, HighEnds, NoLifetime, FromMap,
       BeginSearch, SearchTurn, SearchEnds, Fill, Finish, Stopped, Window, Search
  <2>2. QED
    BY <2>1, StepClocks, OrderStays DEF WindowInv
<1>1. CASE NextRecord
  BY <1>0, <1>1, NextRecordWindow, RowsStay DEF WindowInv, NextRecord
<1>2. CASE LowTurn
  BY <1>0, <1>2, LowTurnWindow, RowsStay DEF WindowInv, LowTurn, Window
<1>3. CASE LowEnds
  BY <1>0, <1>3, LowEndsWindow, RowsStay DEF WindowInv, LowEnds, Window
<1>4. CASE HighTurn
  BY <1>0, <1>4, HighTurnWindow, RowsStay DEF WindowInv, HighTurn, Window
<1>5. CASE HighEnds
  BY <1>0, <1>5, HighEndsWindow, RowsStay DEF WindowInv, HighEnds, Window
<1>6. CASE NoLifetime \/ FromMap \/ BeginSearch \/ SearchTurn \/ SearchEnds
  BY <1>0, <1>6, LookWindow, RowsStay DEF WindowInv
<1>7. CASE Fill
  BY <1>7, FillWindow
<1>8. CASE Finish \/ Stopped \/ UNCHANGED vars
  <2>1. UNCHANGED <<trace, i, TCorr, low, high, tree>>
        /\ (pc' = pc \/ pc' = "done")
    BY <1>8 DEF Finish, Search, Stopped, vars
  <2>2. nrecords' = nrecords /\ (\A k : TrueTime(k)' = TrueTime(k))
    BY <2>1, TraceStays
  <2>3. OneThread => Edges'
    BY <2>1, <2>2 DEF WindowInv, Edges
  <2>4. QED
    BY <1>0, <2>1, <2>3, RowsStay DEF WindowInv
<1>9. QED
  BY <1>1, <1>2, <1>3, <1>4, <1>5, <1>6, <1>7, <1>8 DEF Next

\* If no two calls of the trace overlap, the density of a record is the number
\* of other records in the half-open window around it, though the window's ends
\* only ever move forward, and are negative for the first records.
THEOREM DensityIsCounted == Spec => []DensityCounts
<1>1. WindowInv => DensityCounts
  BY DEF WindowInv, Counted, InDensity, DensityCounts
<1>2. QED
  BY InitWindow, StepWindow, <1>1, PTL DEF Spec

-----------------------------------------------------------------------------
(* Which free ends which allocation *)

Owned(k) == k \in 0 .. nrecords - 1 /\ ~IsFree(k) /\ Rec(k).addr # 0
NFree(n) == n \in 0 .. nrecords - 1 /\ IsFree(n) /\ Rec(n).addr # 0

\* No free follows n.
Final(n) == \A m \in n + 1 .. nrecords - 1 : ~NFree(m)

Tracked(k) == Short \/ (OneThread /\ Unique(k))

\* What LivesUntilFreed says of a lifetime of record k.
Right(k, life) ==
  Owned(k) /\ Tracked(k) =>
    LET true == TrueTime(FirstFree(k)) - TrueTime(k) IN
    life = true \/ (life = -1 /\ true >= LookAhead)

LEMMA FirstFreeIs ==
  ASSUME Given, Balanced, NEW k, Owned(k)
  PROVE  /\ FirstFree(k) \in k + 1 .. nrecords - 1
         /\ Frees(FirstFree(k), Rec(k).addr)
         /\ \A m \in k + 1 .. FirstFree(k) - 1 : Rec(m).addr # Rec(k).addr
<1>1. nrecords \in Nat /\ k \in 0 .. nrecords - 1
  BY Records DEF Owned
<1>2. PICK n \in k + 1 .. nrecords - 1 :
        /\ Frees(n, Rec(k).addr)
        /\ \A m \in k + 1 .. n - 1 : Rec(m).addr # Rec(k).addr
  BY DEF Balanced, Owned
<1>3. n \in FreesAfter(k) /\ \A m \in FreesAfter(k) : n <= m
  <2>1. ASSUME NEW m \in FreesAfter(k) PROVE n <= m
    <3>1. m \in k + 1 .. nrecords - 1 /\ Rec(m).addr = Rec(k).addr
      BY DEF FreesAfter, Frees
    <3>2. ~(m \in k + 1 .. n - 1)
      BY <1>2, <3>1
    <3>3. QED
      BY <1>1, <3>1, <3>2
  <2>2. QED
    BY <1>2, <2>1 DEF FreesAfter
<1>4. FirstFree(k) \in FreesAfter(k) /\ \A m \in FreesAfter(k) : FirstFree(k) <= m
  BY <1>3 DEF FirstFree, Min
<1>5. FirstFree(k) = n
  <2>1. FirstFree(k) <= n /\ n <= FirstFree(k)
    BY <1>3, <1>4
  <2>2. FirstFree(k) \in Int /\ n \in Int
    BY <1>1, <1>4 DEF FreesAfter
  <2>3. QED
    BY <2>1, <2>2
<1>6. QED
  BY <1>2, <1>5

\* An allocation has one free, and a free one allocation.  A later allocation
\* of its address comes after its free.
LEMMA Pairs ==
  ASSUME Given, Balanced
  PROVE  /\ \A k : Owned(k) => /\ NFree(FirstFree(k)) /\ k < FirstFree(k)
                               /\ Rec(FirstFree(k)).addr = Rec(k).addr
         /\ \A k, l : Owned(k) /\ Owned(l) /\ k < l /\ Rec(k).addr = Rec(l).addr =>
              FirstFree(k) < l
         /\ \A k, l : Owned(k) /\ Owned(l) /\ FirstFree(k) = FirstFree(l) => k = l
         /\ \A n : NFree(n) => \E k : Owned(k) /\ FirstFree(k) = n
         /\ \A k, n : Owned(k) /\ NFree(n) /\ Rec(n).addr = Rec(k).addr /\ k < n =>
              FirstFree(k) <= n
         /\ \A k, n : Owned(k) /\ Unique(k) /\ NFree(n) /\ Rec(n).addr = Rec(k).addr =>
              n = FirstFree(k)
<1>0. nrecords \in Nat
  BY Records
<1>1. ASSUME NEW k, Owned(k)
      PROVE  NFree(FirstFree(k)) /\ k < FirstFree(k) /\ Rec(FirstFree(k)).addr = Rec(k).addr
  <2>1. k \in 0 .. nrecords - 1 /\ Rec(k).addr # 0
    BY <1>1 DEF Owned
  <2>2. FirstFree(k) \in k + 1 .. nrecords - 1 /\ Frees(FirstFree(k), Rec(k).addr)
    BY <1>1, FirstFreeIs
  <2>3. QED
    BY <1>0, <2>1, <2>2 DEF NFree, Frees
<1>2. ASSUME NEW k, NEW n, Owned(k), n \in 0 .. nrecords - 1, k < n,
             Rec(n).addr = Rec(k).addr
      PROVE  FirstFree(k) <= n
  <2>1. k \in 0 .. nrecords - 1 /\ FirstFree(k) \in k + 1 .. nrecords - 1
        /\ \A m \in k + 1 .. FirstFree(k) - 1 : Rec(m).addr # Rec(k).addr
    BY <1>2, FirstFreeIs DEF Owned
  <2>2. ~(n \in k + 1 .. FirstFree(k) - 1)
    BY <1>2, <2>1
  <2>3. QED
    BY <1>0, <1>2, <2>1, <2>2
<1>3. ASSUME NEW k, NEW l, Owned(k), Owned(l), k < l, Rec(k).addr = Rec(l).addr
      PROVE  FirstFree(k) < l
  <2>1. l \in 0 .. nrecords - 1 /\ k \in 0 .. nrecords - 1 /\ ~IsFree(l)
    BY <1>3 DEF Owned
  <2>2. FirstFree(k) <= l /\ FirstFree(k) \in 0 .. nrecords - 1 /\ IsFree(FirstFree(k))
    BY <1>1, <1>2, <1>3, <2>1 DEF NFree
  <2>3. FirstFree(k) # l
    BY <2>1, <2>2
  <2>4. QED
    BY <1>0, <2>1, <2>2, <2>3
<1>4. ASSUME NEW k, NEW l, Owned(k), Owned(l), FirstFree(k) = FirstFree(l)
      PROVE  k = l
  <2>1. /\ k \in 0 .. nrecords - 1 /\ l \in 0 .. nrecords - 1
        /\ Rec(k).addr = Rec(l).addr
        /\ FirstFree(k) \in 0 .. nrecords - 1 /\ k < FirstFree(k) /\ l < FirstFree(k)
    BY <1>1, <1>4 DEF Owned, NFree
  <2>2. ~(k < l)
    <3>1. SUFFICES ASSUME k < l PROVE FALSE
      OBVIOUS
    <3>2. FirstFree(k) < l
      BY <1>3, <1>4, <2>1, <3>1
    <3>3. QED
      BY <1>0, <2>1, <3>2
  <2>3. ~(l < k)
    <3>1. SUFFICES ASSUME l < k PROVE FALSE
      OBVIOUS
    <3>2. FirstFree(l) < k
      BY <1>3, <1>4, <2>1, <3>1
    <3>3. QED
      BY <1>0, <1>4, <2>1, <3>2
  <2>4. QED
    BY <1>0, <2>1, <2>2, <2>3
<1>5. ASSUME NEW n, NFree(n)
      PROVE  \E k : Owned(k) /\ FirstFree(k) = n
  <2>1. n \in 0 .. nrecords - 1 /\ IsFree(n) /\ Rec(n).addr # 0
    BY <1>5 DEF NFree
  <2>2. PICK k \in 0 .. n - 1 :
          /\ ~IsFree(k) /\ Rec(k).addr = Rec(n).addr
          /\ \A m \in k + 1 .. n - 1 : Rec(m).addr # Rec(n).addr
    BY <2>1 DEF Balanced
  <2>3. Owned(k) /\ k < n
    BY <1>0, <2>1, <2>2 DEF Owned
  <2>4. FirstFree(k) <= n /\ NFree(FirstFree(k)) /\ k < FirstFree(k)
        /\ Rec(FirstFree(k)).addr = Rec(k).addr
    BY <1>1, <1>2, <2>1, <2>2, <2>3
  <2>5. ~(FirstFree(k) \in k + 1 .. n - 1)
    BY <2>2, <2>4
  <2>6. FirstFree(k) = n
    <3>1. FirstFree(k) \in 0 .. nrecords - 1
      BY <2>4 DEF NFree
    <3>2. QED
      BY <1>0, <2>1, <2>2, <2>4, <2>5, <3>1
  <2>7. QED
    BY <2>3, <2>6
<1>6. ASSUME NEW k, NEW n, Owned(k), Unique(k), NFree(n), Rec(n).addr = Rec(k).addr
      PROVE  n = FirstFree(k)
  <2>1. PICK l : Owned(l) /\ FirstFree(l) = n
    BY <1>5, <1>6
  <2>2. Rec(l).addr = Rec(k).addr /\ l \in 0 .. nrecords - 1 /\ ~IsFree(l)
    BY <1>1, <1>6, <2>1 DEF Owned
  <2>3. l = k
    BY <1>6, <2>2 DEF Unique
  <2>4. QED
    BY <2>1, <2>3
<1>7. \A k, n : Owned(k) /\ NFree(n) /\ Rec(n).addr = Rec(k).addr /\ k < n =>
        FirstFree(k) <= n
  BY <1>2 DEF NFree
<1>8. QED
  BY <1>1, <1>3, <1>4, <1>5, <1>6, <1>7

\* Of a trace whose free of record k is Seen or not, what the time says.
LEMMA FreeIsLater ==
  ASSUME Given, Balanced, NEW k, Owned(k)
  PROVE  /\ FirstFree(k) \in 0 .. nrecords - 1 /\ FirstFree(k) \in Nat
         /\ TrueTime(FirstFree(k)) \in Int /\ TrueTime(k) \in Int
         /\ OneThread => \A n \in 0 .. FirstFree(k) : TrueTime(n) <= TrueTime(FirstFree(k))
<1>1. FirstFree(k) \in 0 .. nrecords - 1 /\ k \in 0 .. nrecords - 1 /\ nrecords \in Nat
  BY Pairs, Records DEF NFree, Owned
<1>2. QED
  BY <1>1, Times, OrderedTimes

\* In the traces of which something is said, no time is before their start.
LEMMA FromTheStart ==
  ASSUME Given, OneThread \/ Short
  PROVE  \A k \in 0 .. nrecords - 1 :
           /\ TrueTime(k) \in Nat
           /\ Unsigned(TrueTime(k)) = TrueTime(k)
           /\ Unsigned(TrueTime(k) + LookAhead) = TrueTime(k) + LookAhead
<1>1. \A k \in 0 .. nrecords - 1 : TrueTime(k) \in Nat
  BY OrderedTimes, LifetimesAssumption DEF Short
<1>2. QED
  BY <1>1, Compared

\* None of this changes while the trace stays.
LEMMA LifeStays ==
  ASSUME trace' = trace
  PROVE  /\ nrecords' = nrecords /\ (Balanced' <=> Balanced) /\ (Short' <=> Short)
         /\ OneThread' <=> OneThread
         /\ \A k : Rec(k)' = Rec(k) /\ (IsFree(k)' <=> IsFree(k))
         /\ \A k : Owned(k)' <=> Owned(k)
         /\ \A k : NFree(k)' <=> NFree(k)
         /\ \A k : Final(k)' <=> Final(k)
         /\ \A k : Tracked(k)' <=> Tracked(k)
         /\ \A k : Unique(k)' <=> Unique(k)
         /\ \A k : FirstFree(k)' = FirstFree(k)
         /\ \A k, l : Right(k, l)' <=> Right(k, l)
<1>1. nrecords' = nrecords
  BY DEF nrecords
<1>2. \A k : Rec(k)' = Rec(k) /\ (IsFree(k)' <=> IsFree(k))
  BY DEF Rec, IsFree
<1>3. \A k : TrueTime(k)' = TrueTime(k)
  BY TraceStays
<1>4. /\ \A k : Owned(k)' <=> Owned(k)
      /\ \A k : NFree(k)' <=> NFree(k)
  BY <1>1, <1>2 DEF Owned, NFree
<1>5. \A k : Final(k)' <=> Final(k)
  BY <1>1, <1>4 DEF Final
<1>6. (Balanced' <=> Balanced)
  BY <1>1, <1>2 DEF Balanced, Frees
<1>7. (Short' <=> Short)
  BY <1>1, <1>3 DEF Short
<1>8. \A k : Unique(k)' <=> Unique(k)
  BY <1>1, <1>2 DEF Unique
<1>9. \A k : FreesAfter(k)' = FreesAfter(k)
  BY <1>1, <1>2 DEF FreesAfter, Frees
<1>10. \A k : FirstFree(k)' = FirstFree(k)
  BY <1>9 DEF FirstFree
<1>11. \A k : Tracked(k)' <=> Tracked(k)
  BY <1>7, <1>8, OrderStays DEF Tracked
<1>12. \A k, l : Right(k, l)' <=> Right(k, l)
  BY <1>3, <1>4, <1>10, <1>11 DEF Right
<1>13. QED
  BY <1>1, <1>2, <1>4, <1>5, <1>6, <1>7, <1>8, <1>10, <1>11, <1>12, OrderStays

\* The allocations whose lifetimes are still to be found, those that are past,
\* and the records that were looked at for frees.
First == IF pc \in {"search", "fill"} THEN i + 1 ELSE i
Past == IF pc = "fill" THEN i + 1 ELSE i
Seen == IF pc = "search" THEN ahead.at ELSE look.at

\* A search has found nothing yet.
Searching ==
  /\ pc \in {"low", "high", "life", "search"} => LifeTime = -1
  /\ pc = "search" => ~IsFree(i)
  /\ pc = "search" /\ Owned(i) /\ Tracked(i) => FirstFree(i) > ahead.at
  /\ pc = "search" => \A n \in look.at + 2 .. ahead.at : ~NFree(n)

\* Of an address that is used once there is an entry as soon as its free is met.
Kept ==
  \A k \in First .. nrecords - 1 :
    Owned(k) /\ Unique(k) /\ FirstFree(k) <= Seen => Rec(k).addr \in DOMAIN freeMap

\* When the time is never over: what is known of the frees that are past, of
\* those in the map, and of their order there.
PastSeen ==
  \A m \in 0 .. Past - 1 :
    Owned(m) => \/ FirstFree(m) <= look.at
                \/ FirstFree(m) = look.at + 1 /\ Final(FirstFree(m))

\* The n-th entry of address a is of the free at p.
Holds(a, n, p) ==
  /\ a \in DOMAIN freeMap /\ n \in 1 .. Len(freeMap[a])
  /\ p = freeMap[a][n].filePos

AllKept ==
  \A k \in First .. nrecords - 1 :
    Owned(k) /\ FirstFree(k) <= Seen =>
      \E a, n, p : a = Rec(k).addr /\ p = FirstFree(k) /\ Holds(a, n, p)

Wanted(p) ==
  /\ p <= Seen \/ (p = look.at + 1 /\ Final(p))
  /\ Final(p) \/ \E k \in First .. nrecords - 1 : Owned(k) /\ FirstFree(k) = p

MapRight ==
  /\ \A a, n, p : Holds(a, n, p) => Wanted(p)
  /\ \A a, m, n, p, q :
       Holds(a, m, p) /\ Holds(a, n, q) /\ m < n => p < q \/ (p = q /\ Final(p))

\* A lifetime that is found, and of which record.
Filled(k, life) ==
  \/ pc = "fill" /\ k = i /\ life = LifeTime
  \/ \E n \in 1 .. Len(tree) : k = n - 1 /\ life = tree[n].LifeTime

Results == \A k, life : Filled(k, life) => Right(k, life)

LifeInv ==
  /\ ClockInv
  /\ Balanced => Searching /\ Kept /\ Results
  /\ Balanced /\ Short => PastSeen /\ AllKept /\ MapRight

-----------------------------------------------------------------------------
(* What the map and the look-ahead know of the record in turn *)

LEMMA LifeAtHand ==
  ASSUME LifeInv
  PROVE  /\ Given /\ ClockInv /\ nrecords \in Nat
         /\ i \in 0 .. nrecords /\ (Busy => i \in 0 .. nrecords - 1)
         /\ look.at \in Nat /\ (Busy => look.at < nrecords)
         /\ pc = "search" => ahead.at \in 0 .. nrecords - 1 /\ look.at <= ahead.at
         /\ Busy => TCorr = TrueTime(i) /\ TrueTime(i) \in Int
         /\ tree \in Seq([TCorr : Int, LifeTime : Int, Density : Int]) /\ Len(tree) = i
<1>1. ClockInv /\ Given /\ nrecords \in Nat
  BY AtHand DEF LifeInv
<1>2. i \in 0 .. nrecords /\ (Busy => i \in 0 .. nrecords - 1)
  BY <1>1 DEF ClockInv, Types
<1>3. Busy => TrueTime(i) \in Int
  BY <1>1, <1>2, AtHand
<1>4. look.at \in Nat /\ ahead.at \in Nat
  BY <1>1 DEF ClockInv, Types, CursorType
<1>5. Busy => trace # <<>>
  BY <1>1 DEF ClockInv, Types, Busy
<1>6. pc = "search" => Busy
  BY DEF Busy
<1>7. Busy => look.at < nrecords
  BY <1>1, <1>5 DEF ClockInv, Places
<1>8. pc = "search" => ahead.at \in 0 .. nrecords - 1 /\ look.at <= ahead.at
  BY <1>1, <1>4, <1>5, <1>6 DEF ClockInv, Places
<1>9. Busy => TCorr = TrueTime(i)
  BY <1>1 DEF ClockInv, Clocks
<1>10. tree \in Seq([TCorr : Int, LifeTime : Int, Density : Int]) /\ Len(tree) = i
  BY <1>1 DEF ClockInv, Types
<1>11. QED
  BY <1>1, <1>2, <1>3, <1>4, <1>7, <1>8, <1>9, <1>10

\* If nothing is known of its free, the look-ahead has not come to it.
LEMMA NotYetMet ==
  ASSUME LifeInv, Balanced, pc = "life", Owned(i), Tracked(i), Missing
  PROVE  FirstFree(i) > look.at
<1>1. /\ Given /\ i \in First .. nrecords - 1 /\ Seen = look.at /\ look.at \in Nat
      /\ FirstFree(i) \in Nat
  BY LifeAtHand, FreeIsLater DEF First, Seen, Owned
<1>2. ~(FirstFree(i) <= look.at)
  <2>1. SUFFICES ASSUME FirstFree(i) <= look.at PROVE FALSE
    OBVIOUS
  <2>2. Rec(i).addr \in DOMAIN freeMap
    BY <1>1, <2>1 DEF LifeInv, Kept, AllKept, Tracked, Holds
  <2>3. QED
    BY <2>2 DEF Missing
<1>3. QED
  BY <1>1, <1>2

\* A free of its address that is met while its own has not been is its own.
LEMMA MetIsItsOwn ==
  ASSUME LifeInv, Balanced, pc \in {"life", "search"}, Owned(i), Tracked(i),
         NEW n \in 0 .. nrecords - 1, n > look.at, n <= FirstFree(i), Frees(n, Rec(i).addr)
  PROVE  FirstFree(i) = n
<1>1. /\ Given /\ i \in 0 .. nrecords - 1 /\ nrecords \in Nat /\ look.at \in Nat
      /\ FirstFree(i) \in Nat /\ NFree(n) /\ Rec(n).addr = Rec(i).addr /\ ~IsFree(i) /\ IsFree(n)
  BY LifeAtHand, FreeIsLater DEF Owned, NFree, Frees
<1>2. CASE Unique(i)
  BY <1>1, <1>2, Pairs
<1>3. CASE Short
  <2>1. CASE i < n
    <3>1. FirstFree(i) <= n
      BY <1>1, <2>1, Pairs
    <3>2. QED
      BY <1>1, <3>1
  <2>2. CASE n < i
    <3>1. PICK m : Owned(m) /\ FirstFree(m) = n
      BY <1>1, Pairs
    <3>2. m \in 0 .. nrecords - 1 /\ m < n
      BY <1>1, <3>1, Pairs DEF Owned
    <3>3. m \in 0 .. Past - 1
      BY <1>1, <2>2, <3>2 DEF Past
    <3>4. Final(n)
      BY <1>1, <1>3, <3>1, <3>3 DEF LifeInv, PastSeen
    <3>5. NFree(FirstFree(i)) /\ i < FirstFree(i)
      BY <1>1, Pairs
    <3>6. FirstFree(i) \in n + 1 .. nrecords - 1
      BY <1>1, <2>2, <3>5 DEF NFree
    <3>7. QED
      BY <3>4, <3>5, <3>6 DEF Final
  <2>3. i # n
    BY <1>1
  <2>4. QED
    BY <1>1, <2>1, <2>2, <2>3
<1>4. QED
  BY <1>2, <1>3 DEF Tracked

\* A free of another address that is met is wanted later, or is the last one.
LEMMA MetIsWanted ==
  ASSUME LifeInv, Balanced, Short, pc \in {"life", "search"},
         NEW n, NFree(n), n > look.at, Rec(n).addr # Rec(i).addr
  PROVE  Final(n) \/ \E k \in i + 1 .. nrecords - 1 : Owned(k) /\ FirstFree(k) = n
<1>1. /\ Given /\ i \in 0 .. nrecords - 1 /\ nrecords \in Nat /\ look.at \in Nat
      /\ n \in 0 .. nrecords - 1
  BY LifeAtHand DEF Busy, NFree
<1>2. PICK k : Owned(k) /\ FirstFree(k) = n
  BY <1>1, Pairs
<1>3. k \in 0 .. nrecords - 1 /\ Rec(n).addr = Rec(k).addr
  BY <1>1, <1>2, Pairs DEF Owned
<1>4. CASE k < i
  <2>1. k \in 0 .. Past - 1
    BY <1>1, <1>3, <1>4 DEF Past
  <2>2. QED
    BY <1>1, <1>2, <2>1 DEF LifeInv, PastSeen
<1>5. CASE k > i
  BY <1>1, <1>2, <1>3, <1>5
<1>6. k # i
  BY <1>3
<1>7. QED
  BY <1>1, <1>3, <1>4, <1>5, <1>6

\* The oldest entry of the address of record i is its free.
LEMMA OldestIsItsOwn ==
  ASSUME LifeInv, Balanced, pc = "life", Owned(i), Tracked(i), ~Missing
  PROVE  LET q == freeMap[Rec(i).addr] IN
         q \in Seq(Fields) /\ Len(q) > 0 /\ q[1].filePos = FirstFree(i)
<1> DEFINE a == Rec(i).addr
           q == freeMap[a]
           p == q[1].filePos
<1>1. a \in DOMAIN freeMap /\ MapAt(freeMap)
  BY DEF Missing, Owned, LifeInv, ClockInv
<1>2. q \in Seq(Fields) /\ q # <<>>
  BY <1>1 DEF MapAt
<1>3. Len(q) > 0 /\ Len(q) \in Nat
  BY <1>2
<1>4. \A n \in 1 .. Len(q) : q[n].filePos \in 0 .. nrecords - 1 /\ Frees(q[n].filePos, a)
  <2>1. \A n \in 1 .. Len(q) : Entry(q[n], a)
    BY <1>1 DEF MapAt
  <2>2. nrecords \in Nat
    BY LifeAtHand
  <2>3. QED
    BY <2>1, <2>2 DEF Entry, Fields
<1>5. p \in 0 .. nrecords - 1 /\ NFree(p) /\ Rec(p).addr = a /\ 1 \in 1 .. Len(q)
  BY <1>3, <1>4 DEF NFree, Frees, Owned
<1>6. /\ Given /\ nrecords \in Nat /\ i \in 0 .. nrecords - 1 /\ look.at \in Nat
      /\ First = i /\ Seen = look.at
      /\ NFree(FirstFree(i)) /\ FirstFree(i) \in 0 .. nrecords - 1 /\ i < FirstFree(i)
      /\ Rec(FirstFree(i)).addr = a
  BY LifeAtHand, Pairs DEF Owned, First, Seen, NFree
<1>7. CASE Unique(i)
  BY <1>2, <1>3, <1>5, <1>6, <1>7, Pairs
<1>8. CASE Short
  <2>0. MapRight /\ AllKept
    BY <1>8 DEF LifeInv
  <2>9. Holds(a, 1, p) /\ Wanted(p)
    BY <1>1, <1>5, <2>0 DEF MapRight, Holds
  <2>1. CASE FirstFree(i) < p
    <3>1. FirstFree(i) <= look.at
      BY <1>5, <1>6, <2>1, <2>9 DEF Wanted
    <3>2. PICK n : Holds(a, n, FirstFree(i))
      BY <1>6, <2>0, <3>1 DEF AllKept
    <3>3. 1 < n
      BY <1>3, <1>5, <1>6, <2>1, <3>2 DEF Holds
    <3>4. p < FirstFree(i) \/ p = FirstFree(i)
      BY <2>0, <2>9, <3>2, <3>3 DEF MapRight
    <3>5. QED
      BY <1>5, <1>6, <2>1, <3>4
  <2>2. CASE p < FirstFree(i)
    <3>1. ~Final(p)
      BY <1>5, <1>6, <2>2 DEF Final
    <3>2. PICK k \in First .. nrecords - 1 : Owned(k) /\ FirstFree(k) = p
      BY <2>9, <3>1 DEF Wanted
    <3>3. k # i /\ k \in i + 1 .. nrecords - 1 /\ k < p /\ Rec(k).addr = a
      BY <1>5, <1>6, <2>2, <3>2, Pairs
    <3>4. FirstFree(i) < k
      BY <1>6, <3>2, <3>3, Pairs
    <3>5. QED
      BY <1>5, <1>6, <2>2, <3>3, <3>4
  <2>3. QED
    BY <1>2, <1>3, <1>5, <1>6, <2>1, <2>2
<1>9. QED
  BY <1>7, <1>8 DEF Tracked

-----------------------------------------------------------------------------
(* The steps that do not look ahead *)

LEMMA InitLife == Init => LifeInv
<1> SUFFICES ASSUME Init PROVE LifeInv
  OBVIOUS
<1>1. ClockInv /\ Given /\ nrecords \in Nat
  BY InitClocks, AtHand
<1>2. i = 0 /\ look.at = 0 /\ tree = <<>> /\ freeMap = NoEntry /\ pc \in {"crashed", "next"}
      /\ LifeTime = -1
  BY DEF Init
<1>3. Searching /\ Results
  BY <1>2 DEF Searching, Results, Filled
<1>4. MapRight /\ PastSeen
  BY <1>2 DEF MapRight, PastSeen, Past, NoEntry, Holds
<1>5. ASSUME Balanced, NEW k \in First .. nrecords - 1, Owned(k)
      PROVE  ~(FirstFree(k) <= Seen)
  <2>1. FirstFree(k) \in Nat /\ k < FirstFree(k) /\ k \in Nat
    BY <1>1, <1>2, <1>5, FreeIsLater, Pairs DEF First
  <2>2. QED
    BY <1>2, <2>1 DEF Seen
<1>6. Balanced => Kept /\ AllKept
  BY <1>5 DEF Kept, AllKept
<1>7. QED
  BY <1>1, <1>3, <1>4, <1>6 DEF LifeInv

\* What is known of the map stays known.
LEMMA SameMap ==
  ASSUME LifeInv, UNCHANGED <<trace, look, freeMap>>,
         First' = First, Past' = Past, Seen' = Seen
  PROVE  /\ Balanced => Kept'
         /\ Balanced /\ Short => PastSeen' /\ AllKept' /\ MapRight'
<1>1. /\ nrecords' = nrecords
      /\ \A k : Rec(k)' = Rec(k) /\ (Owned(k)' <=> Owned(k)) /\ (Final(k)' <=> Final(k))
                /\ (Unique(k)' <=> Unique(k)) /\ FirstFree(k)' = FirstFree(k)
  BY LifeStays
<1>2. Balanced => Kept'
  BY <1>1 DEF LifeInv, Kept
<1>3. Balanced /\ Short => PastSeen'
  BY <1>1 DEF LifeInv, PastSeen
<1>5. \A p : Wanted(p)' <=> Wanted(p)
  BY <1>1 DEF Wanted
<1>6. \A a, n, p : Holds(a, n, p)' <=> Holds(a, n, p)
  BY DEF Holds
<1>7. Balanced /\ Short => MapRight'
  BY <1>1, <1>5, <1>6 DEF LifeInv, MapRight
<1>8. Balanced /\ Short => AllKept'
  BY <1>1, <1>6 DEF LifeInv, AllKept
<1>9. QED
  BY <1>2, <1>3, <1>7, <1>8

\* Results stay right, and new ones have to be.
LEMMA ResultsRight ==
  ASSUME LifeInv, Balanced, trace' = trace,
         \A k, life : Filled(k, life)' => Filled(k, life) \/ Right(k, life)
  PROVE  Results'
<1>1. \A k, life : Right(k, life)' <=> Right(k, life)
  BY LifeStays
<1>2. \A k, life : Filled(k, life) => Right(k, life)
  BY DEF LifeInv, Results
<1>3. QED
  BY <1>1, <1>2 DEF Results

LEMMA QuietLife ==
  ASSUME LifeInv, NextRecord \/ LowTurn \/ LowEnds \/ HighTurn \/ HighEnds
                  \/ Finish \/ Stopped \/ UNCHANGED vars
  PROVE  LifeInv'
<1>1. ClockInv'
  BY StepClocks DEF LifeInv, Next
<1>2. /\ UNCHANGED <<trace, look, freeMap, i, tree>>
      /\ \/ pc' = pc /\ UNCHANGED <<ahead, LifeTime>>
         \/ /\ pc \notin {"search", "fill"} /\ pc' \notin {"search", "fill"}
            /\ \/ LifeTime' = -1
               \/ UNCHANGED LifeTime /\ pc \in {"low", "high", "life"}
               \/ pc' \notin {"low", "high", "life"}
  BY DEF NextRecord, LowTurn, LowEnds, HighTurn, HighEnds, Finish, Stopped, vars, Window, Search
<1>3. First' = First /\ Past' = Past /\ Seen' = Seen
  BY <1>2 DEF First, Past, Seen
<1>4. /\ (Balanced' <=> Balanced) /\ (Short' <=> Short)
      /\ \A k : /\ IsFree(k)' <=> IsFree(k)
                /\ Owned(k)' <=> Owned(k)
                /\ NFree(k)' <=> NFree(k)
                /\ Tracked(k)' <=> Tracked(k)
                /\ FirstFree(k)' = FirstFree(k)
  BY <1>2, LifeStays
<1>5. Balanced => Searching'
  BY <1>2, <1>4 DEF LifeInv, Searching
<1>6. Balanced => Results'
  <2>1. \A k, life : Filled(k, life)' => Filled(k, life)
    BY <1>2 DEF Filled
  <2>2. QED
    BY <1>2, <2>1, ResultsRight
<1>7. QED
  BY <1>1, <1>2, <1>3, <1>4, <1>5, <1>6, SameMap DEF LifeInv

LEMMA FillLife ==
  ASSUME LifeInv, Fill
  PROVE  LifeInv'
<1>1. ClockInv'
  BY StepClocks DEF LifeInv, Next
<1>2. /\ UNCHANGED <<trace, look, freeMap, LifeTime>>
      /\ i' = i + 1 /\ pc = "fill" /\ pc' \in {"next", "crashed"}
  BY DEF Fill
<1>3. First' = First /\ Past' = Past /\ Seen' = Seen
  BY <1>2 DEF First, Past, Seen
<1>4. (Balanced' <=> Balanced) /\ (Short' <=> Short)
  BY <1>2, LifeStays
<1>5. Searching'
  BY <1>2 DEF Searching
<1>6. Balanced => Results'
  <2> DEFINE row == [TCorr |-> Unsigned(TCorr), LifeTime |-> LifeTime,
                     Density |-> Unsigned(high.at - low.at - 1)]
  <2>1. /\ tree \in Seq([TCorr : Int, LifeTime : Int, Density : Int]) /\ Len(tree) = i
        /\ tree' = Append(tree, row) /\ i \in Nat
    BY LifeAtHand DEF Fill
  <2>2. Len(tree') = i + 1 /\ tree'[i + 1].LifeTime = LifeTime
        /\ \A n \in 1 .. i : tree'[n] = tree[n]
    BY <2>1
  <2>3. \A n \in 1 .. i + 1 : n \in 1 .. i \/ (n = i + 1 /\ n - 1 = i)
    BY <2>1
  <2>4. \A k, life : Filled(k, life)' => Filled(k, life)
    BY <1>2, <2>1, <2>2, <2>3 DEF Filled
  <2>5. QED
    BY <1>2, <2>4, ResultsRight
<1>7. QED
  BY <1>1, <1>2, <1>3, <1>4, <1>5, <1>6, SameMap DEF LifeInv

-----------------------------------------------------------------------------
(* The steps that take a lifetime from the map, or give up *)

LEMMA EntriesAreFrees ==
  ASSUME LifeInv, NEW a, NEW n, NEW p, Holds(a, n, p)
  PROVE  /\ p \in 0 .. nrecords - 1 /\ NFree(p) /\ Rec(p).addr = a
         /\ n \in Nat \ {0} /\ freeMap[a][n].TCorr = TrueTime(p)
<1>1. MapAt(freeMap) /\ nrecords \in Nat
  BY LifeAtHand DEF ClockInv
<1>2. a \in DOMAIN freeMap /\ a # 0 /\ n \in 1 .. Len(freeMap[a]) /\ Entry(freeMap[a][n], a)
  BY <1>1 DEF MapAt, Holds
<1>3. p = freeMap[a][n].filePos /\ p \in Nat /\ p < nrecords /\ Frees(p, a)
      /\ freeMap[a][n].TCorr = TrueTime(p)
  BY <1>2 DEF Holds, Entry, Fields
<1>4. QED
  BY <1>1, <1>2, <1>3 DEF NFree, Frees

\* What the loops of the look-ahead compare, by the times of the records.
LEMMA LookTimes ==
  ASSUME LifeInv, Busy, OneThread \/ Short
  PROVE  /\ TMax = TrueTime(i) + LookAhead /\ TMax \in Nat /\ Unsigned(TMax) = TMax
         /\ look.TCorr = 0 \/ look.TCorr = TrueTime(look.at)
         /\ look.TCorr \in Nat /\ Unsigned(look.TCorr) = look.TCorr
<1>1. /\ ClockInv /\ Given /\ i \in 0 .. nrecords - 1 /\ look.at \in 0 .. nrecords - 1
      /\ TCorr = TrueTime(i)
  BY LifeAtHand
<1>2. \A k \in 0 .. nrecords - 1 :
        /\ TrueTime(k) \in Nat
        /\ Unsigned(TrueTime(k)) = TrueTime(k)
        /\ Unsigned(TrueTime(k) + LookAhead) = TrueTime(k) + LookAhead
  BY <1>1, FromTheStart
<1>3. TMax = TrueTime(i) + LookAhead /\ TMax \in Nat /\ Unsigned(TMax) = TMax
  BY <1>1, <1>2, LifetimesAssumption DEF TMax
<1>4. look.TCorr = 0 \/ look.TCorr = TrueTime(look.at)
  BY <1>1 DEF ClockInv, Clocks
<1>5. Unsigned(0) = 0
  BY LifetimesAssumption, SmallMod DEF Unsigned
<1>6. QED
  BY <1>1, <1>2, <1>3, <1>4, <1>5

\* In a short trace the look-ahead is never further than its time.
LEMMA ShortTimes ==
  ASSUME LifeInv, Short, Busy
  PROVE  /\ look.TCorr < TMax
         /\ \A n \in 0 .. nrecords - 1 : TrueTime(n) < TMax
<1>1. /\ nrecords \in Nat /\ i \in 0 .. nrecords - 1 /\ look.at \in 0 .. nrecords - 1
  BY LifeAtHand
<1>2. \A n \in 0 .. nrecords - 1 : TrueTime(n) \in 0 .. LookAhead - 1
  BY DEF Short
<1>3. TMax = TrueTime(i) + LookAhead /\ (look.TCorr = 0 \/ look.TCorr = TrueTime(look.at))
  BY LookTimes
<1>4. QED
  BY <1>1, <1>2, <1>3, LifetimesAssumption

LEMMA NoLifetimeLife ==
  ASSUME LifeInv, Balanced, NoLifetime
  PROVE  /\ Searching' /\ Kept' /\ Results'
         /\ Short => PastSeen' /\ AllKept' /\ MapRight'
<1>1. /\ pc = "life" /\ pc' = "fill" /\ UNCHANGED <<trace, i, look, freeMap, tree, LifeTime>>
      /\ Owned(i) => Missing /\ Beyond
  BY DEF NoLifetime, Search, Owned
<1>2. /\ Given /\ ClockInv /\ nrecords \in Nat /\ i \in 0 .. nrecords - 1
      /\ look.at \in 0 .. nrecords - 1 /\ TCorr = TrueTime(i) /\ TrueTime(i) \in Int
      /\ LifeTime = -1 /\ Busy
  BY <1>1, LifeAtHand DEF Busy, LifeInv, Searching
<1>3. /\ First = i /\ First' = i + 1 /\ Past = i /\ Past' = i + 1
      /\ Seen = look.at /\ Seen' = look.at
  BY <1>1 DEF First, Past, Seen
<1>4. /\ nrecords' = nrecords
      /\ \A k : /\ Rec(k)' = Rec(k)
                /\ Owned(k)' <=> Owned(k)
                /\ Final(k)' <=> Final(k)
                /\ Unique(k)' <=> Unique(k)
                /\ FirstFree(k)' = FirstFree(k)
      /\ \A a, n, p : Holds(a, n, p)' <=> Holds(a, n, p)
  BY <1>1, LifeStays DEF Holds
<1>5. ASSUME Owned(i), Tracked(i)
      PROVE  /\ FirstFree(i) \in 0 .. nrecords - 1 /\ FirstFree(i) > look.at
             /\ look.TCorr >= TMax
  <2>1. FirstFree(i) \in 0 .. nrecords - 1 /\ FirstFree(i) > look.at
    BY <1>1, <1>2, <1>5, NotYetMet, FreeIsLater
  <2>2. Unsigned(look.TCorr) >= Unsigned(TMax)
    BY <1>1, <1>2, <1>5, <2>1 DEF Beyond
  <2>3. Unsigned(look.TCorr) = look.TCorr /\ Unsigned(TMax) = TMax
    BY <1>2, <1>5, LookTimes DEF Tracked
  <2>4. QED
    BY <2>1, <2>2, <2>3
<1>6. Right(i, LifeTime)
  <2>1. SUFFICES ASSUME Owned(i), Tracked(i)
                 PROVE  TrueTime(FirstFree(i)) - TrueTime(i) >= LookAhead
    BY <1>2 DEF Right
  <2>2. /\ TMax = TrueTime(i) + LookAhead /\ look.TCorr >= TMax
        /\ look.TCorr \in Nat /\ TMax \in Nat
        /\ look.TCorr = 0 \/ look.TCorr = TrueTime(look.at)
    BY <1>2, <1>5, <2>1, LookTimes DEF Tracked
  <2>3. OneThread
    BY <1>2, <2>1, <2>2, ShortTimes DEF Tracked
  <2>4. TrueTime(FirstFree(i)) \in Nat /\ TrueTime(look.at) <= TrueTime(FirstFree(i))
        /\ TrueTime(look.at) \in Nat
    BY <1>2, <1>5, <2>1, <2>3, FreeIsLater, OrderedTimes
  <2>5. QED
    BY <1>2, <2>2, <2>4, LifetimesAssumption
<1>7. Searching' /\ Results'
  <2>1. \A k, life : Filled(k, life)' => Filled(k, life) \/ Right(k, life)
    BY <1>1, <1>6 DEF Filled
  <2>2. Results'
    BY <1>1, <2>1, ResultsRight
  <2>3. QED
    BY <1>1, <2>2 DEF Searching
<1>8. Kept'
  <2>1. \A k \in i + 1 .. nrecords - 1 : k \in i .. nrecords - 1
    BY <1>2
  <2>2. QED
    BY <1>1, <1>3, <1>4, <2>1 DEF LifeInv, Kept
<1>9. ASSUME Short PROVE PastSeen' /\ AllKept' /\ MapRight'
  <2>1. ~Owned(i)
    <3>1. look.TCorr < TMax
      BY <1>2, <1>9, ShortTimes
    <3>2. look.TCorr \in Int /\ TMax \in Int
      BY <1>2, <1>9, LookTimes
    <3>3. Owned(i) => look.TCorr >= TMax
      BY <1>5, <1>9 DEF Tracked
    <3>4. QED
      BY <3>1, <3>2, <3>3
  <2>2. PastSeen'
    <3>1. \A m \in 0 .. (i + 1) - 1 : m = i \/ m \in 0 .. i - 1
      BY <1>2
    <3>2. QED
      BY <1>1, <1>3, <1>4, <1>9, <2>1, <3>1 DEF LifeInv, PastSeen
  <2>3. \A k \in i + 1 .. nrecords - 1 : k \in i .. nrecords - 1
    BY <1>2
  <2>4. AllKept'
    BY <1>3, <1>4, <1>9, <2>3 DEF LifeInv, AllKept
  <2>5. \A p : Wanted(p) => Wanted(p)'
    <3>1. \A k \in i .. nrecords - 1 : k = i \/ k \in i + 1 .. nrecords - 1
      BY <1>2
    <3>2. QED
      BY <1>1, <1>3, <1>4, <2>1, <3>1 DEF Wanted
  <2>6. MapRight'
    BY <1>4, <1>9, <2>5 DEF LifeInv, MapRight
  <2>7. QED
    BY <2>2, <2>4, <2>6
<1>10. QED
  BY <1>7, <1>8, <1>9

\* Using the oldest entry of an address moves the others up.
LEMMA PoppedHolds ==
  ASSUME LifeInv, NEW b \in DOMAIN freeMap, freeMap' = Popped(b)
  PROVE  /\ \A a, n, p : Holds(a, n, p)' =>
              (a # b /\ Holds(a, n, p)) \/ (a = b /\ Holds(a, n + 1, p))
         /\ \A a, n, p : a # b /\ Holds(a, n, p) => Holds(a, n, p)'
         /\ \A n, p : Holds(b, n, p) /\ n > 1 => Holds(b, n - 1, p)'
         /\ \A a \in DOMAIN freeMap : a # b => a \in DOMAIN freeMap'
<1>1. /\ freeMap[b] \in Seq(Fields) /\ freeMap[b] # <<>>
      /\ DOMAIN freeMap' = {x \in DOMAIN freeMap : x # b \/ Len(freeMap[x]) > 1}
      /\ \A a \in DOMAIN freeMap' : freeMap'[a] = IF a = b THEN Tail(freeMap[a]) ELSE freeMap[a]
  BY LifeAtHand DEF ClockInv, MapAt, Popped
<1>2. /\ Len(freeMap[b]) \in Nat \ {0} /\ Len(Tail(freeMap[b])) = Len(freeMap[b]) - 1
      /\ \A n \in 1 .. Len(freeMap[b]) - 1 : Tail(freeMap[b])[n] = freeMap[b][n + 1]
  BY <1>1
<1>3. ASSUME NEW a, NEW n, NEW p, Holds(a, n, p)'
      PROVE  (a # b /\ Holds(a, n, p)) \/ (a = b /\ Holds(a, n + 1, p))
  <2>1. a \in DOMAIN freeMap' /\ n \in 1 .. Len(freeMap'[a]) /\ p = freeMap'[a][n].filePos
    BY <1>3 DEF Holds
  <2>2. CASE a # b
    BY <1>1, <2>1, <2>2 DEF Holds
  <2>3. CASE a = b
    <3>1. freeMap'[a] = Tail(freeMap[b])
      BY <1>1, <2>1, <2>3
    <3>2. n \in 1 .. Len(freeMap[b]) - 1 /\ n + 1 \in 1 .. Len(freeMap[b])
      BY <1>2, <2>1, <3>1
    <3>3. QED
      BY <1>2, <2>1, <2>3, <3>1, <3>2 DEF Holds
  <2>4. QED
    BY <2>2, <2>3
<1>4. ASSUME NEW a, NEW n, NEW p, a # b, Holds(a, n, p)
      PROVE  Holds(a, n, p)'
  BY <1>1, <1>4 DEF Holds
<1>5. ASSUME NEW n, NEW p, Holds(b, n, p), n > 1
      PROVE  Holds(b, n - 1, p)'
  <2>1. n \in 1 .. Len(freeMap[b]) /\ p = freeMap[b][n].filePos
    BY <1>5 DEF Holds
  <2>2. n - 1 \in 1 .. Len(freeMap[b]) - 1 /\ (n - 1) + 1 = n /\ Len(freeMap[b]) > 1
    BY <1>2, <1>5, <2>1
  <2>3. b \in DOMAIN freeMap' /\ freeMap'[b] = Tail(freeMap[b])
    BY <1>1, <2>2
  <2>4. QED
    BY <1>2, <2>1, <2>2, <2>3 DEF Holds
<1>6. QED
  BY <1>1, <1>3, <1>4, <1>5

LEMMA FromMapLife ==
  ASSUME LifeInv, Balanced, FromMap
  PROVE  /\ Searching' /\ Kept' /\ Results'
         /\ Short => PastSeen' /\ AllKept' /\ MapRight'
<1>0. PICK b : b = Rec(i).addr
  OBVIOUS
<1>1. /\ pc = "life" /\ pc' = "fill" /\ UNCHANGED <<trace, i, look, tree>> /\ ~Missing
      /\ b \in DOMAIN freeMap /\ freeMap' = Popped(b) /\ ~IsFree(i)
      /\ LifeTime' = Signed(Head(freeMap[b]).TCorr - TCorr)
  BY <1>0 DEF FromMap, Search, Missing
<1>2. /\ Given /\ ClockInv /\ nrecords \in Nat /\ i \in 0 .. nrecords - 1
      /\ look.at \in 0 .. nrecords - 1 /\ TCorr = TrueTime(i) /\ TrueTime(i) \in Int /\ Busy
  BY <1>1, LifeAtHand DEF Busy
<1>3. Owned(i)
  BY <1>0, <1>1, <1>2 DEF ClockInv, MapAt, Owned
<1>4. /\ First = i /\ First' = i + 1 /\ Past = i /\ Past' = i + 1
      /\ Seen = look.at /\ Seen' = look.at
  BY <1>1 DEF First, Past, Seen
<1>5. /\ nrecords' = nrecords
      /\ \A k : /\ Rec(k)' = Rec(k)
                /\ Owned(k)' <=> Owned(k)
                /\ Final(k)' <=> Final(k)
                /\ Unique(k)' <=> Unique(k)
                /\ FirstFree(k)' = FirstFree(k)
  BY <1>1, LifeStays
<1>6. /\ \A a, n, p : Holds(a, n, p)' =>
           (a # b /\ Holds(a, n, p)) \/ (a = b /\ Holds(a, n + 1, p))
      /\ \A a, n, p : a # b /\ Holds(a, n, p) => Holds(a, n, p)'
      /\ \A n, p : Holds(b, n, p) /\ n > 1 => Holds(b, n - 1, p)'
      /\ \A a \in DOMAIN freeMap : a # b => a \in DOMAIN freeMap'
  BY <1>1, PoppedHolds
<1>7. ASSUME Tracked(i)
      PROVE  Holds(b, 1, FirstFree(i)) /\ LifeTime' = TrueTime(FirstFree(i)) - TrueTime(i)
  <2>1. freeMap[b] \in Seq(Fields) /\ Len(freeMap[b]) > 0 /\ freeMap[b][1].filePos = FirstFree(i)
    BY <1>0, <1>1, <1>3, <1>7, OldestIsItsOwn
  <2>2. Holds(b, 1, FirstFree(i)) /\ Head(freeMap[b]) = freeMap[b][1]
    BY <1>1, <2>1 DEF Holds
  <2>3. /\ FirstFree(i) \in 0 .. nrecords - 1
        /\ Head(freeMap[b]).TCorr = TrueTime(FirstFree(i))
    BY <2>2, EntriesAreFrees
  <2>4. Signed(TrueTime(FirstFree(i)) - TrueTime(i)) = TrueTime(FirstFree(i)) - TrueTime(i)
    BY <1>2, <2>3, Compared
  <2>5. QED
    BY <1>1, <1>2, <2>2, <2>3, <2>4
<1>8. Searching' /\ Results'
  <2>1. \A k, life : Filled(k, life)' => Filled(k, life) \/ Right(k, life)
    BY <1>1, <1>7 DEF Filled, Right
  <2>2. Results'
    BY <1>1, <2>1, ResultsRight
  <2>3. QED
    BY <1>1, <2>2 DEF Searching
<1>9. \A k \in i + 1 .. nrecords - 1 : k \in i .. nrecords - 1 /\ k # i
  BY <1>2
<1>10. Kept'
  <2>1. SUFFICES ASSUME NEW k \in i + 1 .. nrecords - 1, Owned(k), Unique(k),
                        FirstFree(k) <= look.at
                 PROVE  Rec(k).addr \in DOMAIN freeMap'
    BY <1>4, <1>5 DEF Kept
  <2>2. Rec(k).addr \in DOMAIN freeMap
    BY <1>4, <1>9, <2>1 DEF LifeInv, Kept
  <2>3. Rec(k).addr # b
    BY <1>0, <1>2, <1>3, <1>9, <2>1 DEF Unique, Owned
  <2>4. QED
    BY <1>6, <2>2, <2>3
<1>11. ASSUME Short PROVE PastSeen' /\ AllKept' /\ MapRight'
  <2>1. Holds(b, 1, FirstFree(i))
    BY <1>7, <1>11 DEF Tracked
  <2>2. PastSeen'
    <3>1. \A m \in 0 .. (i + 1) - 1 : m = i \/ m \in 0 .. i - 1
      BY <1>2
    <3>2. Wanted(FirstFree(i))
      BY <1>11, <2>1 DEF LifeInv, MapRight
    <3>3. QED
      BY <1>1, <1>4, <1>5, <1>11, <3>1, <3>2 DEF LifeInv, PastSeen, Wanted
  <2>3. AllKept'
    <3>1. SUFFICES ASSUME NEW k \in i + 1 .. nrecords - 1, Owned(k), FirstFree(k) <= look.at
                   PROVE  \E a, n, p : a = Rec(k).addr /\ p = FirstFree(k) /\ Holds(a, n, p)'
      BY <1>4, <1>5 DEF AllKept
    <3>2. PICK a, n, p : a = Rec(k).addr /\ p = FirstFree(k) /\ Holds(a, n, p)
      BY <1>4, <1>9, <1>11, <3>1 DEF LifeInv, AllKept
    <3>3. CASE a # b
      BY <1>6, <3>2, <3>3
    <3>4. CASE a = b
      <4>1. n \in Nat \ {0}
        BY <3>2, EntriesAreFrees
      <4>2. n # 1
        <5>1. SUFFICES ASSUME n = 1 PROVE FALSE
          OBVIOUS
        <5>2. FirstFree(k) = FirstFree(i)
          BY <2>1, <3>2, <3>4, <5>1 DEF Holds
        <5>3. QED
          BY <1>2, <1>3, <1>9, <3>1, <5>2, Pairs
      <4>3. Holds(b, n - 1, p)'
        <5>1. n > 1
          BY <4>1, <4>2
        <5>2. QED
          BY <1>6, <3>2, <3>4, <5>1
      <4>4. QED
        BY <3>2, <3>4, <4>3
    <3>5. QED
      BY <3>3, <3>4
  <2>4. ASSUME NEW a, NEW n, NEW p, Holds(a, n, p)'
        PROVE  Wanted(p)'
    <3>1. PICK m : Holds(a, m, p) /\ (a = b => m = n + 1)
      BY <1>6, <2>4
    <3>2. Wanted(p) /\ Rec(p).addr = a
      BY <1>11, <3>1, EntriesAreFrees DEF LifeInv, MapRight
    <3>3. ASSUME p = FirstFree(i) PROVE Final(p)
      <4>1. a = b
        BY <1>0, <1>2, <1>3, <3>2, <3>3, Pairs
      <4>2. 1 < m
        <5>1. m = n + 1 /\ n \in 1 .. Len(freeMap'[a])
          BY <2>4, <3>1, <4>1 DEF Holds
        <5>2. QED
          BY <5>1
      <4>3. p < p \/ Final(p)
        BY <1>11, <2>1, <3>1, <3>3, <4>1, <4>2 DEF LifeInv, MapRight
      <4>4. p \in Int
        BY <3>1, EntriesAreFrees
      <4>5. QED
        BY <4>3, <4>4
    <3>4. \A k \in i .. nrecords - 1 : k = i \/ k \in i + 1 .. nrecords - 1
      BY <1>2
    <3>5. QED
      BY <1>1, <1>4, <1>5, <3>2, <3>3, <3>4 DEF Wanted
  <2>5. ASSUME NEW a, NEW m, NEW n, NEW p, NEW q, Holds(a, m, p)', Holds(a, n, q)', m < n
        PROVE  p < q \/ (p = q /\ Final(p))
    <3>1. CASE a # b
      BY <1>6, <1>11, <2>5, <3>1 DEF LifeInv, MapRight
    <3>2. CASE a = b
      <4>1. Holds(a, m + 1, p) /\ Holds(a, n + 1, q)
        BY <1>6, <2>5, <3>2
      <4>2. m + 1 < n + 1
        <5>1. m \in 1 .. Len(freeMap'[a]) /\ n \in 1 .. Len(freeMap'[a])
          BY <2>5 DEF Holds
        <5>2. QED
          BY <2>5, <5>1
      <4>3. QED
        BY <1>11, <4>1, <4>2 DEF LifeInv, MapRight
    <3>3. QED
      BY <3>1, <3>2
  <2>6. MapRight'
    BY <1>5, <2>4, <2>5 DEF MapRight
  <2>7. QED
    BY <2>2, <2>3, <2>6
<1>12. QED
  BY <1>8, <1>10, <1>11

\* A search that ends without the free ends at the time limit, or at the end of
\* the file: then no free is left behind its last one.
LEMMA SearchEndsLife ==
  ASSUME LifeInv, Balanced, SearchEnds
  PROVE  /\ Searching' /\ Kept' /\ Results'
         /\ Short => PastSeen' /\ AllKept' /\ MapRight'
<1>1. /\ pc = "search" /\ pc' = "fill" /\ UNCHANGED <<trace, i, look, freeMap, tree, LifeTime>>
      /\ ~Further
  BY DEF SearchEnds, Search
<1>2. /\ Given /\ ClockInv /\ nrecords \in Nat /\ i \in 0 .. nrecords - 1
      /\ look.at \in 0 .. nrecords - 1 /\ TCorr = TrueTime(i) /\ TrueTime(i) \in Int
      /\ LifeTime = -1 /\ Busy /\ ahead.at \in 0 .. nrecords - 1 /\ look.at <= ahead.at
  BY <1>1, LifeAtHand DEF Busy, LifeInv, Searching
<1>3. /\ First = i + 1 /\ First' = i + 1 /\ Past = i /\ Past' = i + 1
      /\ Seen = ahead.at /\ Seen' = look.at
  BY <1>1 DEF First, Past, Seen
<1>4. /\ nrecords' = nrecords
      /\ \A k : /\ Rec(k)' = Rec(k)
                /\ Owned(k)' <=> Owned(k)
                /\ Final(k)' <=> Final(k)
                /\ Unique(k)' <=> Unique(k)
                /\ FirstFree(k)' = FirstFree(k)
      /\ \A a, n, p : Holds(a, n, p)' <=> Holds(a, n, p)
  BY <1>1, LifeStays DEF Holds
<1>5. Corrected(ahead) = TrueTime(ahead.at) /\ TrueTime(ahead.at) \in Int /\ TMax \in Int
      /\ TMax = TrueTime(i) + LookAhead
  <2>1. ahead \in CursorType /\ ahead.offset = OverheadBefore(ahead.at)
    BY <1>1, <1>2 DEF ClockInv, Types, Clocks
  <2>2. Corrected(ahead) = TrueTime(ahead.at)
    BY <2>1, ClockRight
  <2>3. TrueTime(ahead.at) \in Int
    BY <1>2, AtHand
  <2>4. QED
    BY <1>2, <2>2, <2>3, LifetimesAssumption DEF TMax
<1>6. ASSUME OneThread \/ Short
      PROVE  ahead.at = nrecords - 1 \/ TrueTime(ahead.at) >= TMax
  <2>1. Unsigned(TMax) = TMax
    BY <1>2, <1>6, LookTimes
  <2>2. Unsigned(TrueTime(ahead.at)) = TrueTime(ahead.at)
    BY <1>2, <1>6, FromTheStart
  <2>3. QED
    BY <1>1, <1>2, <1>5, <2>1, <2>2 DEF Further
<1>7. ASSUME Owned(i), Tracked(i)
      PROVE  /\ FirstFree(i) \in 0 .. nrecords - 1 /\ FirstFree(i) > ahead.at
             /\ TrueTime(ahead.at) >= TMax
  <2>1. FirstFree(i) \in 0 .. nrecords - 1 /\ FirstFree(i) > ahead.at
    BY <1>1, <1>2, <1>7, FreeIsLater DEF LifeInv, Searching
  <2>2. ahead.at # nrecords - 1
    BY <1>2, <2>1
  <2>3. QED
    BY <1>6, <1>7, <2>1, <2>2 DEF Tracked
<1>8. Right(i, LifeTime)
  <2>1. SUFFICES ASSUME Owned(i), Tracked(i)
                 PROVE  TrueTime(FirstFree(i)) - TrueTime(i) >= LookAhead
    BY <1>2 DEF Right
  <2>2. OneThread
    BY <1>2, <1>5, <1>7, <2>1, ShortTimes DEF Tracked
  <2>3. TrueTime(FirstFree(i)) \in Int /\ TrueTime(ahead.at) <= TrueTime(FirstFree(i))
    BY <1>2, <1>7, <2>1, <2>2, FreeIsLater
  <2>4. QED
    BY <1>2, <1>5, <1>7, <2>1, <2>3, LifetimesAssumption
<1>9. Searching' /\ Results'
  <2>1. \A k, life : Filled(k, life)' => Filled(k, life) \/ Right(k, life)
    BY <1>1, <1>8 DEF Filled
  <2>2. Results'
    BY <1>1, <2>1, ResultsRight
  <2>3. QED
    BY <1>1, <2>2 DEF Searching
<1>10. ASSUME NEW k, Owned(k), FirstFree(k) <= look.at
       PROVE  FirstFree(k) <= ahead.at
  BY <1>2, <1>10, FreeIsLater
<1>11. Kept'
  BY <1>1, <1>3, <1>4, <1>10 DEF LifeInv, Kept
<1>12. ASSUME Short PROVE PastSeen' /\ AllKept' /\ MapRight'
  <2>1. TrueTime(ahead.at) < TMax
    BY <1>2, <1>12, ShortTimes
  <2>2. ~Owned(i)
    BY <1>5, <1>7, <1>12, <2>1 DEF Tracked
  <2>3. ahead.at = nrecords - 1
    BY <1>5, <1>6, <1>12, <2>1
  <2>4. PastSeen'
    <3>1. \A m \in 0 .. (i + 1) - 1 : m = i \/ m \in 0 .. i - 1
      BY <1>2
    <3>2. QED
      BY <1>1, <1>3, <1>4, <1>12, <2>2, <3>1 DEF LifeInv, PastSeen
  <2>5. AllKept'
    BY <1>3, <1>4, <1>10, <1>12 DEF LifeInv, AllKept
  <2>6. ASSUME NEW a, NEW n, NEW p, Holds(a, n, p)
        PROVE  Wanted(p)'
    <3>1. Wanted(p) /\ NFree(p) /\ p \in 0 .. nrecords - 1
      BY <1>12, <2>6, EntriesAreFrees DEF LifeInv, MapRight
    <3>2. ~(p \in look.at + 2 .. ahead.at)
      BY <1>1, <3>1 DEF LifeInv, Searching
    <3>3. p <= look.at \/ p = look.at + 1
      BY <1>2, <2>3, <3>1, <3>2
    <3>4. p = look.at + 1 => Final(p)
      <4>1. SUFFICES ASSUME p = look.at + 1 PROVE Final(p)
        OBVIOUS
      <4>2. \A m \in p + 1 .. nrecords - 1 : m \in look.at + 2 .. ahead.at
        BY <1>2, <2>3, <4>1
      <4>3. QED
        BY <1>1, <4>2 DEF LifeInv, Searching, Final
    <3>5. QED
      BY <1>1, <1>3, <1>4, <3>1, <3>3, <3>4 DEF Wanted
  <2>7. MapRight'
    BY <1>4, <1>12, <2>6 DEF LifeInv, MapRight
  <2>8. QED
    BY <2>4, <2>5, <2>7
<1>13. QED
  BY <1>9, <1>11, <1>12

-----------------------------------------------------------------------------
(* The steps that look at a record for a free *)

\* A new entry is the last one of its address.
LEMMA PushedHolds ==
  ASSUME LifeInv, NEW b \in Nat, NEW f, freeMap' = Pushed(b, f)
  PROVE  /\ \A a, n, p : Holds(a, n, p)' =>
              Holds(a, n, p) \/ (a = b /\ p = f.filePos)
         /\ \A a, m, n, p, q : Holds(a, m, p)' /\ Holds(a, n, q)' /\ m < n => Holds(a, m, p)
         /\ \A a, n, p : Holds(a, n, p) => Holds(a, n, p)'
         /\ \E n : Holds(b, n, f.filePos)'
         /\ DOMAIN freeMap' = DOMAIN freeMap \cup {b}
<1>1. /\ DOMAIN freeMap' = DOMAIN freeMap \cup {b}
      /\ \A a \in DOMAIN freeMap : a # b => freeMap'[a] = freeMap[a]
      /\ freeMap'[b] = IF b \in DOMAIN freeMap THEN Append(freeMap[b], f) ELSE <<f>>
  BY DEF Pushed
<1>2. CASE b \notin DOMAIN freeMap
  <2>1. freeMap'[b] = <<f>> /\ Len(freeMap'[b]) = 1 /\ freeMap'[b][1] = f
    BY <1>1, <1>2
  <2>2. \A a, m, n, p, q : Holds(a, m, p)' /\ Holds(a, n, q)' /\ m < n => Holds(a, m, p)
    BY <1>1, <2>1 DEF Holds
  <2>3. QED
    BY <1>1, <1>2, <2>1, <2>2 DEF Holds
<1>3. CASE b \in DOMAIN freeMap
  <2> DEFINE l == Len(freeMap[b])
  <2>1. freeMap[b] \in Seq(Fields) /\ freeMap'[b] = Append(freeMap[b], f)
    BY <1>1, <1>3, LifeAtHand DEF ClockInv, MapAt
  <2>2. /\ l \in Nat /\ Len(freeMap'[b]) = l + 1 /\ freeMap'[b][l + 1] = f
        /\ \A n \in 1 .. l : freeMap'[b][n] = freeMap[b][n]
    BY <2>1
  <2>3. ASSUME NEW a, NEW n, NEW p, Holds(a, n, p)'
        PROVE  Holds(a, n, p) \/ (a = b /\ p = f.filePos /\ n = l + 1)
    <3>1. a \in DOMAIN freeMap' /\ n \in 1 .. Len(freeMap'[a]) /\ p = freeMap'[a][n].filePos
      BY <2>3 DEF Holds
    <3>2. CASE a # b
      BY <1>1, <3>1, <3>2 DEF Holds
    <3>3. CASE a = b /\ n \in 1 .. l
      BY <1>3, <2>2, <3>1, <3>3 DEF Holds
    <3>4. CASE a = b /\ n = l + 1
      BY <2>2, <3>1, <3>4 DEF Holds
    <3>5. QED
      BY <2>2, <3>1, <3>2, <3>3, <3>4
  <2>4. ASSUME NEW a, NEW n, NEW p, Holds(a, n, p) PROVE Holds(a, n, p)'
    <3>1. CASE a # b
      BY <1>1, <2>4, <3>1 DEF Holds
    <3>2. CASE a = b
      BY <1>1, <2>2, <2>4, <3>2 DEF Holds
    <3>3. QED
      BY <3>1, <3>2
  <2>5. \E n : Holds(b, n, f.filePos)'
    BY <2>2, <1>1 DEF Holds
  <2>6. ASSUME NEW a, NEW m, NEW n, NEW p, NEW q, Holds(a, m, p)', Holds(a, n, q)', m < n
        PROVE  Holds(a, m, p)
    <3>1. SUFFICES ASSUME a = b, m = l + 1 PROVE FALSE
      BY <2>3, <2>6
    <3>2. n \in 1 .. l + 1
      BY <2>2, <2>6, <3>1 DEF Holds
    <3>3. QED
      BY <2>2, <2>6, <3>1, <3>2
  <2>7. QED
    BY <1>1, <2>3, <2>4, <2>5, <2>6
<1>4. QED
  BY <1>2, <1>3

\* The cursor at the record a step looks at, and what it may do there: go on,
\* find the free, or keep one of another address.
Met == IF pc = "life" THEN Cursor(look.at + 1, look.offset) ELSE Advanced(ahead)

GoesOn ==
  ~NFree(Met.at) /\ pc' = "search" /\ UNCHANGED <<LifeTime, look, freeMap>>

FindsIt ==
  /\ Frees(Met.at, Rec(i).addr) /\ pc' = "fill"
  /\ LifeTime' = TrueTime(Met.at) - TrueTime(i)
  /\ look'.at = Met.at /\ UNCHANGED freeMap

KeepsIt ==
  /\ NFree(Met.at) /\ Rec(Met.at).addr # Rec(i).addr /\ pc' = "search"
  /\ freeMap' = Pushed(Rec(Met.at).addr, FreeRecord(Met))
  /\ look' = look \/ look'.at = Met.at
  /\ UNCHANGED LifeTime

LEMMA MetFacts ==
  ASSUME LifeInv, BeginSearch \/ SearchTurn
  PROVE  /\ pc \in {"life", "search"} /\ (pc = "life" => Missing)
         /\ i \in 0 .. nrecords - 1
         /\ Met.at \in 0 .. nrecords - 1 /\ Met.at = Seen + 1 /\ look.at + 1 <= Met.at
         /\ First \in {i, i + 1} /\ Past = i
         /\ UNCHANGED <<trace, i, tree>>
         /\ GoesOn \/ FindsIt \/ KeepsIt
         /\ First' = i + 1 /\ Past' = (IF pc' = "fill" THEN i + 1 ELSE i) /\ Seen' = Met.at
         /\ pc' = "search" => ahead'.at = Met.at
<1>1. /\ Given /\ ClockInv /\ nrecords \in Nat /\ i \in 0 .. nrecords - 1
      /\ look.at \in Nat /\ TCorr = TrueTime(i)
      /\ pc \in {"life", "search"} /\ (pc = "life" => Missing)
      /\ UNCHANGED <<trace, i, tree>> /\ ahead' = Met
      /\ (pc = "search" => ahead.at \in Nat /\ look.at <= ahead.at)
  BY LifeAtHand DEF BeginSearch, SearchTurn, Busy, Search, Met
<1>2. /\ Met \in CursorType /\ Met.at < nrecords /\ Met.offset = OverheadBefore(Met.at)
      /\ Met.at = Seen + 1
  <2>1. CASE BeginSearch
    <3>1. pc = "life"
      BY <2>1 DEF BeginSearch
    <3>2. QED
      BY <1>1, <2>1, <3>1, StartsRight DEF Met, Seen
  <2>2. CASE SearchTurn
    <3>1. pc = "search"
      BY <2>2 DEF SearchTurn
    <3>2. QED
      BY <1>1, <2>2, <3>1, GoesOnRight DEF Met, Seen
  <2>3. QED
    BY <2>1, <2>2
<1>3. Met.at \in 0 .. nrecords - 1 /\ look.at + 1 <= Met.at
  BY <1>1, <1>2 DEF CursorType, Seen
<1>4. /\ Corrected(Met) = TrueTime(Met.at) /\ LastFree(Met).at = Met.at
      /\ Signed(TrueTime(Met.at) - TrueTime(i)) = TrueTime(Met.at) - TrueTime(i)
  BY <1>1, <1>2, <1>3, MetRight, Compared
<1>5. GoesOn \/ FindsIt \/ KeepsIt
  <2>1. CASE BeginSearch
    <3>1. Met = Cursor(look.at + 1, look.offset)
      BY <2>1 DEF BeginSearch, Met
    <3>2. QED
      BY <1>1, <1>3, <1>4, <2>1, <3>1
      DEF BeginSearch, Found, GoesOn, FindsIt, KeepsIt, NFree, Frees
  <2>2. CASE SearchTurn
    <3>1. Met = Advanced(ahead)
      BY <2>2 DEF SearchTurn, Met
    <3>2. QED
      BY <1>1, <1>3, <1>4, <2>2, <3>1
      DEF SearchTurn, Found, GoesOn, FindsIt, KeepsIt, NFree, Frees
  <2>3. QED
    BY <2>1, <2>2
<1>6. First \in {i, i + 1} /\ Past = i
  BY <1>1 DEF First, Past
<1>7. pc' \in {"search", "fill"} /\ (pc' = "fill" => look'.at = Met.at)
  BY <1>5 DEF GoesOn, FindsIt, KeepsIt
<1>8. First' = i + 1 /\ Past' = (IF pc' = "fill" THEN i + 1 ELSE i) /\ Seen' = Met.at
  BY <1>1, <1>7 DEF First, Past, Seen
<1>9. QED
  BY <1>1, <1>2, <1>3, <1>5, <1>6, <1>8

\* What a step that meets a record knows of the frees that were met before.
LEMMA MetBefore ==
  ASSUME LifeInv, Balanced, BeginSearch \/ SearchTurn
  PROVE  /\ Owned(i) /\ Tracked(i) => FirstFree(i) >= Met.at /\ FirstFree(i) \in Nat
         /\ Short => \A a, n, p : Holds(a, n, p) =>
              /\ p < Met.at \/ (p = Met.at /\ Final(p))
              /\ Final(p) \/ \E k \in i + 1 .. nrecords - 1 : Owned(k) /\ FirstFree(k) = p
<1>1. /\ pc \in {"life", "search"} /\ (pc = "life" => Missing) /\ i \in 0 .. nrecords - 1
      /\ Met.at \in 0 .. nrecords - 1 /\ Met.at = Seen + 1 /\ look.at + 1 <= Met.at
      /\ First \in {i, i + 1}
  BY MetFacts
<1>2. Given /\ nrecords \in Nat /\ look.at \in Nat /\ Seen \in Int
      /\ (pc = "search" => ahead.at \in Nat)
  BY <1>1, LifeAtHand DEF Seen
<1>3. ASSUME Owned(i), Tracked(i)
      PROVE  FirstFree(i) >= Met.at /\ FirstFree(i) \in Nat
  <2>1. FirstFree(i) \in Nat
    BY <1>2, <1>3, FreeIsLater
  <2>2. FirstFree(i) > Seen
    <3>1. CASE pc = "life"
      BY <1>1, <1>3, <3>1, NotYetMet DEF Seen
    <3>2. CASE pc = "search"
      BY <1>3, <3>2 DEF LifeInv, Searching, Seen
    <3>3. QED
      BY <1>1, <3>1, <3>2
  <2>3. QED
    BY <1>1, <1>2, <2>1, <2>2
<1>4. ASSUME Short, NEW a, NEW n, NEW p, Holds(a, n, p)
      PROVE  /\ p < Met.at \/ (p = Met.at /\ Final(p))
             /\ Final(p) \/ \E k \in i + 1 .. nrecords - 1 : Owned(k) /\ FirstFree(k) = p
  <2>1. Wanted(p) /\ p \in Nat /\ Rec(p).addr = a
    BY <1>4, EntriesAreFrees DEF LifeInv, MapRight
  <2>2. p < Met.at \/ (p = Met.at /\ Final(p))
    BY <1>1, <1>2, <2>1 DEF Wanted
  <2>3. ASSUME NEW k \in First .. nrecords - 1, Owned(k), FirstFree(k) = p
        PROVE  k \in i + 1 .. nrecords - 1
    <3>1. CASE pc = "search"
      BY <3>1 DEF First
    <3>2. CASE pc = "life"
      <4>1. Rec(k).addr = a /\ a \in DOMAIN freeMap
        BY <1>2, <1>4, <2>1, <2>3, Pairs DEF Holds
      <4>2. k # i
        BY <1>1, <3>2, <4>1 DEF Missing
      <4>3. QED
        BY <1>1, <1>2, <3>2, <4>2 DEF First
    <3>3. QED
      BY <1>1, <3>1, <3>2
  <2>4. QED
    BY <2>1, <2>2, <2>3 DEF Wanted
<1>5. QED
  BY <1>3, <1>4

LEMMA MetLife ==
  ASSUME LifeInv, Balanced, BeginSearch \/ SearchTurn
  PROVE  /\ Searching' /\ Kept' /\ Results'
         /\ Short => PastSeen' /\ AllKept' /\ MapRight'
<1>0. PICK c : c = Met.at
  OBVIOUS
<1>1. /\ pc \in {"life", "search"} /\ (pc = "life" => Missing) /\ i \in 0 .. nrecords - 1
      /\ c \in 0 .. nrecords - 1 /\ c = Seen + 1 /\ look.at + 1 <= c
      /\ First \in {i, i + 1} /\ Past = i /\ UNCHANGED <<trace, i, tree>>
      /\ GoesOn \/ FindsIt \/ KeepsIt
      /\ First' = i + 1 /\ Past' = (IF pc' = "fill" THEN i + 1 ELSE i) /\ Seen' = c
      /\ pc' = "search" => ahead'.at = c
  BY <1>0, MetFacts
<1>2. /\ Given /\ nrecords \in Nat /\ look.at \in Nat /\ Seen \in Int
  BY <1>1, LifeAtHand DEF Seen
<1>3. /\ Owned(i) /\ Tracked(i) => FirstFree(i) >= c /\ FirstFree(i) \in Nat
      /\ Short => \A a, n, p : Holds(a, n, p) =>
           /\ p < c \/ (p = c /\ Final(p))
           /\ Final(p) \/ \E k \in i + 1 .. nrecords - 1 : Owned(k) /\ FirstFree(k) = p
  BY <1>0, MetBefore
<1>4. /\ nrecords' = nrecords
      /\ \A k : /\ Rec(k)' = Rec(k)
                /\ IsFree(k)' <=> IsFree(k)
                /\ Owned(k)' <=> Owned(k)
                /\ NFree(k)' <=> NFree(k)
                /\ Final(k)' <=> Final(k)
                /\ Unique(k)' <=> Unique(k)
                /\ Tracked(k)' <=> Tracked(k)
                /\ FirstFree(k)' = FirstFree(k)
  BY <1>1, LifeStays
\* Whatever it does, an entry stays, and a new one is the last of its address.
<1>5. /\ \A a, n, p : Holds(a, n, p) => Holds(a, n, p)'
      /\ \A a, n, p : Holds(a, n, p)' =>
           Holds(a, n, p) \/ (KeepsIt /\ p = c /\ a = Rec(c).addr)
      /\ \A a, m, n, p, q : Holds(a, m, p)' /\ Holds(a, n, q)' /\ m < n => Holds(a, m, p)
      /\ KeepsIt => \E a, n : a = Rec(c).addr /\ Holds(a, n, c)'
      /\ DOMAIN freeMap \subseteq DOMAIN freeMap'
      /\ KeepsIt => Rec(c).addr \in DOMAIN freeMap'
  <2>1. CASE KeepsIt
    <3>1. PICK b, f : b = Rec(c).addr /\ f = FreeRecord(Met)
      OBVIOUS
    <3>2. b \in Nat /\ f.filePos = c /\ freeMap' = Pushed(b, f)
      <4>1. b \in Nat
        BY <1>1, <1>2, <3>1, Records
      <4>2. QED
        BY <1>0, <2>1, <3>1, <4>1 DEF KeepsIt, FreeRecord
    <3>3. /\ \A a, n, p : Holds(a, n, p)' =>
               Holds(a, n, p) \/ (a = b /\ p = f.filePos)
          /\ \A a, m, n, p, q : Holds(a, m, p)' /\ Holds(a, n, q)' /\ m < n => Holds(a, m, p)
          /\ \A a, n, p : Holds(a, n, p) => Holds(a, n, p)'
          /\ \E n : Holds(b, n, f.filePos)'
          /\ DOMAIN freeMap' = DOMAIN freeMap \cup {b}
      BY <3>2, PushedHolds
    <3>4. QED
      BY <2>1, <3>1, <3>2, <3>3
  <2>2. CASE GoesOn \/ FindsIt
    <3>1. UNCHANGED freeMap
      BY <2>2 DEF GoesOn, FindsIt
    <3>2. \A a, n, p : Holds(a, n, p)' <=> Holds(a, n, p)
      BY <3>1 DEF Holds
    <3>3. ~KeepsIt
      BY <2>2 DEF GoesOn, FindsIt, KeepsIt
    <3>4. QED
      BY <3>1, <3>2, <3>3
  <2>3. QED
    BY <1>1, <2>1, <2>2
\* The free of record i is found only at its place.
<1>6. Owned(i) /\ Tracked(i) /\ FindsIt => FirstFree(i) = c
  BY <1>0, <1>1, <1>2, <1>3, MetIsItsOwn DEF FindsIt
<1>7. Owned(i) /\ Tracked(i) /\ ~FindsIt => FirstFree(i) > c
  <2>1. SUFFICES ASSUME Owned(i), Tracked(i), ~FindsIt PROVE FirstFree(i) # c
    BY <1>1, <1>2, <1>3
  <2>2. NFree(FirstFree(i)) /\ Rec(FirstFree(i)).addr = Rec(i).addr
    BY <1>2, <2>1, Pairs
  <2>3. QED
    BY <1>0, <1>1, <2>1, <2>2 DEF GoesOn, KeepsIt
<1>8. Searching'
  <2>1. pc' = "search" => LifeTime' = -1
    <3>1. LifeTime = -1
      BY <1>1 DEF LifeInv, Searching
    <3>2. QED
      BY <1>1, <3>1 DEF GoesOn, FindsIt, KeepsIt
  <2>2. pc' = "search" => ~FindsIt
    BY DEF FindsIt
  <2>3. pc' \in {"search", "fill"}
    BY <1>1 DEF GoesOn, FindsIt, KeepsIt
  <2>4. pc' = "search" => \A n \in look'.at + 2 .. c : ~NFree(n)
    <3>1. SUFFICES ASSUME pc' = "search", NEW n \in look'.at + 2 .. c PROVE ~NFree(n)
      OBVIOUS
    <3>2. CASE look'.at = c
      BY <1>1, <1>2, <3>2
    <3>3. CASE look' = look /\ n < c
      <4>1. n \in look.at + 2 .. Seen
        BY <1>1, <1>2, <3>3
      <4>2. pc = "search"
        BY <1>1, <1>2, <4>1 DEF Seen
      <4>3. QED
        BY <4>1, <4>2 DEF LifeInv, Searching, Seen
    <3>4. CASE look' = look /\ n = c
      <4>1. CASE GoesOn
        BY <1>0, <3>4, <4>1 DEF GoesOn
      <4>2. CASE KeepsIt
        <5>1. pc = "search"
          BY <1>1, <1>2, <3>4 DEF Seen
        <5>2. SearchTurn
          BY <5>1 DEF BeginSearch
        <5>3. look' = LastFree(Met)
          BY <1>0, <4>2, <5>1, <5>2 DEF SearchTurn, KeepsIt, Met, NFree, Found
        <5>4. look'.at = c
          BY <1>0, <5>3 DEF LastFree
        <5>5. QED
          BY <1>1, <1>2, <3>4, <5>4
      <4>3. QED
        BY <1>1, <2>2, <3>1, <4>1, <4>2
    <3>5. n \in Int /\ n <= c
      BY <1>1, <1>2
    <3>6. look' = look \/ look'.at = c
      BY <1>0, <1>1 DEF GoesOn, FindsIt, KeepsIt
    <3>7. QED
      BY <1>1, <1>2, <3>2, <3>3, <3>4, <3>5, <3>6
  <2>5. ~IsFree(i)
    BY <1>1 DEF LifeInv, Searching, Missing
  <2>6. QED
    BY <1>1, <1>4, <1>7, <2>1, <2>2, <2>3, <2>4, <2>5 DEF Searching
<1>9. Results'
  <2>1. FindsIt => Right(i, LifeTime')
    BY <1>0, <1>6 DEF Right, FindsIt
  <2>2. pc' = "fill" => FindsIt
    BY <1>1 DEF GoesOn, KeepsIt
  <2>3. \A k, life : Filled(k, life)' => Filled(k, life) \/ Right(k, life)
    BY <1>1, <2>1, <2>2 DEF Filled
  <2>4. QED
    BY <1>1, <2>3, ResultsRight
\* If the free of a later allocation is at this record, it is kept.
<1>10. ASSUME NEW k \in i + 1 .. nrecords - 1, Owned(k), FirstFree(k) = c, Short \/ Unique(k)
       PROVE  KeepsIt
  <2>1. NFree(c) /\ Rec(c).addr = Rec(k).addr /\ Rec(c).addr # 0 /\ k # i
    BY <1>1, <1>2, <1>10, Pairs DEF NFree
  <2>2. ~GoesOn
    BY <1>0, <2>1 DEF GoesOn
  <2>3. SUFFICES ASSUME FindsIt PROVE FALSE
    BY <1>1, <2>2
  <2>4. Rec(c).addr = Rec(i).addr
    BY <1>0, <2>3 DEF FindsIt, Frees
  <2>5. Owned(i)
    BY <1>1, <2>1, <2>4 DEF LifeInv, Searching, Missing, Owned
  <2>6. CASE Short
    <3>1. FirstFree(i) = FirstFree(k)
      BY <1>6, <1>10, <2>3, <2>5, <2>6 DEF Tracked
    <3>2. QED
      BY <1>2, <1>10, <2>1, <2>5, <3>1, Pairs
  <2>7. CASE Unique(k)
    BY <1>1, <2>1, <2>4, <2>5, <2>7 DEF Unique, Owned
  <2>8. QED
    BY <1>10, <2>6, <2>7
<1>11. \A k \in i + 1 .. nrecords - 1 :
         /\ k \in First .. nrecords - 1
         /\ Owned(k) /\ FirstFree(k) <= c => FirstFree(k) <= Seen \/ FirstFree(k) = c
  <2>1. \A k \in i + 1 .. nrecords - 1 : k \in First .. nrecords - 1
    BY <1>1, <1>2
  <2>2. ASSUME NEW k, Owned(k), FirstFree(k) <= c PROVE FirstFree(k) <= Seen \/ FirstFree(k) = c
    <3>1. FirstFree(k) \in Nat
      BY <1>2, <2>2, FreeIsLater
    <3>2. QED
      BY <1>1, <1>2, <2>2, <3>1
  <2>3. QED
    BY <2>1, <2>2
<1>12. Kept'
  <2>1. SUFFICES ASSUME NEW k \in i + 1 .. nrecords - 1, Owned(k), Unique(k), FirstFree(k) <= c
                 PROVE  Rec(k).addr \in DOMAIN freeMap'
    BY <1>1, <1>4 DEF Kept
  <2>2. CASE FirstFree(k) <= Seen
    <3>1. Rec(k).addr \in DOMAIN freeMap
      BY <1>11, <2>1, <2>2 DEF LifeInv, Kept
    <3>2. QED
      BY <1>5, <3>1
  <2>3. CASE FirstFree(k) = c
    <3>1. Rec(c).addr = Rec(k).addr
      BY <1>2, <2>1, <2>3, Pairs
    <3>2. QED
      BY <1>5, <1>10, <2>1, <2>3, <3>1
  <2>4. QED
    BY <1>11, <2>1, <2>2, <2>3
<1>13. ASSUME Short PROVE PastSeen' /\ AllKept' /\ MapRight'
  <2>1. PastSeen'
    <3>1. ASSUME NEW m \in 0 .. i - 1, Owned(m)
          PROVE  \/ FirstFree(m) <= look'.at
                 \/ FirstFree(m) = look'.at + 1 /\ Final(FirstFree(m))
      <4>1. FirstFree(m) \in Nat
        BY <1>2, <3>1, FreeIsLater
      <4>2. \/ FirstFree(m) <= look.at
            \/ FirstFree(m) = look.at + 1 /\ Final(FirstFree(m))
        BY <1>1, <1>13, <3>1 DEF LifeInv, PastSeen
      <4>3. look' = look \/ look'.at = c
        BY <1>0, <1>1 DEF GoesOn, FindsIt, KeepsIt
      <4>4. QED
        BY <1>1, <1>2, <4>1, <4>2, <4>3
    <3>2. ASSUME pc' = "fill", Owned(i) PROVE FirstFree(i) <= look'.at
      <4>1. FindsIt
        BY <1>1, <3>2 DEF GoesOn, KeepsIt
      <4>2. look'.at = c /\ FirstFree(i) = c
        BY <1>0, <1>6, <1>13, <3>2, <4>1 DEF FindsIt, Tracked
      <4>3. QED
        BY <1>1, <4>2
    <3>3. \A m \in 0 .. Past' - 1 : m \in 0 .. i - 1 \/ (m = i /\ pc' = "fill")
      BY <1>1, <1>2
    <3>4. QED
      BY <1>1, <1>4, <3>1, <3>2, <3>3 DEF PastSeen
  <2>2. AllKept'
    <3>1. SUFFICES ASSUME NEW k \in i + 1 .. nrecords - 1, Owned(k), FirstFree(k) <= c
                   PROVE  \E a, n, p : a = Rec(k).addr /\ p = FirstFree(k) /\ Holds(a, n, p)'
      BY <1>1, <1>4 DEF AllKept
    <3>2. CASE FirstFree(k) <= Seen
      <4>1. PICK a, n, p : a = Rec(k).addr /\ p = FirstFree(k) /\ Holds(a, n, p)
        BY <1>11, <1>13, <3>1, <3>2 DEF LifeInv, AllKept
      <4>2. QED
        BY <1>5, <4>1
    <3>3. CASE FirstFree(k) = c
      <4>1. Rec(c).addr = Rec(k).addr
        BY <1>2, <3>1, <3>3, Pairs
      <4>2. KeepsIt
        BY <1>10, <1>13, <3>1, <3>3
      <4>3. PICK a, n : a = Rec(c).addr /\ Holds(a, n, c)'
        BY <1>5, <4>2
      <4>4. QED
        BY <3>3, <4>1, <4>3
    <3>4. QED
      BY <1>11, <3>1, <3>2, <3>3
  <2>3. KeepsIt => Final(c) \/ \E k \in i + 1 .. nrecords - 1 : Owned(k) /\ FirstFree(k) = c
    <3>1. SUFFICES ASSUME KeepsIt
                   PROVE  Final(c) \/ \E k \in i + 1 .. nrecords - 1 : Owned(k) /\ FirstFree(k) = c
      OBVIOUS
    <3>2. NFree(c) /\ Rec(c).addr # Rec(i).addr /\ c > look.at
      BY <1>0, <1>1, <1>2, <3>1 DEF KeepsIt
    <3>3. QED
      BY <1>1, <1>13, <3>2, MetIsWanted
  <2>4. ASSUME NEW a, NEW n, NEW p, Holds(a, n, p)'
        PROVE  /\ p <= c
               /\ Final(p) \/ \E k \in i + 1 .. nrecords - 1 : Owned(k) /\ FirstFree(k) = p
    <3>1. CASE Holds(a, n, p)
      <4>1. p \in Nat
        BY <3>1, EntriesAreFrees
      <4>2. QED
        BY <1>1, <1>3, <1>13, <3>1, <4>1
    <3>2. CASE KeepsIt /\ p = c
      BY <1>1, <2>3, <3>2
    <3>3. QED
      BY <1>5, <2>4, <3>1, <3>2
  <2>5. \A p : Wanted(p)' <=> /\ p <= c \/ (p = look'.at + 1 /\ Final(p))
                              /\ Final(p) \/ \E k \in i + 1 .. nrecords - 1 :
                                               Owned(k) /\ FirstFree(k) = p
    BY <1>1, <1>4 DEF Wanted
  <2>6. ASSUME NEW a, NEW m, NEW n, NEW p, NEW q, Holds(a, m, p)', Holds(a, n, q)', m < n
        PROVE  p < q \/ (p = q /\ Final(p))
    <3>1. CASE Holds(a, m, p) /\ Holds(a, n, q)
      BY <1>13, <2>6, <3>1 DEF LifeInv, MapRight
    <3>2. CASE Holds(a, m, p) /\ q = c
      BY <1>3, <1>13, <3>2
    <3>3. Holds(a, m, p)
      BY <1>5, <2>6
    <3>4. QED
      BY <1>5, <2>6, <3>1, <3>2, <3>3
  <2>7. MapRight'
    BY <1>4, <2>4, <2>5, <2>6 DEF MapRight
  <2>8. QED
    BY <2>1, <2>2, <2>7
<1>14. QED
  BY <1>8, <1>9, <1>12, <1>13

LEMMA StepLife == LifeInv /\ [Next]_vars => LifeInv'
<1> SUFFICES ASSUME LifeInv, [Next]_vars PROVE LifeInv'
  OBVIOUS
<1>1. CASE NoLifetime \/ FromMap \/ BeginSearch \/ SearchTurn \/ SearchEnds
  <2>1. ClockInv'
    BY <1>1, StepClocks DEF LifeInv, Next
  <2>2. trace' = trace
    BY <1>1 DEF NoLifetime, FromMap, BeginSearch, SearchTurn, SearchEnds, Search
  <2>3. (Balanced' <=> Balanced) /\ (Short' <=> Short)
    BY <2>2, LifeStays
  <2>4. QED
    BY <1>1, <2>1, <2>3, NoLifetimeLife, FromMapLife, MetLife, SearchEndsLife DEF LifeInv
<1>2. CASE Fill
  BY <1>2, FillLife
<1>3. CASE NextRecord \/ LowTurn \/ LowEnds \/ HighTurn \/ HighEnds
           \/ Finish \/ Stopped \/ UNCHANGED vars
  BY <1>3, QuietLife
<1>4. QED
  BY <1>1, <1>2, <1>3 DEF Next

\* In a trace from which nothing is missing an allocation lives until the first
\* free of its address behind it, wherever the searches for others have met that
\* free and in whatever order; it is without a lifetime only if that free is
\* further away than the look-ahead time: if the trace is over within that time,
\* or if no two calls overlap and the address is not used again.
THEOREM AllocationsLiveUntilFreed == Spec => []LivesUntilFreed
<1>1. LifeInv => LivesUntilFreed
  <2>1. SUFFICES ASSUME LifeInv, Balanced, NEW k \in 1 .. Len(tree), ~IsFree(k - 1),
                        Rec(k - 1).addr # 0, Short \/ (OneThread /\ Unique(k - 1))
                 PROVE  LET life == TrueTime(FirstFree(k - 1)) - TrueTime(k - 1) IN
                        tree[k].LifeTime = life \/ (tree[k].LifeTime = -1 /\ life >= LookAhead)
    BY DEF LivesUntilFreed
  <2>2. Right(k - 1, tree[k].LifeTime)
    BY <2>1 DEF LifeInv, Results, Filled
  <2>3. Len(tree) = i /\ i \in 0 .. nrecords /\ nrecords \in Nat
    BY <2>1, LifeAtHand
  <2>4. Owned(k - 1) /\ Tracked(k - 1)
    BY <2>1, <2>3 DEF Owned, Tracked
  <2>5. QED
    BY <2>2, <2>4 DEF Right
<1>2. QED
  BY InitLife, StepLife, <1>1, PTL DEF Spec

=============================================================================
