--------------------------- MODULE ZlibTraceProofs ---------------------------
(***************************************************************************)
(* Theorems about ZlibTrace, for any threads, lengths of records that fit  *)
(* a bucket, durations of compressions and numbers of calls and forks: no  *)
(* record is lost, the buffer never overflows, the header counts what is   *)
(* in a closed file, and the reader's correction of the times is right.    *)
(*                                                                         *)
(* The model sums up and joins sequences by recursion; SumAppend and       *)
(* JoinedAppend say what that makes of a sequence with one element more,   *)
(* and nothing else is used of them below.  WriterInv is stated of any     *)
(* writer, file and log: the writer has not got the last record of the log *)
(* while that one waits for a compression.                                 *)
(***************************************************************************)
EXTENDS ZlibTrace, NaturalsInduction, WellFoundedInduction, SequenceTheorems, TLAPS

-----------------------------------------------------------------------------
(* The least of a set of numbers, for the inductions below *)

LEMMA LeastNat ==
  ASSUME NEW S, S \subseteq Nat, S # {}
  PROVE  \E x \in S : \A y \in S : x <= y
<1> DEFINE R == OpToRel(<, Nat)
<1>1. PICK x \in S : \A y \in S : ~(<<y, x>> \in R)
  <2>1. IsWellFoundedOn(R, Nat)
    BY NatLessThanWellFounded
  <2> HIDE DEF R
  <2>2. QED
    BY <2>1, WFMin
<1>2. ASSUME NEW y \in S PROVE x <= y
  <2>1. x \in Nat /\ y \in Nat
    OBVIOUS
  <2>2. y < x => <<y, x>> \in R
    BY <2>1 DEF OpToRel
  <2> HIDE DEF R
  <2>3. ~(y < x)
    BY <1>1, <2>2
  <2>4. QED
    BY <2>1, <2>3
<1>3. QED
  BY <1>2

-----------------------------------------------------------------------------
(* Sums and joined rows, which are recursive over a sequence *)

\* The first m elements of f are those of g.
Same(f, g, m) == \A k \in 1 .. m : f[k] = g[k]

\* s sums up the first m elements of f.
Sums(s, f, m) ==
  s = [n \in 0 .. m |-> IF n = 0 THEN 0 ELSE s[n - 1] + f[n]]

LEMMA SumsExist ==
  ASSUME NEW f \in Seq(Nat), NEW m \in 0 .. Len(f)
  PROVE  \E s : Sums(s, f, m)
<1> DEFINE Bad == {k \in 0 .. Len(f) : ~\E s : Sums(s, f, k)}
<1>1. ASSUME Bad # {} PROVE FALSE
  <2>0. Bad \subseteq Nat
    OBVIOUS
  <2>1. PICK k \in Bad : \A j \in Bad : k <= j
    <3> HIDE DEF Bad
    <3>1. QED
      BY <1>1, <2>0, LeastNat
  <2>2. k # 0
    <3>1. Sums([n \in 0 .. 0 |-> 0], f, 0)
      BY DEF Sums
    <3>2. QED
      BY <3>1
  <2>3. k - 1 \in 0 .. Len(f) /\ k - 1 < k /\ k \in Nat
    BY <2>2
  <2>4. PICK s : Sums(s, f, k - 1)
    BY <2>1, <2>3
  <2> DEFINE t == [n \in 0 .. k |-> IF n = k THEN s[k - 1] + f[k] ELSE s[n]]
  <2>5. ASSUME NEW n \in 0 .. k
        PROVE  t[n] = IF n = 0 THEN 0 ELSE t[n - 1] + f[n]
    <3>1. CASE n = k
      BY <3>1, <2>2, <2>3
    <3>2. CASE n # k
      BY <3>2, <2>2, <2>3, <2>4 DEF Sums
    <3>3. QED
      BY <3>1, <3>2
  <2>6. Sums(t, f, k)
    BY <2>5 DEF Sums
  <2>7. QED
    BY <2>6
<1>2. QED
  BY <1>1

\* They depend on nothing but those elements.
LEMMA SumsAgree ==
  ASSUME NEW f, NEW g, NEW i \in Nat, NEW j \in Nat, i <= j,
         Same(f, g, i),
         NEW s, NEW t, Sums(s, f, i), Sums(t, g, j)
  PROVE  s[i] = t[i]
<1> DEFINE Bad == {n \in 0 .. i : s[n] # t[n]}
<1>1. ASSUME Bad # {} PROVE FALSE
  <2>0. Bad \subseteq Nat
    OBVIOUS
  <2>1. PICK k \in Bad : \A n \in Bad : k <= n
    <3> HIDE DEF Bad
    <3>1. QED
      BY <1>1, <2>0, LeastNat
  <2>2. k # 0
    BY DEF Sums
  <2>3. k - 1 \in 0 .. i /\ k - 1 < k /\ k \in 1 .. i /\ k \in 0 .. j
    BY <2>2
  <2>4. s[k - 1] = t[k - 1]
    BY <2>1, <2>3
  <2>5. s[k] = s[k - 1] + f[k] /\ t[k] = t[k - 1] + g[k]
    BY <2>2, <2>3 DEF Sums
  <2>6. QED
    BY <2>3, <2>4, <2>5 DEF Same
<1>2. QED
  BY <1>1

LEMMA SumsNat ==
  ASSUME NEW f \in Seq(Nat), NEW m \in 0 .. Len(f), NEW s, Sums(s, f, m)
  PROVE  \A n \in 0 .. m : s[n] \in Nat
<1> DEFINE Bad == {n \in 0 .. m : s[n] \notin Nat}
<1>1. ASSUME Bad # {} PROVE FALSE
  <2>0. Bad \subseteq Nat
    OBVIOUS
  <2>1. PICK k \in Bad : \A n \in Bad : k <= n
    <3> HIDE DEF Bad
    <3>1. QED
      BY <1>1, <2>0, LeastNat
  <2>2. k # 0
    BY DEF Sums
  <2>3. k - 1 \in 0 .. m /\ k - 1 < k /\ k \in 1 .. Len(f)
    BY <2>2
  <2>4. s[k - 1] \in Nat /\ f[k] \in Nat
    BY <2>1, <2>3
  <2>5. s[k] = s[k - 1] + f[k]
    BY <2>2, <2>3 DEF Sums
  <2>6. QED
    BY <2>4, <2>5
<1>2. QED
  BY <1>1

LEMMA SumOfIs ==
  ASSUME NEW f \in Seq(Nat)
  PROVE  \E s : Sums(s, f, Len(f)) /\ SumOf(f) = s[Len(f)]
<1> DEFINE s == CHOOSE s : Sums(s, f, Len(f))
<1>1. Sums(s, f, Len(f))
  BY SumsExist
<1>2. SumOf(f) = s[Len(f)]
  BY DEF SumOf, Sums
<1>3. QED
  BY <1>1, <1>2

LEMMA SumEmpty == SumOf(<<>>) = 0
<1>1. <<>> \in Seq(Nat) /\ Len(<<>>) = 0
  OBVIOUS
<1>2. PICK s : Sums(s, <<>>, 0) /\ SumOf(<<>>) = s[0]
  BY <1>1, SumOfIs
<1>3. QED
  BY <1>2 DEF Sums

LEMMA SumNat ==
  ASSUME NEW f \in Seq(Nat)
  PROVE  SumOf(f) \in Nat
BY SumOfIs, SumsNat

LEMMA SumAppend ==
  ASSUME NEW f \in Seq(Nat), NEW x \in Nat
  PROVE  SumOf(Append(f, x)) = SumOf(f) + x
<1> DEFINE g == Append(f, x)
           l == Len(f)
<1>1. g \in Seq(Nat) /\ l \in Nat /\ Len(g) = l + 1 /\ g[l + 1] = x
      /\ \A k \in 1 .. l : f[k] = g[k]
  OBVIOUS
<1>2. PICK s : Sums(s, f, l) /\ SumOf(f) = s[l]
  BY SumOfIs
<1> HIDE DEF g
<1>3. PICK t : Sums(t, g, l + 1) /\ SumOf(g) = t[l + 1]
  BY <1>1, SumOfIs
<1> HIDE DEF l
<1>4. s[l] = t[l]
  <2>1. l <= l + 1 /\ l + 1 \in Nat /\ l \in Nat
    BY <1>1
  <2>2. Same(f, g, l)
    BY <1>1 DEF Same
  <2>3. Sums(s, f, l) /\ Sums(t, g, l + 1)
    BY <1>2, <1>3
  <2>4. QED
    BY <2>1, <2>2, <2>3, SumsAgree
<1>5. t[l + 1] = t[l] + g[l + 1]
  BY <1>1, <1>3 DEF Sums
<1>6. QED
  BY <1>1, <1>2, <1>3, <1>4, <1>5 DEF g

\* The same of rows.
Cat(a, b) == a \o b
Rows(s, f, m) ==
  s = [n \in 0 .. m |-> IF n = 0 THEN <<>> ELSE Cat(s[n - 1], f[n])]

LEMMA RowsExist ==
  ASSUME NEW V, NEW f \in Seq(V), NEW m \in 0 .. Len(f)
  PROVE  \E s : Rows(s, f, m)
<1> DEFINE Bad == {k \in 0 .. Len(f) : ~\E s : Rows(s, f, k)}
<1>1. ASSUME Bad # {} PROVE FALSE
  <2>0. Bad \subseteq Nat
    OBVIOUS
  <2>1. PICK k \in Bad : \A j \in Bad : k <= j
    <3> HIDE DEF Bad
    <3>1. QED
      BY <1>1, <2>0, LeastNat
  <2>2. k # 0
    <3>1. Rows([n \in 0 .. 0 |-> <<>>], f, 0)
      BY DEF Rows
    <3>2. QED
      BY <3>1
  <2>3. k - 1 \in 0 .. Len(f) /\ k - 1 < k /\ k \in Nat
    BY <2>2
  <2>4. PICK s : Rows(s, f, k - 1)
    BY <2>1, <2>3
  <2> DEFINE t == [n \in 0 .. k |-> IF n = k THEN Cat(s[k - 1], f[k]) ELSE s[n]]
  <2>5. ASSUME NEW n \in 0 .. k
        PROVE  t[n] = IF n = 0 THEN <<>> ELSE Cat(t[n - 1], f[n])
    <3>1. CASE n = k
      BY <3>1, <2>2, <2>3
    <3>2. CASE n # k
      BY <3>2, <2>2, <2>3, <2>4 DEF Rows
    <3>3. QED
      BY <3>1, <3>2
  <2>6. Rows(t, f, k)
    BY <2>5 DEF Rows
  <2>7. QED
    BY <2>6
<1>2. QED
  BY <1>1

LEMMA RowsAgree ==
  ASSUME NEW f, NEW g, NEW i \in Nat, NEW j \in Nat, i <= j,
         Same(f, g, i),
         NEW s, NEW t, Rows(s, f, i), Rows(t, g, j)
  PROVE  s[i] = t[i]
<1> DEFINE Bad == {n \in 0 .. i : s[n] # t[n]}
<1>1. ASSUME Bad # {} PROVE FALSE
  <2>0. Bad \subseteq Nat
    OBVIOUS
  <2>1. PICK k \in Bad : \A n \in Bad : k <= n
    <3> HIDE DEF Bad
    <3>1. QED
      BY <1>1, <2>0, LeastNat
  <2>2. k # 0
    BY DEF Rows
  <2>3. k - 1 \in 0 .. i /\ k - 1 < k /\ k \in 1 .. i /\ k \in 0 .. j
    BY <2>2
  <2>4. s[k - 1] = t[k - 1]
    BY <2>1, <2>3
  <2>5. s[k] = Cat(s[k - 1], f[k]) /\ t[k] = Cat(t[k - 1], g[k])
    BY <2>2, <2>3 DEF Rows
  <2>6. QED
    BY <2>3, <2>4, <2>5 DEF Same
<1>2. QED
  BY <1>1

LEMMA RowsInSeq ==
  ASSUME NEW V, NEW f \in Seq(Seq(V)), NEW m \in 0 .. Len(f), NEW s, Rows(s, f, m)
  PROVE  \A n \in 0 .. m : s[n] \in Seq(V)
<1> DEFINE Bad == {n \in 0 .. m : s[n] \notin Seq(V)}
<1>1. ASSUME Bad # {} PROVE FALSE
  <2>0. Bad \subseteq Nat
    OBVIOUS
  <2>1. PICK k \in Bad : \A n \in Bad : k <= n
    <3> HIDE DEF Bad
    <3>1. QED
      BY <1>1, <2>0, LeastNat
  <2>2. k # 0
    BY DEF Rows
  <2>3. k - 1 \in 0 .. m /\ k - 1 < k /\ k \in 1 .. Len(f)
    BY <2>2
  <2>4. s[k - 1] \in Seq(V) /\ f[k] \in Seq(V)
    BY <2>1, <2>3
  <2>5. s[k] = Cat(s[k - 1], f[k])
    BY <2>2, <2>3 DEF Rows
  <2>6. \A a, b \in Seq(V) : Cat(a, b) \in Seq(V)
    BY DEF Cat
  <2>7. QED
    BY <2>4, <2>5, <2>6
<1>2. QED
  BY <1>1

LEMMA JoinedIs ==
  ASSUME NEW V, NEW f \in Seq(V)
  PROVE  \E s : Rows(s, f, Len(f)) /\ Joined(f) = s[Len(f)]
<1> DEFINE s == CHOOSE s : Rows(s, f, Len(f))
<1>1. Rows(s, f, Len(f))
  BY RowsExist
<1>2. Joined(f) = s[Len(f)]
  BY DEF Joined, Rows, Cat
<1>3. QED
  BY <1>1, <1>2

LEMMA JoinedEmpty == Joined(<<>>) = <<>>
<1>1. <<>> \in Seq(Nat) /\ Len(<<>>) = 0
  OBVIOUS
<1>2. PICK s : Rows(s, <<>>, 0) /\ Joined(<<>>) = s[0]
  BY <1>1, JoinedIs
<1>3. QED
  BY <1>2 DEF Rows

LEMMA JoinedInSeq ==
  ASSUME NEW V, NEW f \in Seq(Seq(V))
  PROVE  Joined(f) \in Seq(V)
<1>1. PICK s : Rows(s, f, Len(f)) /\ Joined(f) = s[Len(f)]
  BY JoinedIs
<1>2. QED
  BY <1>1, RowsInSeq

LEMMA JoinedAppend ==
  ASSUME NEW V, NEW f \in Seq(V), NEW x \in V
  PROVE  Joined(Append(f, x)) = Joined(f) \o x
<1> DEFINE g == Append(f, x)
           l == Len(f)
<1>1. g \in Seq(V) /\ l \in Nat /\ Len(g) = l + 1 /\ g[l + 1] = x
      /\ \A k \in 1 .. l : f[k] = g[k]
  OBVIOUS
<1>2. PICK s : Rows(s, f, l) /\ Joined(f) = s[l]
  BY JoinedIs
<1> HIDE DEF g
<1>3. PICK t : Rows(t, g, l + 1) /\ Joined(g) = t[l + 1]
  BY <1>1, JoinedIs
<1> HIDE DEF l
<1>4. s[l] = t[l]
  <2>1. l <= l + 1 /\ l + 1 \in Nat /\ l \in Nat
    BY <1>1
  <2>2. Same(f, g, l)
    BY <1>1 DEF Same
  <2>3. Rows(s, f, l) /\ Rows(t, g, l + 1)
    BY <1>2, <1>3
  <2>4. QED
    BY <2>1, <2>2, <2>3, RowsAgree
<1>5. t[l + 1] = Cat(t[l], g[l + 1])
  BY <1>1, <1>3 DEF Rows
<1>6. QED
  BY <1>1, <1>2, <1>3, <1>4, <1>5 DEF g, Cat

-----------------------------------------------------------------------------
(* The inductive invariant *)

Stamps == [t : Int, true : Int]
MemRecords == [call : Nat, fake : BOOLEAN, len : Nat,
               tstart : Stamps, treturn : Stamps, tend : Stamps]
FileBuckets == [records : Seq(MemRecords), compressionTime : Nat]
Writers == [buff : Seq(MemRecords), offset : Nat, opened : BOOLEAN,
            nRecords : Nat, numBuckets : Nat]
Logged == Nat \X BOOLEAN
Calls == [op : Ops, id : Nat, stamps : Seq(Stamps)]

\* How far compressions have put a stamp off.
Skew(s) == s.t - s.true

\* The stamps of a record in a bucket before which compressions took off.
Good(r, off) ==
  /\ r.tstart.t <= r.treturn.t /\ r.treturn.t <= r.tend.t
  /\ Skew(r.tstart) <= Skew(r.treturn) /\ Skew(r.treturn) <= Skew(r.tend)
  /\ Skew(r.tend) <= off
  /\ ~r.fake => Skew(r.tend) = off

LengthsOf(records) == [k \in DOMAIN records |-> records[k].len]
RowsOf(out) == [b \in DOMAIN out |-> Entries(out[b].records)]
TimesOf(out) == [b \in DOMAIN out |-> out[b].compressionTime]
Total(out) == SumOf(TimesOf(out))
Before(out, b) == SumOf([a \in 1 .. b - 1 |-> out[a].compressionTime])

\* The parts of the invariant that speak of a writer w, its file out and
\* the records l it has been given.
WriterType(w, out) == w \in Writers /\ out \in Seq(FileBuckets)
Fits(w) ==
  /\ w.offset <= BucketSize
  /\ w.offset = SumOf(LengthsOf(w.buff))
Kept(w, out, l) ==
  /\ l \in Seq(Logged)
  /\ Joined(RowsOf(out)) \o Entries(w.buff) = l
Counted(w, out, l) == w.nRecords = Len(l) /\ w.numBuckets = Len(out)
NoneEmpty(out) == \A b \in 2 .. Len(out) : out[b].records # <<>>
InFile(out) ==
  \A b \in DOMAIN out : \A k \in DOMAIN out[b].records :
    Good(out[b].records[k], Before(out, b))
InBuffer(w, out) == \A k \in DOMAIN w.buff : Good(w.buff[k], Total(out))

WriterInv(w, out, l) ==
  /\ WriterType(w, out)
  /\ Fits(w)
  /\ Kept(w, out, l)
  /\ Counted(w, out, l)
  /\ NoneEmpty(out)
  /\ InFile(out)
  /\ InBuffer(w, out)

\* The buffer is only empty while nothing is in the file.
Filled(w, out) == out # <<>> => w.buff # <<>>

\* The stamps of a call were read one after another before now, and p is the
\* time compressions have taken until now.
CallInv(c, now, p) ==
  /\ c \in Calls
  /\ Len(c.stamps) \in 1 .. 2
  /\ \A k \in DOMAIN c.stamps :
       c.stamps[k].t < now /\ Skew(c.stamps[k]) <= p
  /\ Len(c.stamps) = 2 => /\ c.stamps[1].t < c.stamps[2].t
                          /\ Skew(c.stamps[1]) <= Skew(c.stamps[2])

\* How far a stamp read now is put off.
Lost == IF Compressing THEN paused + (clock - job.since) ELSE paused

CallsInv ==
  /\ clock \in Nat /\ paused \in 0 .. clock
  /\ call \in [Thread -> Calls \cup {None}]
  /\ calls \in 0 .. MaxCalls
  /\ \A t \in Thread : call[t] # None => CallInv(call[t], clock, Lost)

Jobs == [at : {"idle", "compress", "output", "alloc"}, thread : Thread \cup {None},
         waiting : Seq(MemRecords), since : Nat, duration : Nat]

\* Record r waits for a compression; its stamps are right for the file as it
\* is, without the bucket under way.
Waits(r) ==
  /\ job.waiting = <<r>>
  /\ r \in MemRecords /\ r.len <= BucketSize /\ Good(r, Total(file))
  /\ job.thread \in Thread
  /\ r.fake => AtLock(job.thread)

JobInv ==
  /\ job \in Jobs
  /\ job.at \in {"idle", "alloc"} => job.waiting = <<>>
  /\ job.waiting # <<>> => Waits(job.waiting[1])
  /\ job.at = "alloc" => job.thread \in Thread /\ AtLock(job.thread)
  /\ Compressing => paused <= job.since /\ job.since <= clock

Headers == [numRecords : Nat, numBuckets : Nat]

\* A file is open while the process runs and closed over a fork, so the child
\* deletes a writer that writes nothing.
ProcessInv ==
  /\ state \in {"running", "forking", "forked", "closing", "counting",
                "closed", "killed"}
  /\ forks \in 0 .. MaxForks
  /\ state = "forking" => forks < MaxForks
  /\ state \in {"forking", "forked"} => writer.opened = FALSE
  /\ child # None => child \in Writers /\ child.opened = FALSE
  /\ header \in Headers
  /\ state # "closed" => header.numBuckets = 0

\* What the compression under way will have taken is in paused, but not in
\* the file, once it has ended.
Pending == IF Torn THEN job.duration ELSE 0

\* A bucket may be begun, or is under way.
Filling == ThreadsRun \/ job.at \in {"compress", "output"}

\* The last bucket has been written.
Flat ==
  \/ state \in {"counting", "closed"}
  \/ state = "closing" /\ job.at \notin {"compress", "output"}

FileInv ==
  /\ \E l : WriterInv(writer, file, l) /\ log = l \o Entries(job.waiting)
  /\ paused = Total(file) + Pending
  /\ Filling => Filled(writer, file)
  /\ Flat => writer.buff = <<>> /\ job.at \notin {"compress", "output"}
  /\ state \in {"closing", "counting", "closed"} => job.waiting = <<>>
  /\ state \in {"counting", "closed"} => header.numRecords = Len(log)
  /\ state = "closed" => header.numBuckets = Len(file)

Inv == CallsInv /\ JobInv /\ ProcessInv /\ FileInv

-----------------------------------------------------------------------------
(* What is made of the buffer and of the file, when one grows by an element *)

IsTuple(g, n) == g = [k \in 1 .. n |-> g[k]]
Within(g, n, V) == \A k \in 1 .. n : g[k] \in V

LEMMA Mapped ==
  ASSUME NEW V, NEW n \in Nat, NEW g, IsTuple(g, n), Within(g, n, V)
  PROVE  g \in Seq(V) /\ Len(g) = n
<1>1. g \in [1 .. n -> V]
  BY DEF IsTuple, Within
<1>2. g \in Seq(V)
  BY <1>1, SeqDef
<1>3. QED
  BY <1>1, <1>2

\* h is g with one element more.
Growth(V, n, g, h) ==
  /\ n \in Nat
  /\ IsTuple(g, n) /\ IsTuple(h, n + 1)
  /\ Within(g, n, V) /\ Same(h, g, n)
  /\ h[n + 1] \in V

LEMMA Grown ==
  ASSUME NEW V, NEW n, NEW g, NEW h, Growth(V, n, g, h)
  PROVE  g \in Seq(V) /\ Len(g) = n /\ h = Append(g, h[n + 1])
<1> USE DEF Growth
<1> DEFINE x == h[n + 1]
<1>1. g \in Seq(V) /\ Len(g) = n
  BY Mapped
<1> DEFINE a == Append(g, x)
<1>2. a \in Seq(V) /\ Len(a) = n + 1 /\ a[n + 1] = x
      /\ \A k \in 1 .. n : a[k] = g[k]
  BY <1>1
<1>3. a = [k \in 1 .. n + 1 |-> a[k]]
  <2>1. a \in [1 .. n + 1 -> V]
    <3> HIDE DEF a
    <3>1. QED
      BY <1>2, LenProperties
  <2>2. QED
    BY <2>1
<1> HIDE DEF a
<1>4. ASSUME NEW k \in 1 .. n + 1 PROVE a[k] = h[k]
  <2>1. CASE k = n + 1
    BY <1>2, <2>1
  <2>2. CASE k # n + 1
    <3>1. k \in 1 .. n
      BY <2>2
    <3>2. QED
      BY <1>2, <3>1 DEF Same
  <2>3. QED
    BY <2>1, <2>2
<1>5. a = h
  BY <1>3, <1>4 DEF IsTuple
<1>6. QED
  BY <1>1, <1>5 DEF a

LEMMA EntryLogged == \A r \in MemRecords : Entry(r) \in Logged /\ r.len \in Nat
BY DEF MemRecords, Entry, Logged

LEMMA FileBucketFields ==
  \A c \in FileBuckets : c.records \in Seq(MemRecords) /\ c.compressionTime \in Nat
BY DEF FileBuckets

LEMMA LengthsAppend ==
  ASSUME NEW f \in Seq(MemRecords), NEW r \in MemRecords
  PROVE  /\ LengthsOf(f) \in Seq(Nat) /\ Len(LengthsOf(f)) = Len(f)
         /\ LengthsOf(Append(f, r)) = Append(LengthsOf(f), r.len)
         /\ r.len \in Nat
<1>0. \A x \in MemRecords : x.len \in Nat
  BY EntryLogged
<1> DEFINE g == Append(f, r)
<1>1. Len(f) \in Nat /\ \A k \in 1 .. Len(f) : f[k] \in MemRecords
  OBVIOUS
<1>2. DOMAIN f = 1 .. Len(f) /\ DOMAIN g = 1 .. Len(f) + 1 /\ g[Len(f) + 1] = r
      /\ \A k \in 1 .. Len(f) : g[k] = f[k]
  OBVIOUS
<1> HIDE DEF g
<1>3. IsTuple(LengthsOf(f), Len(f)) /\ IsTuple(LengthsOf(g), Len(f) + 1)
  BY <1>1, <1>2 DEF LengthsOf, IsTuple
<1>4. Within(LengthsOf(f), Len(f), Nat) /\ Same(LengthsOf(g), LengthsOf(f), Len(f))
  BY <1>0, <1>1, <1>2 DEF LengthsOf, Within, Same
<1>5. LengthsOf(g)[Len(f) + 1] = r.len /\ r.len \in Nat
  BY <1>0, <1>1, <1>2 DEF LengthsOf
<1>6. Growth(Nat, Len(f), LengthsOf(f), LengthsOf(g))
  BY <1>1, <1>3, <1>4, <1>5 DEF Growth
<1>7. QED
  BY <1>5, <1>6, Grown DEF g

LEMMA EntriesInSeq ==
  ASSUME NEW f \in Seq(MemRecords)
  PROVE  Entries(f) \in Seq(Logged) /\ Len(Entries(f)) = Len(f)
<1>1. Len(f) \in Nat /\ DOMAIN f = 1 .. Len(f)
      /\ \A k \in 1 .. Len(f) : f[k] \in MemRecords
  OBVIOUS
<1>2. IsTuple(Entries(f), Len(f))
  BY <1>1 DEF Entries, IsTuple
<1>3. Within(Entries(f), Len(f), Logged)
  BY <1>1, EntryLogged DEF Entries, Within
<1>4. QED
  BY <1>1, <1>2, <1>3, Mapped

LEMMA EntriesAppend ==
  ASSUME NEW f \in Seq(MemRecords), NEW r \in MemRecords
  PROVE  /\ Entries(f) \in Seq(Logged) /\ Len(Entries(f)) = Len(f)
         /\ Entries(Append(f, r)) = Append(Entries(f), Entry(r))
         /\ Entry(r) \in Logged
<1>0. \A x \in MemRecords : Entry(x) \in Logged
  BY EntryLogged
<1> DEFINE g == Append(f, r)
<1>1. Len(f) \in Nat /\ \A k \in 1 .. Len(f) : f[k] \in MemRecords
  OBVIOUS
<1>2. DOMAIN f = 1 .. Len(f) /\ DOMAIN g = 1 .. Len(f) + 1 /\ g[Len(f) + 1] = r
      /\ \A k \in 1 .. Len(f) : g[k] = f[k]
  OBVIOUS
<1> HIDE DEF g
<1>3. IsTuple(Entries(f), Len(f)) /\ IsTuple(Entries(g), Len(f) + 1)
  BY <1>1, <1>2 DEF Entries, IsTuple
<1>4. Within(Entries(f), Len(f), Logged) /\ Same(Entries(g), Entries(f), Len(f))
  BY <1>0, <1>1, <1>2 DEF Entries, Within, Same
<1>5. Entries(g)[Len(f) + 1] = Entry(r) /\ Entry(r) \in Logged
  BY <1>0, <1>1, <1>2 DEF Entries
<1>6. Growth(Logged, Len(f), Entries(f), Entries(g))
  BY <1>1, <1>3, <1>4, <1>5 DEF Growth
<1>7. QED
  BY <1>5, <1>6, Grown DEF g

LEMMA TimesAppend ==
  ASSUME NEW f \in Seq(FileBuckets), NEW r \in FileBuckets
  PROVE  /\ TimesOf(f) \in Seq(Nat) /\ Len(TimesOf(f)) = Len(f)
         /\ TimesOf(Append(f, r)) = Append(TimesOf(f), r.compressionTime)
         /\ r.compressionTime \in Nat
<1>0. \A x \in FileBuckets : x.compressionTime \in Nat
  BY FileBucketFields
<1> DEFINE g == Append(f, r)
<1>1. Len(f) \in Nat /\ \A k \in 1 .. Len(f) : f[k] \in FileBuckets
  OBVIOUS
<1>2. DOMAIN f = 1 .. Len(f) /\ DOMAIN g = 1 .. Len(f) + 1 /\ g[Len(f) + 1] = r
      /\ \A k \in 1 .. Len(f) : g[k] = f[k]
  OBVIOUS
<1> HIDE DEF g
<1>3. IsTuple(TimesOf(f), Len(f)) /\ IsTuple(TimesOf(g), Len(f) + 1)
  BY <1>1, <1>2 DEF TimesOf, IsTuple
<1>4. Within(TimesOf(f), Len(f), Nat) /\ Same(TimesOf(g), TimesOf(f), Len(f))
  BY <1>0, <1>1, <1>2 DEF TimesOf, Within, Same
<1>5. TimesOf(g)[Len(f) + 1] = r.compressionTime /\ r.compressionTime \in Nat
  BY <1>0, <1>1, <1>2 DEF TimesOf
<1>6. Growth(Nat, Len(f), TimesOf(f), TimesOf(g))
  BY <1>1, <1>3, <1>4, <1>5 DEF Growth
<1>7. QED
  BY <1>5, <1>6, Grown DEF g

LEMMA RowsAppend ==
  ASSUME NEW f \in Seq(FileBuckets), NEW r \in FileBuckets
  PROVE  /\ RowsOf(f) \in Seq(Seq(Logged)) /\ Len(RowsOf(f)) = Len(f)
         /\ RowsOf(Append(f, r)) = Append(RowsOf(f), Entries(r.records))
         /\ Entries(r.records) \in Seq(Logged)
<1>0. \A x \in FileBuckets : Entries(x.records) \in Seq(Logged)
BY FileBucketFields, EntriesInSeq
<1> DEFINE g == Append(f, r)
<1>1. Len(f) \in Nat /\ \A k \in 1 .. Len(f) : f[k] \in FileBuckets
  OBVIOUS
<1>2. DOMAIN f = 1 .. Len(f) /\ DOMAIN g = 1 .. Len(f) + 1 /\ g[Len(f) + 1] = r
      /\ \A k \in 1 .. Len(f) : g[k] = f[k]
  OBVIOUS
<1> HIDE DEF g
<1>3. IsTuple(RowsOf(f), Len(f)) /\ IsTuple(RowsOf(g), Len(f) + 1)
  BY <1>1, <1>2 DEF RowsOf, IsTuple
<1>4. Within(RowsOf(f), Len(f), Seq(Logged)) /\ Same(RowsOf(g), RowsOf(f), Len(f))
  BY <1>0, <1>1, <1>2 DEF RowsOf, Within, Same
<1>5. RowsOf(g)[Len(f) + 1] = Entries(r.records) /\ Entries(r.records) \in Seq(Logged)
  BY <1>0, <1>1, <1>2 DEF RowsOf
<1>6. Growth(Seq(Logged), Len(f), RowsOf(f), RowsOf(g))
  BY <1>1, <1>3, <1>4, <1>5 DEF Growth
<1>7. QED
  BY <1>5, <1>6, Grown DEF g

LEMMA TotalAppend ==
  ASSUME NEW f \in Seq(FileBuckets), NEW c \in FileBuckets
  PROVE  /\ Total(f) \in Nat
         /\ Total(Append(f, c)) = Total(f) + c.compressionTime
<1>1. TimesOf(f) \in Seq(Nat) /\ c.compressionTime \in Nat
  BY TimesAppend
<1>2. QED
  BY <1>1, TimesAppend, SumNat, SumAppend DEF Total

\* The last bucket starts at the total of the others, which it leaves alone.
LEMMA BeforeAppend ==
  ASSUME NEW f \in Seq(FileBuckets), NEW c \in FileBuckets
  PROVE  /\ \A b \in 1 .. Len(f) : Before(Append(f, c), b) = Before(f, b)
         /\ Before(Append(f, c), Len(f) + 1) = Total(f)
<1> DEFINE g == Append(f, c)
<1>1. \A k \in 1 .. Len(f) : g[k] = f[k]
  OBVIOUS
<1>2. Len(f) \in Nat /\ DOMAIN f = 1 .. Len(f)
  OBVIOUS
<1> HIDE DEF g
<1>3. ASSUME NEW b \in 1 .. Len(f) + 1
      PROVE  [a \in 1 .. b - 1 |-> g[a].compressionTime]
               = [a \in 1 .. b - 1 |-> f[a].compressionTime]
  <2>1. \A a \in 1 .. b - 1 : g[a] = f[a]
    BY <1>1, <1>2
  <2>2. QED
    BY <2>1
<1>4. Len(f) + 1 - 1 = Len(f)
  BY <1>2
<1>5. \A b \in 1 .. Len(f) : Before(g, b) = Before(f, b)
  <2>1. ASSUME NEW b \in 1 .. Len(f) PROVE Before(g, b) = Before(f, b)
    <3>1. b \in 1 .. Len(f) + 1
      BY <1>2
    <3>2. QED
      BY <1>3, <3>1 DEF Before
  <2>2. QED
    BY <2>1
<1>6. Before(g, Len(f) + 1) = Total(f)
  <2>1. Before(g, Len(f) + 1)
          = SumOf([a \in 1 .. Len(f) + 1 - 1 |-> f[a].compressionTime])
    BY <1>2, <1>3 DEF Before
  <2>2. QED
    BY <1>2, <1>4, <2>1 DEF Total, TimesOf
<1>7. QED
  BY <1>5, <1>6 DEF g

LEMMA JoinedRows ==
  ASSUME NEW f \in Seq(FileBuckets)
  PROVE  Joined(RowsOf(f)) \in Seq(Logged)
<1>1. RowsOf(f) \in Seq(Seq(Logged))
  <2>1. <<>> \in Seq(MemRecords) /\ 0 \in Nat
    OBVIOUS
  <2>2. [records |-> <<>>, compressionTime |-> 0] \in FileBuckets
    BY <2>1 DEF FileBuckets
  <2>3. QED
    BY <2>2, RowsAppend
<1>2. QED
  BY <1>1, JoinedInSeq

-----------------------------------------------------------------------------
(* The writer *)

LEMMA WriterFields ==
  ASSUME NEW w \in Writers
  PROVE  /\ w.buff \in Seq(MemRecords) /\ w.offset \in Nat
         /\ w.nRecords \in Nat /\ w.numBuckets \in Nat
         /\ w.opened \in BOOLEAN
BY DEF Writers

LEMMA PutFields ==
  ASSUME NEW w \in Writers, NEW r \in MemRecords
  PROVE  /\ Put(w, r) \in Writers
         /\ Put(w, r).buff = Append(w.buff, r)
         /\ Put(w, r).offset = w.offset + r.len
         /\ Put(w, r).nRecords = w.nRecords + 1
         /\ Put(w, r).numBuckets = w.numBuckets
         /\ Put(w, r).opened = w.opened
<1>1. Append(w.buff, r) \in Seq(MemRecords) /\ w.offset + r.len \in Nat
      /\ w.nRecords + 1 \in Nat
  <2>1. r.len \in Nat
    BY EntryLogged
  <2> HIDE DEF MemRecords
  <2>2. QED
    BY <2>1, WriterFields
<1> HIDE DEF MemRecords
<1>2. QED
  BY <1>1 DEF Put, Writers

LEMMA EmptiedFields ==
  ASSUME NEW w \in Writers
  PROVE  /\ Emptied(w) \in Writers
         /\ Emptied(w).buff = <<>>
         /\ Emptied(w).offset = 0
         /\ Emptied(w).nRecords = w.nRecords
         /\ Emptied(w).numBuckets = w.numBuckets + 1
         /\ Emptied(w).opened = w.opened
<1>1. <<>> \in Seq(MemRecords) /\ w.numBuckets + 1 \in Nat /\ 0 \in Nat
  BY WriterFields
<1>2. QED
  BY <1>1 DEF Emptied, Writers

LEMMA OpenedFields ==
  ASSUME NEW w \in Writers, NEW b \in BOOLEAN
  PROVE  /\ SetOpened(w, b) \in Writers
         /\ SetOpened(w, b).buff = w.buff
         /\ SetOpened(w, b).offset = w.offset
         /\ SetOpened(w, b).nRecords = w.nRecords
         /\ SetOpened(w, b).numBuckets = w.numBuckets
         /\ SetOpened(w, b).opened = b
BY DEF SetOpened, Writers

LEMMA BucketFields ==
  ASSUME NEW w \in Writers, NEW d \in Nat
  PROVE  /\ Bucket(w, d) \in FileBuckets
         /\ Bucket(w, d).records = w.buff
         /\ Bucket(w, d).compressionTime = d
BY WriterFields DEF Bucket, FileBuckets

\* A record that has room goes behind the others of the buffer.
LEMMA PutLemma ==
  ASSUME NEW w, NEW out, NEW l, WriterInv(w, out, l),
         NEW r \in MemRecords, w.offset + r.len <= BucketSize,
         Good(r, Total(out))
  PROVE  /\ WriterInv(Put(w, r), out, Append(l, Entry(r)))
         /\ Filled(Put(w, r), out)
         /\ Put(w, r).opened = w.opened
<1> DEFINE v == Put(w, r)
<1>1. w \in Writers /\ out \in Seq(FileBuckets) /\ w.buff \in Seq(MemRecords)
      /\ r.len \in Nat /\ w.offset \in Nat
  BY WriterFields, EntryLogged DEF WriterInv, WriterType
<1>2. /\ v \in Writers
      /\ v.buff = Append(w.buff, r)
      /\ v.offset = w.offset + r.len
      /\ v.nRecords = w.nRecords + 1
      /\ v.numBuckets = w.numBuckets
      /\ v.opened = w.opened
  BY <1>1, PutFields
<1> HIDE DEF v
<1>3. WriterType(v, out)
  BY <1>1, <1>2 DEF WriterType
<1>4. Fits(v)
  <2>1. LengthsOf(v.buff) = Append(LengthsOf(w.buff), r.len)
        /\ LengthsOf(w.buff) \in Seq(Nat)
    BY <1>1, <1>2, LengthsAppend
  <2>2. SumOf(LengthsOf(v.buff)) = SumOf(LengthsOf(w.buff)) + r.len
    BY <1>1, <2>1, SumAppend
  <2>3. w.offset = SumOf(LengthsOf(w.buff))
    BY DEF WriterInv, Fits
  <2>4. QED
    BY <1>2, <2>2, <2>3 DEF Fits
<1>5. Kept(v, out, Append(l, Entry(r)))
  <2>1. l \in Seq(Logged) /\ Joined(RowsOf(out)) \o Entries(w.buff) = l
    BY DEF WriterInv, Kept
  <2>2. Entries(v.buff) = Append(Entries(w.buff), Entry(r))
        /\ Entries(w.buff) \in Seq(Logged) /\ Entry(r) \in Logged
    BY <1>1, <1>2, EntriesAppend
  <2>3. Joined(RowsOf(out)) \in Seq(Logged)
    BY <1>1, JoinedRows
  <2>4. \A a, b \in Seq(Logged) : \A x \in Logged :
          a \o Append(b, x) = Append(a \o b, x)
    OBVIOUS
  <2>5. Joined(RowsOf(out)) \o Entries(v.buff) = Append(l, Entry(r))
    BY <2>1, <2>2, <2>3, <2>4
  <2>6. Append(l, Entry(r)) \in Seq(Logged)
    BY <2>1, <2>2
  <2>7. QED
    BY <2>5, <2>6 DEF Kept
<1>6. Counted(v, out, Append(l, Entry(r)))
  <2>1. l \in Seq(Logged) /\ w.nRecords = Len(l) /\ w.numBuckets = Len(out)
    BY DEF WriterInv, Kept, Counted
  <2>2. Entry(r) \in Logged
    BY EntryLogged
  <2>3. Len(Append(l, Entry(r))) = Len(l) + 1
    BY <2>1, <2>2
  <2>4. QED
    BY <1>2, <2>1, <2>3 DEF Counted
<1>7. InBuffer(v, out)
  <2>1. \A k \in DOMAIN w.buff : Good(w.buff[k], Total(out))
    BY DEF WriterInv, InBuffer
  <2>2. ASSUME NEW k \in DOMAIN v.buff PROVE Good(v.buff[k], Total(out))
    <3>1. CASE k = Len(w.buff) + 1
      BY <1>1, <1>2, <3>1
    <3>2. CASE k # Len(w.buff) + 1
      <4>1. k \in DOMAIN w.buff /\ v.buff[k] = w.buff[k]
        BY <1>1, <1>2, <3>2
      <4>2. QED
        BY <2>1, <4>1
    <3>3. QED
      BY <3>1, <3>2
  <2>3. QED
    BY <2>2 DEF InBuffer
<1>8. v.buff # <<>>
  BY <1>1, <1>2
<1>9. NoneEmpty(out) /\ InFile(out)
  BY DEF WriterInv
<1>10. QED
  BY <1>2, <1>3, <1>4, <1>5, <1>6, <1>7, <1>8, <1>9 DEF v, WriterInv, Filled

\* A compression moves the buffer to the end of the file.
LEMMA CompressLemma ==
  ASSUME NEW w, NEW out, NEW l, WriterInv(w, out, l), Filled(w, out),
         NEW d \in Nat
  PROVE  /\ WriterInv(Emptied(w), Append(out, Bucket(w, d)), l)
         /\ Total(Append(out, Bucket(w, d))) = Total(out) + d
<1> DEFINE v == Emptied(w)
           c == Bucket(w, d)
           longer == Append(out, c)
<1>1. w \in Writers /\ out \in Seq(FileBuckets) /\ w.buff \in Seq(MemRecords)
      /\ Len(out) \in Nat /\ w.numBuckets \in Nat
  BY WriterFields DEF WriterInv, WriterType
<1>2. v \in Writers /\ v.buff = <<>> /\ v.offset = 0
      /\ v.nRecords = w.nRecords /\ v.numBuckets = w.numBuckets + 1
  BY <1>1, EmptiedFields
<1>3. c \in FileBuckets /\ c.records = w.buff /\ c.compressionTime = d
  BY <1>1, BucketFields
<1> HIDE DEF v, c
<1>4. /\ longer \in Seq(FileBuckets)
      /\ Len(longer) = Len(out) + 1
      /\ DOMAIN longer = 1 .. Len(out) + 1
      /\ longer[Len(out) + 1] = c
      /\ \A b \in 1 .. Len(out) : longer[b] = out[b]
  BY <1>1, <1>3
<1>5. Total(longer) = Total(out) + d
  BY <1>1, <1>3, TotalAppend
<1>6. /\ \A b \in 1 .. Len(out) : Before(longer, b) = Before(out, b)
      /\ Before(longer, Len(out) + 1) = Total(out)
  BY <1>1, <1>3, BeforeAppend
<1>7. RowsOf(longer) = Append(RowsOf(out), Entries(w.buff))
      /\ RowsOf(out) \in Seq(Seq(Logged)) /\ Entries(w.buff) \in Seq(Logged)
  BY <1>1, <1>3, RowsAppend
<1> HIDE DEF longer
<1>8. WriterType(v, longer)
  BY <1>2, <1>4 DEF WriterType
<1>9. Fits(v)
  <2>1. LengthsOf(<<>>) = <<>>
    BY DEF LengthsOf
  <2>2. QED
    BY <1>2, <2>1, SumEmpty, ZlibTraceAssumption DEF Fits
<1>10. Kept(v, longer, l)
  <2>1. l \in Seq(Logged) /\ Joined(RowsOf(out)) \o Entries(w.buff) = l
    BY DEF WriterInv, Kept
  <2>2. Joined(RowsOf(longer)) = l
    BY <1>7, <2>1, JoinedAppend
  <2>3. Entries(<<>>) = <<>>
    BY DEF Entries
  <2>4. l \o <<>> = l
    BY <2>1
  <2>5. QED
    BY <1>2, <2>1, <2>2, <2>3, <2>4 DEF Kept
<1>11. Counted(v, longer, l)
  BY <1>1, <1>2, <1>4 DEF WriterInv, Counted
<1>12. NoneEmpty(longer)
  <2>1. ASSUME NEW b \in 2 .. Len(longer) PROVE longer[b].records # <<>>
    <3>1. CASE b = Len(out) + 1
      <4>1. out # <<>>
        BY <1>4, <3>1
      <4>2. QED
        BY <1>3, <1>4, <3>1, <4>1 DEF Filled
    <3>2. CASE b # Len(out) + 1
      <4>1. b \in 2 .. Len(out) /\ b \in 1 .. Len(out)
        BY <1>1, <1>4, <3>2
      <4>2. QED
        BY <1>4, <4>1 DEF WriterInv, NoneEmpty
    <3>3. QED
      BY <3>1, <3>2
  <2>2. QED
    BY <2>1 DEF NoneEmpty
<1>13. InFile(longer)
  <2>1. ASSUME NEW b \in DOMAIN longer, NEW k \in DOMAIN longer[b].records
        PROVE  Good(longer[b].records[k], Before(longer, b))
    <3>1. CASE b = Len(out) + 1
      <4>1. longer[b].records = w.buff /\ Before(longer, b) = Total(out)
        BY <1>3, <1>4, <1>6, <3>1
      <4>2. QED
        BY <4>1 DEF WriterInv, InBuffer
    <3>2. CASE b # Len(out) + 1
      <4>1. b \in 1 .. Len(out)
        BY <1>1, <1>4, <3>2
      <4>2. longer[b] = out[b] /\ Before(longer, b) = Before(out, b)
            /\ b \in DOMAIN out
        BY <1>1, <1>4, <1>6, <4>1
      <4>3. QED
        BY <4>2 DEF WriterInv, InFile
    <3>3. QED
      BY <3>1, <3>2
  <2>2. QED
    BY <2>1 DEF InFile
<1>14. InBuffer(v, longer)
  BY <1>2 DEF InBuffer
<1>15. QED
  BY <1>5, <1>8, <1>9, <1>10, <1>11, <1>12, <1>13, <1>14 DEF v, c, longer, WriterInv

LEMMA MemRecordFields ==
  \A r \in MemRecords :
    /\ r.call \in Nat /\ r.len \in Nat
    /\ r.tstart \in Stamps /\ r.treturn \in Stamps /\ r.tend \in Stamps
BY DEF MemRecords

LEMMA StampFields ==
  \A s \in Stamps :
    s.t \in Int /\ s.true \in Int /\ Skew(s) \in Int
BY DEF Stamps, Skew

\* The record that waited for a compression is as good as it was before.
LEMMA LaterLemma ==
  ASSUME NEW s \in Stamps, NEW d \in Nat
  PROVE  /\ Later(s, d) \in Stamps
         /\ Later(s, d).t = s.t + d
         /\ Skew(Later(s, d)) = Skew(s) + d
<1>1. s.t \in Int /\ s.true \in Int
  BY StampFields
<1>2. Later(s, d) = [t |-> s.t + d, true |-> s.true]
  BY DEF Later, Stamp
<1>3. Later(s, d) \in Stamps
  BY <1>1, <1>2 DEF Stamps
<1>4. Later(s, d).t = s.t + d /\ Later(s, d).true = s.true
  BY <1>2
<1>5. QED
  BY <1>1, <1>3, <1>4 DEF Skew

LEMMA ShiftedLemma ==
  ASSUME NEW r \in MemRecords, NEW d \in Nat, NEW off \in Nat, Good(r, off)
  PROVE  /\ Shifted(r, d) \in MemRecords
         /\ Good(Shifted(r, d), off + d)
         /\ Shifted(r, d).len = r.len
         /\ Entry(Shifted(r, d)) = Entry(r)
<1> DEFINE x == Later(r.tstart, d)
           y == Later(r.treturn, d)
           z == Later(r.tend, d)
           s == Shifted(r, d)
<1>1. s = [call |-> r.call, fake |-> r.fake, len |-> r.len,
           tstart |-> x, treturn |-> y, tend |-> z]
  BY DEF Shifted, Record
<1>2. x \in Stamps /\ y \in Stamps /\ z \in Stamps
  BY MemRecordFields, LaterLemma
<1>3. x.t = r.tstart.t + d /\ y.t = r.treturn.t + d /\ z.t = r.tend.t + d
  BY MemRecordFields, LaterLemma
<1>4. Skew(x) = Skew(r.tstart) + d /\ Skew(y) = Skew(r.treturn) + d
      /\ Skew(z) = Skew(r.tend) + d
  BY MemRecordFields, LaterLemma
<1> HIDE DEF x, y, z, s
<1>5. s \in MemRecords
  BY <1>1, <1>2 DEF MemRecords
<1>6. s.tstart = x /\ s.treturn = y /\ s.tend = z /\ s.len = r.len
  BY <1>1
<1>7. s.fake = r.fake /\ s.call = r.call
  BY <1>1
<1>8. Entry(s) = Entry(r)
  BY <1>7, Zenon DEF Entry
<1>9. /\ r.tstart.t \in Int /\ r.treturn.t \in Int /\ r.tend.t \in Int
      /\ Skew(r.tstart) \in Int /\ Skew(r.treturn) \in Int /\ Skew(r.tend) \in Int
  BY MemRecordFields, StampFields
<1>10. ~s.fake => Skew(s.tend) = off + d
  <2>1. ~r.fake => Skew(r.tend) + d = off + d
    BY DEF Good
  <2>2. ~s.fake => ~r.fake
    BY <1>7
  <2>3. Skew(s.tend) = Skew(r.tend) + d
    BY <1>4, <1>6
  <2>4. QED
    BY <2>1, <2>2, <2>3
<1>11. /\ x.t <= y.t /\ y.t <= z.t
       /\ Skew(x) <= Skew(y) /\ Skew(y) <= Skew(z) /\ Skew(z) <= off + d
  BY <1>3, <1>4, <1>9 DEF Good
<1>12. Good(s, off + d)
  BY <1>6, <1>10, <1>11 DEF Good
<1>13. QED
  BY <1>5, <1>6, <1>8, <1>12 DEF s

-----------------------------------------------------------------------------
(* Time, and the job of the lock's holder *)

LEMMA StampLemma ==
  ASSUME NEW c \in Nat, NEW real \in Int
  PROVE  /\ Stamp(c, real) \in Stamps /\ Stamp(c, real).t = c
         /\ Skew(Stamp(c, real)) = c - real
<1> DEFINE s == Stamp(c, real)
<1>1. s = [t |-> c, true |-> real]
  BY DEF Stamp
<1> HIDE DEF s
<1>2. s \in Stamps
  BY <1>1 DEF Stamps
<1>3. s.t = c /\ s.true = real
  BY <1>1
<1>4. QED
  BY <1>2, <1>3 DEF Skew, s

LEMMA NowLemma ==
  ASSUME CallsInv, JobInv
  PROVE  /\ NowStamp \in Stamps /\ NowStamp.t = clock
         /\ Skew(NowStamp) = Lost
         /\ clock \in Nat /\ paused \in Nat /\ Lost \in Nat
         /\ ~Compressing => Lost = paused
<1>1. clock \in Nat /\ paused \in Nat
  BY DEF CallsInv
<1>2. Compressing => job.since \in Nat /\ paused <= job.since /\ job.since <= clock
  BY DEF JobInv, Jobs
<1> DEFINE now == (IF Compressing THEN job.since ELSE clock) - paused
<1>3. now \in Int /\ clock - now = Lost /\ Lost \in Nat
      /\ (~Compressing => Lost = paused)
  <2>1. CASE Compressing
    BY <1>1, <1>2, <2>1 DEF Lost
  <2>2. CASE ~Compressing
    BY <1>1, <2>2 DEF Lost
  <2>3. QED
    BY <2>1, <2>2
<1>4. NowStamp = Stamp(clock, now)
  BY DEF NowStamp
<1> HIDE DEF now
<1>5. Stamp(clock, now) \in Stamps /\ Stamp(clock, now).t = clock
      /\ Skew(Stamp(clock, now)) = clock - now
  BY <1>1, <1>3, StampLemma
<1>6. QED
  BY <1>1, <1>3, <1>4, <1>5

LEMMA LostPlain ==
  ASSUME job'.at # "compress"
  PROVE  Lost' = paused'
<1>1. ~Compressing'
  BY DEF Compressing
<1>2. QED
  BY <1>1, Zenon DEF Lost

\* As time goes on, stamps are put off further, if at all.
LEMMA TimeGoesOn ==
  ASSUME CallsInv, JobInv, UNCHANGED <<paused, job>>,
         clock' \in Nat, clock <= clock'
  PROVE  /\ Lost \in Nat /\ Lost' \in Nat /\ Lost <= Lost'
         /\ paused' \in 0 .. clock'
<1>1. clock \in Nat /\ paused \in 0 .. clock
  BY DEF CallsInv
<1>2. Compressing => job.since \in Nat /\ paused <= job.since /\ job.since <= clock
  BY DEF JobInv, Jobs
<1>3. paused' \in 0 .. clock'
  BY <1>1
<1>4. CASE Compressing
  BY <1>1, <1>2, <1>3, <1>4 DEF Lost, Compressing
<1>5. CASE ~Compressing
  BY <1>1, <1>3, <1>5 DEF Lost, Compressing
<1>6. QED
  BY <1>4, <1>5

LEMMA CallFields ==
  ASSUME NEW c \in Calls
  PROVE  c.op \in Ops /\ c.id \in Nat /\ c.stamps \in Seq(Stamps)
BY DEF Calls

\* What holds of a call holds of it later.
LEMMA CallLater ==
  ASSUME NEW c, NEW now \in Nat, NEW p \in Nat, NEW now2 \in Nat, NEW p2 \in Nat,
         CallInv(c, now, p), now <= now2, p <= p2
  PROVE  CallInv(c, now2, p2)
<1>1. c \in Calls
  BY DEF CallInv
<1>2. c.stamps \in Seq(Stamps)
  BY <1>1, CallFields
<1>3. ASSUME NEW k \in DOMAIN c.stamps
      PROVE  c.stamps[k].t < now2 /\ Skew(c.stamps[k]) <= p2
  <2>1. c.stamps[k] \in Stamps
    BY <1>2
  <2>2. c.stamps[k].t \in Int /\ Skew(c.stamps[k]) \in Int
    BY <2>1, StampFields
  <2>3. c.stamps[k].t < now /\ Skew(c.stamps[k]) <= p
    BY DEF CallInv
  <2>4. QED
    BY <2>2, <2>3
<1>4. QED
  BY <1>1, <1>3 DEF CallInv

\* Time does not run backwards, for clocks or for what stamps are put off by.
Forward ==
  /\ clock' \in Nat /\ paused' \in 0 .. clock' /\ clock <= clock'
  /\ Lost \in Nat /\ Lost' \in Nat /\ Lost <= Lost'

\* Nothing but the call of thread t changes, if any.
LEMMA OneCall ==
  ASSUME CallsInv, Forward, NEW t \in Thread, NEW c, call' = [call EXCEPT ![t] = c],
         c = None \/ CallInv(c, clock', Lost'),
         calls' \in 0 .. MaxCalls
  PROVE  CallsInv'
<1>1. call \in [Thread -> Calls \cup {None}] /\ clock \in Nat
  BY DEF CallsInv
<1>2. c \in Calls \cup {None}
  BY DEF CallInv
<1>3. call' \in [Thread -> Calls \cup {None}]
  BY <1>1, <1>2
<1>4. ASSUME NEW u \in Thread, call'[u] # None
      PROVE  CallInv(call'[u], clock', Lost')
  <2>1. CASE u = t
    BY <1>1, <1>4, <2>1
  <2>2. CASE u # t
    <3>1. call'[u] = call[u]
      BY <1>1, <2>2
    <3>2. CallInv(call[u], clock, Lost)
      BY <1>4, <3>1 DEF CallsInv
    <3>3. QED
      BY <1>1, <3>1, <3>2, CallLater DEF Forward
  <2>3. QED
    BY <2>1, <2>2
<1>5. QED
  BY <1>3, <1>4 DEF CallsInv, Forward

LEMMA NoCall ==
  ASSUME CallsInv, Forward, UNCHANGED <<call, calls>>
  PROVE  CallsInv'
<1>1. ASSUME NEW u \in Thread, call'[u] # None
      PROVE  CallInv(call'[u], clock', Lost')
  <2>1. CallInv(call[u], clock, Lost) /\ clock \in Nat
    BY <1>1 DEF CallsInv
  <2>2. QED
    BY <2>1, CallLater DEF Forward
<1>2. QED
  BY <1>1 DEF CallsInv, Forward

LEMMA JobShapes ==
  ASSUME NEW t \in Thread \cup {None}, NEW w \in Seq(MemRecords), NEW n \in Nat
  PROVE  /\ Idle \in Jobs /\ Idle.at = "idle" /\ Idle.waiting = <<>>
         /\ BetweenPair(t) \in Jobs /\ BetweenPair(t).at = "alloc"
         /\ BetweenPair(t).thread = t /\ BetweenPair(t).waiting = <<>>
         /\ Compress(t, w, n) \in Jobs /\ Compress(t, w, n).at = "compress"
         /\ Compress(t, w, n).thread = t /\ Compress(t, w, n).waiting = w
         /\ Compress(t, w, n).since = n
<1>1. <<>> \in Seq(MemRecords)
  OBVIOUS
<1> HIDE DEF MemRecords
<1>2. Idle \in Jobs /\ Idle.at = "idle" /\ Idle.waiting = <<>>
  BY <1>1 DEF Idle, Jobs
<1>3. /\ BetweenPair(t) \in Jobs /\ BetweenPair(t).at = "alloc"
      /\ BetweenPair(t).thread = t /\ BetweenPair(t).waiting = <<>>
  BY <1>1 DEF BetweenPair, Idle, Jobs
<1>4. /\ Compress(t, w, n) \in Jobs /\ Compress(t, w, n).at = "compress"
      /\ Compress(t, w, n).thread = t /\ Compress(t, w, n).waiting = w
      /\ Compress(t, w, n).since = n
  BY <1>1 DEF Compress, Idle, Jobs
<1>5. QED
  BY <1>2, <1>3, <1>4

\* A job in which no record waits and nothing is compressed.
LEMMA JobPlain ==
  ASSUME job' \in Jobs, job'.at # "compress", job'.waiting = <<>>,
         job'.at = "alloc" => job'.thread \in Thread /\ AtLock(job.thread)'
  PROVE  JobInv'
BY DEF JobInv, Compressing

\* A record has been put into the buffer.
LEMMA AfterLemma ==
  ASSUME CallsInv, JobInv, ~Compressing, NEW t \in Thread, NEW r \in MemRecords,
         r.fake => AtLock(t), AfterRecord(t, r),
         clock' \in Nat, clock <= clock', UNCHANGED <<paused, calls>>
  PROVE  /\ CallsInv' /\ JobInv'
         /\ job'.at \in {"idle", "alloc"} /\ job'.waiting = <<>>
<1>1. clock \in Nat /\ paused \in 0 .. clock /\ calls \in 0 .. MaxCalls
  BY DEF CallsInv
<1>2. Lost = paused
  BY NowLemma
<1>0. <<>> \in Seq(MemRecords) /\ 0 \in Nat
  OBVIOUS
<1>3. CASE r.fake
  <2>1. job' = BetweenPair(t) /\ call' = call
    BY <1>3 DEF AfterRecord
  <2>2. job' \in Jobs /\ job'.at = "alloc" /\ job'.thread = t /\ job'.waiting = <<>>
    BY <1>0, <2>1, JobShapes
  <2>3. AtLock(job.thread)'
    BY <1>3, <2>1, <2>2 DEF AtLock
  <2>4. Lost' = paused'
    BY <1>1, <2>2, LostPlain
  <2>5. CallsInv'
    BY <1>1, <1>2, <2>1, <2>4, NoCall DEF Forward
  <2>6. QED
    BY <2>2, <2>3, <2>5, JobPlain
<1>4. CASE ~r.fake
  <2>1. job' = Idle /\ call' = [call EXCEPT ![t] = None]
    BY <1>4 DEF AfterRecord
  <2>2. job' \in Jobs /\ job'.at = "idle" /\ job'.waiting = <<>>
    BY <1>0, <2>1, JobShapes
  <2>4. Lost' = paused'
    BY <1>1, <2>2, LostPlain
  <2>5. CallsInv'
    <3>1. Forward
      BY <1>1, <1>2, <2>4 DEF Forward
    <3>2. calls' \in 0 .. MaxCalls
      BY <1>1
    <3>3. QED
      BY <2>1, <3>1, <3>2, OneCall
  <2>6. QED
    BY <2>2, <2>5, JobPlain
<1>5. QED
  BY <1>3, <1>4

-----------------------------------------------------------------------------
(* A record is handed to the writer *)

LEMMA EntriesOne ==
  ASSUME NEW r \in MemRecords, NEW l \in Seq(Logged)
  PROVE  /\ Entries(<<>>) = <<>>
         /\ l \o Entries(<<>>) = l
         /\ l \o Entries(<<r>>) = Append(l, Entry(r))
         /\ Append(l, Entry(r)) \in Seq(Logged)
<1>1. Entries(<<>>) = <<>>
  BY DEF Entries
<1>2. Entry(r) \in Logged
  BY EntryLogged
<1>3. Entries(<<r>>) = <<Entry(r)>>
  <2> DEFINE e == Entry(r)
  <2>1. <<r>>[1] = r /\ DOMAIN <<r>> = 1 .. 1
    OBVIOUS
  <2>2. Entries(<<r>>) = [k \in 1 .. 1 |-> e]
    BY <2>1 DEF Entries
  <2> HIDE DEF e
  <2>3. [k \in 1 .. 1 |-> e] = <<e>>
    OBVIOUS
  <2>4. QED
    BY <2>2, <2>3 DEF e
<1> DEFINE e == Entry(r)
<1> HIDE DEF e
<1>4. l \o <<>> = l /\ (e \in Logged => l \o <<e>> = Append(l, e)
      /\ Append(l, e) \in Seq(Logged))
  OBVIOUS
<1>5. QED
  BY <1>1, <1>2, <1>3, <1>4 DEF e

\* What FileInv says while no record waits and no bucket is under way.
LEMMA FileFacts ==
  ASSUME Inv, job.waiting = <<>>
  PROVE  /\ WriterInv(writer, file, log) /\ log \in Seq(Logged)
         /\ ~Torn => paused = Total(file)
<1>1. PICK l : WriterInv(writer, file, l) /\ log = l \o Entries(<<>>)
  BY DEF Inv, FileInv
<1>2. l \in Seq(Logged)
  BY <1>1 DEF WriterInv, Kept
<1>3. l \o Entries(<<>>) = l
  <2>1. Entries(<<>>) = <<>>
    BY DEF Entries
  <2>2. QED
    BY <1>2, <2>1
<1>4. file \in Seq(FileBuckets) /\ 0 \in Nat /\ writer \in Writers
  BY <1>1 DEF WriterInv, WriterType
<1>5. Total(file) \in Nat
  BY <1>4, BucketFields, TotalAppend
<1>6. ~Torn => paused = Total(file)
  BY <1>5 DEF Inv, FileInv, Pending
<1>7. QED
  BY <1>1, <1>2, <1>3, <1>6

LEMMA ProcessSame ==
  ASSUME ProcessInv, UNCHANGED <<header, state, forkVars>>,
         writer'.opened = writer.opened
  PROVE  ProcessInv'
BY DEF ProcessInv, forkVars

LEMMA WriteRecordInv ==
  ASSUME Inv, state = "running", job.at \in {"idle", "alloc"},
         NEW t \in Thread, NEW r \in MemRecords, r.len <= BucketSize,
         Good(r, paused), r.fake => AtLock(t), WriteRecord(t, r)
  PROVE  Inv'
<1>1. /\ log' = Append(log, Entry(r)) /\ clock' = clock + 1
      /\ UNCHANGED <<paused, calls, file, header, state, forkVars>>
  BY DEF WriteRecord
<1>2. job.waiting = <<>> /\ ~Torn /\ ~Compressing /\ ThreadsRun
  BY DEF Inv, JobInv, Torn, Compressing, ThreadsRun
<1>3. WriterInv(writer, file, log) /\ log \in Seq(Logged) /\ paused = Total(file)
  BY <1>2, FileFacts
<1>4. Filled(writer, file)
  BY <1>2 DEF Inv, FileInv, Filling
<1>5. clock \in Nat /\ paused \in 0 .. clock /\ clock' \in Nat /\ clock <= clock'
      /\ Lost = paused
  BY <1>1, <1>2, NowLemma DEF Inv, CallsInv
<1>6. writer \in Writers /\ r.len \in Nat /\ writer.offset \in Nat /\ BucketSize \in Nat
      /\ file \in Seq(FileBuckets)
  BY <1>3, WriterFields, EntryLogged, ZlibTraceAssumption DEF WriterInv, WriterType
<1>7. /\ Entries(<<>>) = <<>>
      /\ log \o Entries(<<r>>) = Append(log, Entry(r))
      /\ Append(log, Entry(r)) \in Seq(Logged)
      /\ Append(log, Entry(r)) \o Entries(<<>>) = Append(log, Entry(r))
  BY <1>3, EntriesOne
<1>8. CASE TooLong(writer, r)
  <2>1. job' = Compress(t, <<r>>, clock + 1) /\ writer' = writer /\ call' = call
    BY <1>8 DEF WriteRecord
  <2>2. <<r>> \in Seq(MemRecords) /\ <<r>>[1] = r
    OBVIOUS
  <2>3. /\ job' \in Jobs /\ job'.at = "compress" /\ job'.thread = t
        /\ job'.waiting = <<r>> /\ job'.since = clock'
    <3> DEFINE n == clock + 1
               w == <<r>>
    <3>1. t \in Thread \cup {None} /\ n \in Nat /\ w \in Seq(MemRecords)
          /\ clock' = n
      BY <1>1, <1>5, <2>2
    <3>2. job' = Compress(t, w, n)
      BY <2>1
    <3> HIDE DEF n, w
    <3>3. /\ Compress(t, w, n) \in Jobs /\ Compress(t, w, n).at = "compress"
          /\ Compress(t, w, n).thread = t /\ Compress(t, w, n).waiting = w
          /\ Compress(t, w, n).since = n
      BY <3>1, JobShapes
    <3>4. QED
      BY <3>1, <3>2, <3>3 DEF w
  <2>4. Lost' = paused'
    <3>1. Lost' = paused' + (clock' - job'.since)
      BY <2>3 DEF Lost, Compressing
    <3>2. QED
      BY <1>1, <1>5, <2>3, <3>1
  <2>5. CallsInv'
    BY <1>1, <1>5, <2>1, <2>4, NoCall DEF Inv, Forward
  <2>6. Waits(r)'
    <3>1. r.fake => AtLock(job.thread)'
      BY <2>1, <2>3 DEF AtLock
    <3>2. Good(r, Total(file'))
      BY <1>1, <1>3
    <3>3. QED
      BY <2>3, <3>1, <3>2 DEF Waits
  <2>7. JobInv'
    <3>1. Waits(job.waiting[1])'
      BY <2>2, <2>3, <2>6
    <3>2. paused' <= job'.since /\ job'.since <= clock'
      BY <1>1, <1>5, <2>3
    <3>3. QED
      BY <2>3, <3>1, <3>2 DEF JobInv
  <2>8. FileInv'
    <3>1. WriterInv(writer', file', log) /\ log' = log \o Entries(job'.waiting)
      BY <1>1, <1>3, <1>7, <2>1, <2>3
    <3>2. paused' = Total(file') + Pending'
      <4>1. Pending' = 0 /\ Total(file') = Total(file)
        BY <1>1, <2>3 DEF Pending, Torn
      <4>2. QED
        BY <1>1, <1>3, <1>5, <4>1
    <3>3. Filled(writer', file')
      BY <1>1, <1>4, <2>1
    <3>4. state' = "running"
      BY <1>1
    <3>5. QED
      BY <3>1, <3>2, <3>3, <3>4 DEF FileInv, Flat
  <2>9. ProcessInv'
    BY <1>1, <2>1, ProcessSame DEF Inv
  <2>10. QED
    BY <2>5, <2>7, <2>8, <2>9 DEF Inv
<1>9. CASE ~TooLong(writer, r)
  <2>1. writer' = Put(writer, r) /\ AfterRecord(t, r)
    BY <1>9 DEF WriteRecord
  <2>2. writer.offset + r.len <= BucketSize
    BY <1>6, <1>9 DEF TooLong
  <2>3. /\ WriterInv(writer', file, log') /\ Filled(writer', file)
        /\ writer'.opened = writer.opened
    BY <1>1, <1>3, <2>1, <2>2, PutLemma
  <2>4. /\ CallsInv' /\ JobInv'
        /\ job'.at \in {"idle", "alloc"} /\ job'.waiting = <<>>
    BY <1>1, <1>2, <1>5, <2>1, AfterLemma DEF Inv
  <2>5. FileInv'
    <3>1. WriterInv(writer', file', log') /\ log' = log' \o Entries(job'.waiting)
      BY <1>1, <1>7, <2>3, <2>4
    <3>2. paused' = Total(file') + Pending'
      <4>1. Pending' = 0 /\ Total(file') = Total(file)
        BY <1>1, <2>4 DEF Pending, Torn
      <4>2. QED
        BY <1>1, <1>3, <1>5, <4>1
    <3>3. Filled(writer', file')
      BY <1>1, <2>3
    <3>4. state' = "running"
      BY <1>1
    <3>5. QED
      BY <3>1, <3>2, <3>3, <3>4 DEF FileInv, Flat
  <2>6. ProcessInv'
    BY <1>1, <2>3, ProcessSame DEF Inv
  <2>7. QED
    BY <2>4, <2>5, <2>6 DEF Inv
<1>10. QED
  BY <1>8, <1>9

\* compress2 returns: what it took is no longer lost, but paused.
LEMMA CompressEndsInv == Inv /\ CompressEnds => Inv'
<1> SUFFICES ASSUME Inv, CompressEnds PROVE Inv'
  OBVIOUS
<1>1. PICK d \in Durations :
        /\ clock' = clock + d
        /\ paused' = paused + (clock + d - job.since)
        /\ job' = [job EXCEPT !.at = "output", !.duration = clock + d - job.since]
  BY DEF CompressEnds
<1>2. /\ Compressing /\ Alive
      /\ UNCHANGED <<call, calls, log, writer, file, header, state, forkVars>>
  BY DEF CompressEnds
<1>3. /\ clock \in Nat /\ paused \in 0 .. clock /\ d \in Nat
      /\ job.since \in Nat /\ paused <= job.since /\ job.since <= clock
      /\ job \in Jobs
  BY <1>2, ZlibTraceAssumption DEF Inv, CallsInv, JobInv, Jobs
<1> DEFINE duration == clock + d - job.since
<1>4. duration \in Nat
  BY <1>3
<1>5. /\ job' \in Jobs /\ job'.at = "output" /\ job'.thread = job.thread
      /\ job'.waiting = job.waiting /\ job'.duration = duration
  <2> HIDE DEF duration, MemRecords
  <2>1. QED
    BY <1>1, <1>3, <1>4 DEF Jobs, duration
<1>6. CallsInv'
  <2>1. Lost = paused + (clock - job.since)
    BY <1>2 DEF Lost
  <2>2. Lost' = paused'
    BY <1>1, <1>3, <1>4, <1>5, LostPlain
  <2>3. Forward
    BY <1>1, <1>3, <2>1, <2>2 DEF Forward
  <2>4. QED
    BY <1>2, <2>3, NoCall DEF Inv
<1>7. JobInv'
  <2>1. ASSUME job'.waiting # <<>> PROVE Waits(job.waiting[1])'
    <3>1. Waits(job.waiting[1])
      BY <1>5, <2>1 DEF Inv, JobInv
    <3>2. QED
      BY <1>2, <1>5, <3>1 DEF Waits, AtLock
  <2>2. QED
    BY <1>5, <2>1 DEF JobInv, Compressing
<1>8. FileInv'
  <2>1. PICK l : WriterInv(writer, file, l) /\ log = l \o Entries(job.waiting)
    BY DEF Inv, FileInv
  <2>2. WriterInv(writer', file', l) /\ log' = l \o Entries(job'.waiting)
    BY <1>2, <1>5, <2>1
  <2>3. paused' = Total(file') + Pending'
    <3>1. Pending = 0 /\ Pending' = duration /\ Total(file') = Total(file)
      BY <1>2, <1>5 DEF Pending, Torn, Compressing
    <3>2. paused = Total(file) + 0 /\ Total(file) \in Nat
      <4>1. file \in Seq(FileBuckets) /\ writer \in Writers /\ 0 \in Nat
        BY <2>1 DEF WriterInv, WriterType
      <4>2. Total(file) \in Nat
        BY <4>1, BucketFields, TotalAppend
      <4>3. QED
        BY <3>1, <4>2 DEF Inv, FileInv
    <3>3. QED
      BY <1>1, <1>3, <3>1, <3>2
  <2>4. Filled(writer', file')
    BY <1>2 DEF Inv, FileInv, Filling, Compressing
  <2>5. ~Flat'
    <3>1. ~Flat
      BY <1>2 DEF Inv, FileInv, Compressing
    <3>2. QED
      BY <1>2, <1>5, <3>1 DEF Flat, Compressing
  <2>6. /\ state' \in {"closing", "counting", "closed"} => job'.waiting = <<>>
        /\ state' \in {"counting", "closed"} => header'.numRecords = Len(log')
        /\ state' = "closed" => header'.numBuckets = Len(file')
    BY <1>2, <1>5 DEF Inv, FileInv
  <2>7. QED
    BY <2>2, <2>3, <2>4, <2>5, <2>6 DEF FileInv
<1>9. ProcessInv'
  BY <1>2, ProcessSame DEF Inv
<1>10. QED
  BY <1>6, <1>7, <1>8, <1>9 DEF Inv

\* The last write() of a bucket: the writer starts the next one with the
\* record that waited, delayed as the reader will correct it.
LEMMA BucketWrittenInv == Inv /\ BucketWritten => Inv'
<1> SUFFICES ASSUME Inv, BucketWritten PROVE Inv'
  OBVIOUS
<1> DEFINE r == job.waiting[1]
           d == job.duration
           v == Emptied(writer)
           longer == Append(file, Bucket(writer, d))
           q == Shifted(r, d)
<1>1. /\ Torn /\ job.waiting # <<>> /\ state \notin {"closed", "killed"}
      /\ writer' = Put(v, q) /\ file' = longer
      /\ AfterRecord(job.thread, r)
      /\ UNCHANGED <<clock, paused, calls, log, header, state, forkVars>>
  BY DEF BucketWritten, Alive, Torn, Delayed
<1>2. /\ Waits(r) /\ job \in Jobs /\ ~Compressing
  BY <1>1 DEF Inv, JobInv, Torn, Compressing
<1>3. /\ job.waiting = <<r>> /\ r \in MemRecords /\ r.len <= BucketSize
      /\ Good(r, Total(file)) /\ job.thread \in Thread
      /\ r.fake => AtLock(job.thread)
  BY <1>2 DEF Waits
<1>4. d \in Nat
  BY <1>2 DEF Jobs
<1> HIDE DEF r, d
<1>5. PICK l : WriterInv(writer, file, l) /\ log = l \o Entries(<<r>>)
  BY <1>3 DEF Inv, FileInv
<1>6. Filled(writer, file) /\ paused = Total(file) + d
  BY <1>1 DEF Inv, FileInv, Filling, Torn, Pending, d
<1>7. writer \in Writers /\ file \in Seq(FileBuckets) /\ l \in Seq(Logged)
      /\ BucketSize \in Nat /\ r.len \in Nat
  BY <1>3, <1>5, EntryLogged, ZlibTraceAssumption DEF WriterInv, WriterType, Kept
<1>8. Total(file) \in Nat
  BY <1>4, <1>7, BucketFields, TotalAppend
<1>9. WriterInv(v, longer, l) /\ Total(longer) = Total(file) + d
  BY <1>4, <1>5, <1>6, CompressLemma
<1>10. v.offset = 0 /\ v.opened = writer.opened
  BY <1>7, EmptiedFields
<1>11. /\ q \in MemRecords /\ Good(q, Total(file) + d)
       /\ q.len = r.len /\ Entry(q) = Entry(r)
  BY <1>3, <1>4, <1>8, ShiftedLemma
<1> HIDE DEF v, longer, q
<1>12. v.offset + q.len <= BucketSize /\ Good(q, Total(longer))
  BY <1>3, <1>7, <1>9, <1>10, <1>11
<1>13. /\ WriterInv(Put(v, q), longer, Append(l, Entry(r)))
       /\ Filled(Put(v, q), longer)
       /\ Put(v, q).opened = v.opened
  BY <1>9, <1>11, <1>12, PutLemma
<1>14. /\ Entries(<<>>) = <<>>
       /\ l \o Entries(<<r>>) = Append(l, Entry(r))
       /\ Append(l, Entry(r)) \in Seq(Logged)
       /\ Append(l, Entry(r)) \o Entries(<<>>) = Append(l, Entry(r))
  BY <1>3, <1>7, EntriesOne
<1>15. clock \in Nat /\ clock' = clock /\ clock' \in Nat /\ clock <= clock'
       /\ UNCHANGED <<paused, calls>>
  BY <1>1 DEF Inv, CallsInv
<1>16. /\ CallsInv' /\ JobInv'
       /\ job'.at \in {"idle", "alloc"} /\ job'.waiting = <<>>
  BY <1>1, <1>2, <1>3, <1>15, AfterLemma DEF Inv
<1>17. FileInv'
  <2>1. WriterInv(writer', file', log') /\ log' = log' \o Entries(job'.waiting)
    BY <1>1, <1>5, <1>13, <1>14, <1>16
  <2>2. paused' = Total(file') + Pending'
    <3>1. Pending' = 0
      BY <1>16 DEF Pending, Torn
    <3>2. QED
      BY <1>1, <1>4, <1>6, <1>8, <1>9, <3>1
  <2>3. Filled(writer', file')
    BY <1>1, <1>13
  <2>4. state \notin {"closing", "counting", "closed"}
    BY <1>1 DEF Inv, FileInv
  <2>5. QED
    BY <1>1, <2>1, <2>2, <2>3, <2>4 DEF FileInv, Flat
<1>18. ProcessInv'
  BY <1>1, <1>10, <1>13, ProcessSame DEF Inv
<1>19. QED
  BY <1>16, <1>17, <1>18 DEF Inv

-----------------------------------------------------------------------------
(* The hooks *)

LEMMA EnterCalls ==
  ASSUME CallsInv, JobInv, forks \in Nat,
         NEW t \in Thread, NEW op \in Ops, Enter(t, op)
  PROVE  CallsInv'
<1> DEFINE c == [op |-> op, id |-> calls', stamps |-> <<NowStamp>>]
<1>1. /\ call' = [call EXCEPT ![t] = c]
      /\ clock' = clock + 1 /\ paused' = paused /\ job' = job
      /\ calls' = calls + 1 /\ calls + forks < MaxCalls
  BY DEF Enter
<1>2. clock \in Nat /\ paused \in 0 .. clock /\ calls \in 0 .. MaxCalls
      /\ MaxCalls \in Nat
  BY ZlibTraceAssumption DEF CallsInv
<1>3. calls' \in 0 .. MaxCalls /\ calls' \in Nat
  BY <1>1, <1>2
<1>4. /\ NowStamp \in Stamps
      /\ NowStamp.t = clock /\ Skew(NowStamp) = Lost
  BY NowLemma
<1> HIDE DEF Stamps
<1>5. /\ c.stamps = <<NowStamp>> /\ <<NowStamp>> \in Seq(Stamps)
      /\ Len(c.stamps) = 1 /\ DOMAIN c.stamps = {1} /\ c.stamps[1] = NowStamp
  BY <1>4
<1>6. c \in Calls
  BY <1>3, <1>5 DEF Calls
<1> HIDE DEF c
<1>7. clock' \in Nat /\ clock <= clock'
  BY <1>1, <1>2
<1>8. Lost \in Nat /\ Lost' \in Nat /\ Lost <= Lost' /\ paused' \in 0 .. clock'
  BY <1>1, <1>7, TimeGoesOn
<1>9. CallInv(c, clock', Lost')
  BY <1>1, <1>2, <1>4, <1>5, <1>6, <1>8 DEF CallInv
<1>10. QED
  BY <1>1, <1>3, <1>7, <1>8, <1>9, OneCall DEF Forward

LEMMA SecondLemma ==
  ASSUME NEW V, NEW s \in Seq(V), NEW x \in V, Len(s) = 1
  PROVE  /\ Append(s, x) \in Seq(V) /\ Len(Append(s, x)) = 2
         /\ DOMAIN Append(s, x) = 1 .. 2
         /\ Append(s, x)[1] = s[1] /\ Append(s, x)[2] = x
<1>1. Append(s, x) \in Seq(V) /\ Len(Append(s, x)) = Len(s) + 1
  BY AppendProperties
<1>2. Len(Append(s, x)) = 2
  BY <1>1
<1>3. DOMAIN Append(s, x) = 1 .. 2
  BY <1>1, <1>2, LenProperties
<1>4. 1 \in 1 .. Len(s)
  OBVIOUS
<1>5. Append(s, x)[1] = s[1] /\ Append(s, x)[2] = x
  BY <1>4, AppendProperties
<1>6. QED
  BY <1>1, <1>2, <1>3, <1>5

LEMMA ReturnCalls ==
  ASSUME CallsInv, JobInv, NEW t \in Thread, RealCallReturns(t)
  PROVE  CallsInv'
<1> DEFINE o == call[t]
           c == [o EXCEPT !.stamps = Append(o.stamps, NowStamp)]
<1>1. call \in [Thread -> Calls \cup {None}] /\ o # None /\ Len(o.stamps) = 1
  BY DEF RealCallReturns, CallsInv
<1>2. /\ call' = [call EXCEPT ![t] = c]
      /\ clock' = clock + 1 /\ paused' = paused /\ calls' = calls
      /\ job' = job
  BY <1>1 DEF RealCallReturns
<1>3. clock \in Nat /\ paused \in 0 .. clock /\ calls \in 0 .. MaxCalls
  BY DEF CallsInv
<1>4. CallInv(o, clock, Lost)
  BY <1>1 DEF CallsInv
<1>5. o \in Calls /\ o.stamps \in Seq(Stamps)
  BY <1>4, CallFields DEF CallInv
<1>6. /\ NowStamp \in Stamps
      /\ NowStamp.t = clock /\ Skew(NowStamp) = Lost /\ Lost \in Nat
  BY NowLemma
<1>7. o.stamps[1].t < clock /\ Skew(o.stamps[1]) <= Lost
  BY <1>1, <1>4, <1>5 DEF CallInv
<1>8. o.stamps[1].t \in Int /\ Skew(o.stamps[1]) \in Int
  BY <1>1, <1>5, StampFields
<1> DEFINE two == Append(o.stamps, NowStamp)
<1>9. two \in Seq(Stamps) /\ Len(two) = 2 /\ DOMAIN two = 1 .. 2
      /\ two[1] = o.stamps[1] /\ two[2] = NowStamp
  <2> HIDE DEF o, c
  <2>1. QED
    BY <1>1, <1>5, <1>6, SecondLemma
<1> HIDE DEF two
<1>10. c.stamps = two /\ c \in Calls
  BY <1>5, <1>9 DEF Calls, two
<1> HIDE DEF c, o
<1>11. \A k \in 1 .. 2 : c.stamps[k].t < clock + 1 /\ Skew(c.stamps[k]) <= Lost
  <2>1. ASSUME NEW k \in 1 .. 2
        PROVE  c.stamps[k].t < clock + 1 /\ Skew(c.stamps[k]) <= Lost
    <3>1. CASE k = 1
      BY <1>3, <1>7, <1>8, <1>9, <1>10, <3>1
    <3>2. CASE k = 2
      BY <1>3, <1>6, <1>9, <1>10, <3>2
    <3>3. QED
      BY <3>1, <3>2
  <2>2. QED
    BY <2>1
<1>12. c.stamps[1].t < c.stamps[2].t /\ Skew(c.stamps[1]) <= Skew(c.stamps[2])
  BY <1>6, <1>7, <1>9, <1>10
<1>13. clock' \in Nat /\ clock <= clock' /\ calls' \in 0 .. MaxCalls
  BY <1>2, <1>3
<1>14. Lost \in Nat /\ Lost' \in Nat /\ Lost <= Lost' /\ paused' \in 0 .. clock'
  BY <1>2, <1>13, TimeGoesOn
<1>15. \A k \in 1 .. 2 : Skew(c.stamps[k]) \in Int
  <2>1. Skew(c.stamps[1]) \in Int
    BY <1>8, <1>9, <1>10
  <2>2. Skew(c.stamps[2]) \in Int
    BY <1>6, <1>9, <1>10
  <2>3. QED
    BY <2>1, <2>2
<1>16. \A k \in 1 .. 2 : c.stamps[k].t < clock' /\ Skew(c.stamps[k]) <= Lost'
  BY <1>2, <1>11, <1>14, <1>15
<1>17. CallInv(c, clock', Lost')
  BY <1>9, <1>10, <1>12, <1>16 DEF CallInv
<1>18. QED
  BY <1>2, <1>13, <1>14, <1>17, OneCall DEF Forward

\* A call that is written has two stamps, both before now.
LEMMA RecordedFacts ==
  ASSUME CallsInv, JobInv, NEW t \in Thread, AtLock(t), ~Compressing
  PROVE  LET s == call[t].stamps
         IN /\ call[t].id \in Nat
            /\ s[1] \in Stamps /\ s[2] \in Stamps
            /\ s[1].t \in Int /\ s[2].t \in Int
            /\ Skew(s[1]) \in Int /\ Skew(s[2]) \in Int
            /\ s[1].t < s[2].t /\ s[2].t < clock
            /\ Skew(s[1]) <= Skew(s[2]) /\ Skew(s[2]) <= paused
<1> DEFINE c == call[t]
<1>1. c # None /\ Len(c.stamps) = 2
  BY DEF AtLock
<1>2. CallInv(c, clock, paused)
  BY <1>1, NowLemma DEF CallsInv
<1> HIDE DEF c
<1>3. c.id \in Nat /\ c.stamps \in Seq(Stamps)
  BY <1>2, CallFields DEF CallInv
<1>4. 1 \in DOMAIN c.stamps /\ 2 \in DOMAIN c.stamps
  BY <1>1, <1>3
<1>5. c.stamps[1] \in Stamps /\ c.stamps[2] \in Stamps
  BY <1>3, <1>4
<1>6. /\ c.stamps[1].t < c.stamps[2].t /\ Skew(c.stamps[1]) <= Skew(c.stamps[2])
      /\ c.stamps[2].t < clock /\ Skew(c.stamps[2]) <= paused
  BY <1>1, <1>2, <1>4 DEF CallInv
<1>7. QED
  BY <1>3, <1>5, <1>6, StampFields DEF c

LEMMA RecordLemma ==
  ASSUME NEW n \in Nat, NEW fake \in BOOLEAN, NEW len \in Nat,
         NEW x \in Stamps, NEW y \in Stamps, NEW z \in Stamps, NEW off,
         x.t <= y.t, y.t <= z.t, Skew(x) <= Skew(y), Skew(y) <= Skew(z),
         Skew(z) <= off, fake \/ Skew(z) = off
  PROVE  LET r == Record(n, fake, len, x, y, z)
         IN r \in MemRecords /\ r.len = len /\ Good(r, off)
<1> DEFINE r == Record(n, fake, len, x, y, z)
<1>1. r = [call |-> n, fake |-> fake, len |-> len,
           tstart |-> x, treturn |-> y, tend |-> z]
  BY DEF Record
<1> HIDE DEF r
<1>2. r \in MemRecords
  BY <1>1 DEF MemRecords
<1>3. r.len = len /\ r.tstart = x /\ r.treturn = y /\ r.tend = z
  BY <1>1
<1>4. r.fake = fake
  BY <1>1
<1>5. ~r.fake => Skew(r.tend) = off
  <2>1. ~r.fake => ~fake
    BY <1>4, Zenon
  <2>2. QED
    BY <1>3, <2>1
<1>6. Good(r, off)
  BY <1>3, <1>5 DEF Good
<1>7. QED
  BY <1>2, <1>3, <1>6 DEF r

LEMMA WriteSingleInv ==
  ASSUME Inv, NEW t \in Thread, WriteSingle(t)
  PROVE  Inv'
<1>1. state = "running" /\ job = Idle /\ AtLock(t)
  BY DEF WriteSingle, Recorded
<1>2. job.at = "idle" /\ ~Compressing
  BY <1>1 DEF Idle, Compressing
<1> DEFINE s == call[t].stamps
           n == call[t].id
           r(len) == Record(n, FALSE, len, s[1], s[2], NowStamp)
<1>3. PICK len \in Lengths : WriteRecord(t, r(len))
  BY DEF WriteSingle
<1>4. len \in Nat /\ len <= BucketSize
  BY RecordsFit, ZlibTraceAssumption
<1>5. /\ n \in Nat /\ s[1] \in Stamps /\ s[2] \in Stamps
      /\ s[1].t \in Int /\ s[2].t \in Int
      /\ s[1].t < s[2].t /\ s[2].t < clock
      /\ Skew(s[1]) <= Skew(s[2]) /\ Skew(s[2]) <= paused
  BY <1>1, <1>2, RecordedFacts DEF Inv
<1>6. /\ NowStamp \in Stamps /\ NowStamp.t = clock /\ Skew(NowStamp) = paused
      /\ clock \in Nat /\ paused \in Nat
  BY <1>2, NowLemma DEF Inv
<1> DEFINE q == r(len)
<1>7. q \in MemRecords /\ q.len = len /\ Good(q, paused)
  <2>1. s[1].t <= s[2].t /\ s[2].t <= NowStamp.t
    BY <1>5, <1>6
  <2>2. Skew(s[2]) <= Skew(NowStamp) /\ Skew(NowStamp) <= paused
        /\ Skew(NowStamp) = paused
    BY <1>5, <1>6
  <2> HIDE DEF s, n
  <2>3. QED
    BY <1>4, <1>5, <1>6, <2>1, <2>2, RecordLemma
<1>8. WriteRecord(t, q)
  BY <1>3
<1> HIDE DEF r, q
<1>9. QED
  BY <1>1, <1>2, <1>4, <1>7, <1>8, WriteRecordInv

LEMMA WriteFreeInv ==
  ASSUME Inv, NEW t \in Thread, WriteFree(t)
  PROVE  Inv'
<1>1. state = "running" /\ job = Idle /\ AtLock(t)
  BY DEF WriteFree, Recorded
<1>2. job.at = "idle" /\ ~Compressing
  BY <1>1 DEF Idle, Compressing
<1> DEFINE s == call[t].stamps
           n == call[t].id
           q == Record(n, TRUE, FreeLength, s[1], s[1], s[1])
<1>3. WriteRecord(t, q)
  BY DEF WriteFree
<1>4. FreeLength \in Nat /\ FreeLength <= BucketSize
  BY ZlibTraceAssumption DEF FreeLength
<1>5. /\ n \in Nat /\ s[1] \in Stamps /\ s[1].t \in Int
      /\ Skew(s[1]) \in Int /\ Skew(s[2]) \in Int
      /\ Skew(s[1]) <= Skew(s[2]) /\ Skew(s[2]) <= paused
  BY <1>1, <1>2, RecordedFacts DEF Inv
<1>6. paused \in Nat
  BY <1>2, NowLemma DEF Inv
<1> HIDE DEF s, n
<1>7. q \in MemRecords /\ q.len = FreeLength /\ Good(q, paused)
  <2>1. s[1].t <= s[1].t /\ Skew(s[1]) <= Skew(s[1]) /\ Skew(s[1]) <= paused
    BY <1>5, <1>6
  <2>2. QED
    BY <1>4, <1>5, <2>1, RecordLemma
<1> HIDE DEF q
<1>8. QED
  BY <1>1, <1>2, <1>3, <1>4, <1>7, WriteRecordInv

LEMMA NextLemma ==
  ASSUME NEW s \in Stamps
  PROVE  /\ Next1(s) \in Stamps /\ Next1(s).t = s.t + 1
         /\ Skew(Next1(s)) = Skew(s)
<1>1. s.t \in Int /\ s.true \in Int
  BY StampFields
<1>2. Next1(s) = [t |-> s.t + 1, true |-> s.true + 1]
  BY DEF Next1, Stamp
<1>3. Next1(s) \in Stamps
  BY <1>1, <1>2 DEF Stamps
<1>4. Next1(s).t = s.t + 1 /\ Next1(s).true = s.true + 1
  BY <1>2
<1>5. QED
  BY <1>1, <1>3, <1>4 DEF Skew

LEMMA WriteAllocInv ==
  ASSUME Inv, NEW t \in Thread, WriteAlloc(t)
  PROVE  Inv'
<1>1. state = "running" /\ job.at = "alloc" /\ job.thread = t
  BY DEF WriteAlloc
<1>2. ~Compressing /\ AtLock(t)
  BY <1>1 DEF Inv, JobInv, Compressing
<1> DEFINE s == call[t].stamps
           n == call[t].id
           x == Next1(s[1])
           y == s[2]
           r(len) == Record(n, FALSE, len, x, y, NowStamp)
<1>3. PICK len \in Lengths : WriteRecord(t, r(len))
  BY DEF WriteAlloc
<1>4. len \in Nat /\ len <= BucketSize
  BY RecordsFit, ZlibTraceAssumption
<1>5. /\ n \in Nat /\ s[1] \in Stamps /\ s[2] \in Stamps
      /\ s[1].t \in Int /\ s[2].t \in Int
      /\ s[1].t < s[2].t /\ s[2].t < clock
      /\ Skew(s[1]) <= Skew(s[2]) /\ Skew(s[2]) <= paused
  BY <1>2, RecordedFacts DEF Inv
<1>6. /\ NowStamp \in Stamps /\ NowStamp.t = clock /\ Skew(NowStamp) = paused
      /\ clock \in Nat /\ paused \in Nat
  BY <1>2, NowLemma DEF Inv
<1>7. x \in Stamps /\ x.t = s[1].t + 1 /\ Skew(x) = Skew(s[1])
  BY <1>5, NextLemma
<1> DEFINE q == r(len)
<1>8. q \in MemRecords /\ q.len = len /\ Good(q, paused)
  <2>1. x.t <= y.t /\ y.t <= NowStamp.t /\ y \in Stamps
    BY <1>5, <1>6, <1>7
  <2>2. Skew(x) <= Skew(y) /\ Skew(y) <= Skew(NowStamp) /\ Skew(NowStamp) <= paused
        /\ Skew(NowStamp) = paused
    BY <1>5, <1>6, <1>7
  <2> HIDE DEF s, n, x, y
  <2>3. QED
    BY <1>4, <1>5, <1>6, <1>7, <2>1, <2>2, RecordLemma
<1>9. WriteRecord(t, q) /\ ~q.fake
  <2>1. WriteRecord(t, q)
    BY <1>3
  <2>2. q = [call |-> n, fake |-> FALSE, len |-> len,
             tstart |-> x, treturn |-> y, tend |-> NowStamp]
    BY DEF Record
  <2> HIDE DEF q, n, x, y
  <2>3. QED
    BY <2>1, <2>2
<1> HIDE DEF r, q
<1>10. QED
  BY <1>1, <1>2, <1>4, <1>8, <1>9, WriteRecordInv

-----------------------------------------------------------------------------
(* The process *)

LEMMA InitInv == Init => Inv
<1> SUFFICES ASSUME Init PROVE Inv
  OBVIOUS
<1>1. CallsInv
  <2>1. \A t \in Thread : call[t] = None
    BY DEF Init
  <2>2. QED
    BY <2>1, ZlibTraceAssumption DEF Init, CallsInv
<1>2. writer \in Writers /\ file = <<>> /\ log = <<>> /\ paused = 0
      /\ writer.buff = <<>> /\ writer.offset = 0 /\ writer.nRecords = 0
      /\ writer.numBuckets = 0 /\ writer.opened = TRUE
  BY DEF Init, NewWriter, Writers
<1>0. JobInv /\ job.at = "idle" /\ job.waiting = <<>>
  <2>1. <<>> \in Seq(MemRecords) /\ 0 \in Nat /\ None \in Thread \cup {None}
    OBVIOUS
  <2>2. job \in Jobs /\ job.at = "idle" /\ job.waiting = <<>>
    BY <2>1, JobShapes DEF Init
  <2>3. QED
    BY <2>2 DEF JobInv, Compressing
<1>3. ProcessInv
  <2>1. header \in Headers /\ header.numBuckets = 0
    BY DEF Init, Headers
  <2>2. QED
    BY <1>2, <2>1, ZlibTraceAssumption DEF Init, ProcessInv
<1>4. LengthsOf(<<>>) = <<>> /\ RowsOf(<<>>) = <<>> /\ TimesOf(<<>>) = <<>>
      /\ Entries(<<>>) = <<>>
  BY DEF LengthsOf, RowsOf, TimesOf, Entries
<1>5. Total(<<>>) = 0
  BY <1>4, SumEmpty DEF Total
<1>6. WriterInv(writer, file, log)
  <2>1. Fits(writer)
    BY <1>2, <1>4, SumEmpty, ZlibTraceAssumption DEF Fits
  <2>2. Kept(writer, file, log)
    <3>1. <<>> \o <<>> = <<>> /\ <<>> \in Seq(Logged)
      OBVIOUS
    <3>2. QED
      BY <1>2, <1>4, <3>1, JoinedEmpty DEF Kept
  <2>3. Counted(writer, file, log) /\ NoneEmpty(file) /\ InFile(file)
        /\ InBuffer(writer, file)
    BY <1>2 DEF Counted, NoneEmpty, InFile, InBuffer
  <2>4. WriterType(writer, file)
    BY <1>2 DEF WriterType
  <2>5. QED
    BY <2>1, <2>2, <2>3, <2>4 DEF WriterInv
<1>7. FileInv
  <2>1. log = log \o Entries(<<>>)
    <3>1. <<>> \o <<>> = <<>>
      OBVIOUS
    <3>2. QED
      BY <1>2, <1>4, <3>1
  <2>2. paused = Total(file) + Pending
    BY <1>0, <1>2, <1>5 DEF Pending, Torn
  <2>3. Filled(writer, file)
    BY <1>2 DEF Filled
  <2>4. state = "running"
    BY DEF Init
  <2>5. QED
    BY <1>0, <1>6, <2>1, <2>2, <2>3, <2>4 DEF FileInv, Flat
<1>8. QED
  BY <1>0, <1>1, <1>3, <1>7 DEF Inv

\* Neither the program nor the lock's holder does anything.
LEMMA CallsSame ==
  ASSUME CallsInv, JobInv, UNCHANGED <<programVars, job>>
  PROVE  CallsInv'
<1>1. clock \in Nat /\ paused \in 0 .. clock
  BY DEF CallsInv
<1>2. UNCHANGED <<clock, paused, call, calls, job>>
  BY DEF programVars
<1>3. Lost \in Nat /\ Lost' \in Nat /\ Lost <= Lost' /\ paused' \in 0 .. clock'
  BY <1>1, <1>2, TimeGoesOn
<1>4. Forward
  BY <1>1, <1>2, <1>3 DEF Forward
<1>5. QED
  BY <1>2, <1>4, NoCall

LEMMA JobSame ==
  ASSUME JobInv, CallsInv, UNCHANGED <<job, file, paused>>,
         clock' \in Nat, clock <= clock',
         \A t \in Thread : job.thread = t /\ AtLock(t) => AtLock(t)'
  PROVE  JobInv'
<1>1. ASSUME job.waiting # <<>> PROVE Waits(job.waiting[1])'
  <2>1. Waits(job.waiting[1])
    BY <1>1 DEF JobInv
  <2>2. QED
    BY <2>1 DEF Waits
<1>2. job.at = "alloc" => job.thread \in Thread /\ AtLock(job.thread)'
  BY DEF JobInv
<1>3. Compressing => paused' <= job.since /\ job.since <= clock'
  <2>1. job.since \in Nat /\ clock \in Nat
    BY DEF JobInv, Jobs, CallsInv
  <2>2. QED
    BY <2>1 DEF JobInv
<1>4. QED
  BY <1>1, <1>2, <1>3 DEF JobInv, Compressing

LEMMA CallsAndJobSame ==
  ASSUME CallsInv, JobInv, UNCHANGED <<programVars, job, file>>
  PROVE  CallsInv' /\ JobInv'
<1>1. UNCHANGED <<clock, paused, call>> /\ clock \in Nat
  BY DEF programVars, CallsInv
<1>2. \A t \in Thread : AtLock(t) => AtLock(t)'
  BY <1>1 DEF AtLock
<1>3. QED
  BY <1>1, <1>2, CallsSame, JobSame

\* The writer is at most opened or closed.
LEMMA WriterSame ==
  ASSUME NEW l, WriterInv(writer, file, l), UNCHANGED file,
         writer' = writer \/ \E b \in BOOLEAN : writer' = SetOpened(writer, b)
  PROVE  WriterInv(writer', file', l) /\ writer'.buff = writer.buff
<1>1. writer \in Writers
  BY DEF WriterInv, WriterType
<1>2. /\ writer' \in Writers /\ writer'.buff = writer.buff
      /\ writer'.offset = writer.offset /\ writer'.nRecords = writer.nRecords
      /\ writer'.numBuckets = writer.numBuckets
  BY <1>1, OpenedFields
<1>3. QED
  BY <1>2 DEF WriterInv, WriterType, Fits, Kept, Counted, InBuffer

LEMMA FileSame ==
  ASSUME FileInv, UNCHANGED <<log, file, header, job, paused>>,
         writer' = writer \/ \E b \in BOOLEAN : writer' = SetOpened(writer, b),
         \/ UNCHANGED state
         \/ state \in {"running", "forking", "forked"}
            /\ state' \in {"running", "forking", "forked"}
         \/ state' = "killed"
  PROVE  FileInv'
<1>1. PICK l : WriterInv(writer, file, l) /\ log = l \o Entries(job.waiting)
  BY DEF FileInv
<1>2. WriterInv(writer', file', l) /\ writer'.buff = writer.buff
  BY <1>1, WriterSame
<1>3. paused' = Total(file') + Pending'
  BY DEF FileInv, Pending, Torn
<1>4. Filling' => Filled(writer', file')
  <2>1. Filling' => Filling
    BY DEF Filling, ThreadsRun
  <2>2. QED
    BY <1>2, <2>1 DEF FileInv, Filled
<1>5. Flat' => Flat
  BY DEF Flat
<1>6. /\ Flat' => writer'.buff = <<>> /\ job'.at \notin {"compress", "output"}
      /\ state' \in {"closing", "counting", "closed"} => job'.waiting = <<>>
      /\ state' \in {"counting", "closed"} => header'.numRecords = Len(log')
      /\ state' = "closed" => header'.numBuckets = Len(file')
  BY <1>2, <1>5 DEF FileInv
<1>7. log' = l \o Entries(job'.waiting)
  BY <1>1
<1>8. QED
  BY <1>2, <1>3, <1>4, <1>6, <1>7 DEF FileInv

LEMMA PrepForkInv == Inv /\ PrepFork => Inv'
<1> SUFFICES ASSUME Inv, PrepFork PROVE Inv'
  OBVIOUS
<1>1. CallsInv' /\ JobInv'
  BY CallsAndJobSame DEF Inv, PrepFork
<1>2. writer \in Writers
  BY DEF Inv, FileInv, WriterInv, WriterType
<1>3. writer' = SetOpened(writer, FALSE) /\ writer'.opened = FALSE
  BY <1>2, OpenedFields DEF PrepFork
<1>4. ProcessInv'
  BY <1>3 DEF Inv, ProcessInv, PrepFork, forkVars
<1>5. FileInv'
  BY <1>3, FileSame DEF Inv, PrepFork, programVars
<1>6. QED
  BY <1>1, <1>4, <1>5 DEF Inv

LEMMA ForkInv == Inv /\ Fork => Inv'
<1> SUFFICES ASSUME Inv, Fork PROVE Inv'
  OBVIOUS
<1>1. CallsInv' /\ JobInv'
  BY CallsAndJobSame DEF Inv, Fork
<1>2. writer \in Writers /\ writer' = writer /\ writer.opened = FALSE
  BY DEF Inv, FileInv, WriterInv, WriterType, ProcessInv, Fork
<1>3. forks' \in 0 .. MaxForks
  BY ZlibTraceAssumption DEF Inv, ProcessInv, Fork
<1>4. ProcessInv'
  BY <1>2, <1>3 DEF Inv, ProcessInv, Fork
<1>5. FileInv'
  BY <1>2, FileSame DEF Inv, Fork, programVars
<1>6. QED
  BY <1>1, <1>4, <1>5 DEF Inv

LEMMA ReopenFileInv == Inv /\ ReopenFile => Inv'
<1> SUFFICES ASSUME Inv, ReopenFile PROVE Inv'
  OBVIOUS
<1>1. CallsInv' /\ JobInv'
  BY CallsAndJobSame DEF Inv, ReopenFile
<1>2. writer \in Writers
  BY DEF Inv, FileInv, WriterInv, WriterType
<1>3. writer' = SetOpened(writer, TRUE) /\ writer'.opened = TRUE
  BY <1>2, OpenedFields DEF ReopenFile
<1>4. ProcessInv'
  BY <1>3 DEF Inv, ProcessInv, ReopenFile, forkVars
<1>5. FileInv'
  BY <1>3, FileSame DEF Inv, ReopenFile, programVars
<1>6. QED
  BY <1>1, <1>4, <1>5 DEF Inv

\* The child's writer is closed, so deleting it leaves the file alone.
LEMMA ChildDeleteInv == Inv /\ ChildDelete => Inv'
<1> SUFFICES ASSUME Inv, ChildDelete PROVE Inv'
  OBVIOUS
<1>1. child.opened = FALSE
  BY DEF Inv, ProcessInv, ChildDelete
<1>2. file' = file /\ child' = None
      /\ UNCHANGED <<programVars, log, writer, header, job, state, forks>>
  BY <1>1 DEF ChildDelete, Flushed
<1>3. CallsInv' /\ JobInv'
  BY <1>2, CallsAndJobSame DEF Inv
<1>4. ProcessInv'
  BY <1>2 DEF Inv, ProcessInv
<1>5. FileInv'
  BY <1>2, FileSame DEF Inv, programVars
<1>6. QED
  BY <1>3, <1>4, <1>5 DEF Inv

LEMMA KillInv == Inv /\ Kill => Inv'
<1> SUFFICES ASSUME Inv, Kill PROVE Inv'
  OBVIOUS
<1>1. CallsInv' /\ JobInv'
  BY CallsAndJobSame DEF Inv, Kill
<1>2. ProcessInv'
  BY DEF Inv, ProcessInv, Kill, Alive, forkVars
<1>3. FileInv'
  BY FileSame DEF Inv, Kill, programVars
<1>4. QED
  BY <1>1, <1>2, <1>3 DEF Inv

\* The end compresses the last bucket, if there is one,
LEMMA CloseFileInv == Inv /\ CloseFile => Inv'
<1> SUFFICES ASSUME Inv, CloseFile PROVE Inv'
  OBVIOUS
<1>1. /\ state = "running" /\ job = Idle /\ state' = "closing"
      /\ UNCHANGED <<programVars, log, writer, file, header, forkVars>>
      /\ job' = IF Len(writer.buff) > 0 THEN Compress(None, <<>>, clock) ELSE job
  BY DEF CloseFile
<1>2. UNCHANGED <<clock, paused, call, calls>>
  BY <1>1 DEF programVars
<1>3. job.at = "idle" /\ job.waiting = <<>> /\ job \in Jobs /\ ~Torn /\ ~Compressing
      /\ ThreadsRun
  BY <1>1 DEF Inv, JobInv, Idle, Torn, Compressing, ThreadsRun
<1>4. WriterInv(writer, file, log) /\ log \in Seq(Logged) /\ paused = Total(file)
  BY <1>3, FileFacts
<1>5. Filled(writer, file)
  BY <1>3 DEF Inv, FileInv, Filling
<1>6. clock \in Nat /\ paused \in 0 .. clock /\ Lost = paused
  BY <1>3, NowLemma DEF Inv, CallsInv
<1>7. writer.buff \in Seq(MemRecords) /\ Entries(<<>>) = <<>> /\ log = log \o <<>>
  BY <1>4, WriterFields DEF WriterInv, WriterType, Entries
<1>8. ProcessInv'
  BY <1>1 DEF Inv, ProcessInv, forkVars
<1>9. CASE Len(writer.buff) > 0
  <2>1. <<>> \in Seq(MemRecords) /\ None \in Thread \cup {None}
    OBVIOUS
  <2>2. /\ job' \in Jobs /\ job'.at = "compress" /\ job'.waiting = <<>>
        /\ job'.since = clock
    <3> DEFINE w == <<>>
               t == None
    <3>1. t \in Thread \cup {None} /\ clock \in Nat /\ w \in Seq(MemRecords)
      BY <1>6, <2>1
    <3>2. job' = Compress(t, w, clock)
      BY <1>1, <1>9
    <3> HIDE DEF t, w
    <3>3. /\ Compress(t, w, clock) \in Jobs /\ Compress(t, w, clock).at = "compress"
          /\ Compress(t, w, clock).waiting = w /\ Compress(t, w, clock).since = clock
      BY <3>1, JobShapes
    <3>4. QED
      BY <3>2, <3>3 DEF w
  <2>3. Lost' = paused'
    BY <1>2, <1>6, <2>2 DEF Lost, Compressing
  <2>4. CallsInv'
    BY <1>2, <1>6, <2>3, NoCall DEF Inv, Forward
  <2>5. JobInv'
    BY <1>2, <1>6, <2>2 DEF JobInv
  <2>6. paused' = Total(file') + Pending'
    BY <1>1, <1>2, <1>4, <1>6, <2>2 DEF Pending, Torn
  <2>7. WriterInv(writer', file', log') /\ log' = log' \o Entries(job'.waiting)
        /\ Filled(writer', file')
    BY <1>1, <1>4, <1>5, <1>7, <2>2
  <2>8. FileInv'
    BY <1>1, <2>2, <2>6, <2>7 DEF FileInv, Flat
  <2>9. QED
    BY <1>8, <2>4, <2>5, <2>8 DEF Inv
<1>10. CASE ~(Len(writer.buff) > 0)
  <2>1. job' = job /\ writer.buff = <<>>
    BY <1>1, <1>7, <1>10
  <2>2. CallsInv' /\ JobInv'
    BY <1>1, <2>1, CallsAndJobSame DEF Inv
  <2>3. paused' = Total(file') + Pending'
    BY <1>1, <1>2, <2>1 DEF Inv, FileInv, Pending, Torn
  <2>4. WriterInv(writer', file', log') /\ log' = log' \o Entries(job'.waiting)
        /\ Filled(writer', file')
    BY <1>1, <1>3, <1>4, <1>5, <1>7, <2>1
  <2>5. FileInv'
    BY <1>1, <1>3, <2>1, <2>3, <2>4 DEF FileInv, Flat
  <2>6. QED
    BY <1>8, <2>2, <2>5 DEF Inv
<1>11. QED
  BY <1>9, <1>10

\* writes it,
LEMMA LastBucketWrittenInv == Inv /\ LastBucketWritten => Inv'
<1> SUFFICES ASSUME Inv, LastBucketWritten PROVE Inv'
  OBVIOUS
<1> DEFINE d == job.duration
           v == Emptied(writer)
           longer == Append(file, Bucket(writer, d))
<1>1. /\ state = "closing" /\ Torn
      /\ file' = longer /\ writer' = v /\ job' = Idle
      /\ UNCHANGED <<programVars, log, header, state, forkVars>>
  BY DEF LastBucketWritten, Torn
<1>2. UNCHANGED <<clock, paused, call, calls>>
  BY <1>1 DEF programVars
<1>3. job.waiting = <<>> /\ job \in Jobs /\ ~Compressing
  BY <1>1 DEF Inv, JobInv, FileInv, Torn, Compressing
<1>4. d \in Nat
  BY <1>3 DEF Jobs
<1> HIDE DEF d
<1>5. WriterInv(writer, file, log) /\ log \in Seq(Logged)
  BY <1>3, FileFacts
<1>6. Filled(writer, file) /\ paused = Total(file) + d
  BY <1>1 DEF Inv, FileInv, Filling, Torn, Pending, d
<1>7. WriterInv(v, longer, log) /\ Total(longer) = Total(file) + d
  BY <1>4, <1>5, <1>6, CompressLemma
<1>8. writer \in Writers /\ v \in Writers /\ v.buff = <<>> /\ longer \in Seq(FileBuckets)
  BY <1>5, <1>7, EmptiedFields DEF WriterInv, WriterType
<1>9. Total(longer) \in Nat /\ Entries(<<>>) = <<>> /\ log = log \o <<>>
  <2>1. 0 \in Nat
    OBVIOUS
  <2>2. Total(longer) \in Nat
    BY <1>8, <2>1, BucketFields, TotalAppend
  <2>3. QED
    BY <1>5, <2>2 DEF Entries
<1> HIDE DEF v, longer
<1>10. job' \in Jobs /\ job'.at = "idle" /\ job'.waiting = <<>>
  <2>1. <<>> \in Seq(MemRecords) /\ 0 \in Nat /\ None \in Thread \cup {None}
    OBVIOUS
  <2>2. QED
    BY <1>1, <2>1, JobShapes
<1>11. JobInv'
  BY <1>10, JobPlain
<1>12. CallsInv'
  <2>1. clock \in Nat /\ paused \in 0 .. clock /\ Lost = paused /\ Lost \in Nat
    BY <1>3, NowLemma DEF Inv, CallsInv
  <2>2. Lost' = paused'
    BY <1>10, LostPlain
  <2>3. Forward
    BY <1>2, <2>1, <2>2 DEF Forward
  <2>4. QED
    BY <1>2, <2>3, NoCall DEF Inv
<1>13. FileInv'
  <2>1. WriterInv(writer', file', log') /\ log' = log' \o Entries(job'.waiting)
        /\ writer'.buff = <<>>
    BY <1>1, <1>7, <1>8, <1>9, <1>10
  <2>2. paused' = Total(file') + Pending'
    <3>1. Pending' = 0 /\ paused' = Total(file')
      BY <1>1, <1>2, <1>6, <1>7, <1>10 DEF Pending, Torn
    <3>2. QED
      BY <1>1, <1>9, <3>1
  <2>3. state' = "closing" /\ ~Filling'
    BY <1>1, <1>10 DEF Filling, ThreadsRun
  <2>4. QED
    BY <1>10, <2>1, <2>2, <2>3 DEF FileInv
<1>14. ProcessInv'
  BY <1>1 DEF Inv, ProcessInv, forkVars
<1>15. QED
  BY <1>11, <1>12, <1>13, <1>14 DEF Inv

\* and counts what the file then holds, field by field.
LEMMA WriteNumRecordsInv == Inv /\ WriteNumRecords => Inv'
<1> SUFFICES ASSUME Inv, WriteNumRecords PROVE Inv'
  OBVIOUS
<1>1. /\ state = "closing" /\ job = Idle /\ state' = "counting"
      /\ header' = [header EXCEPT !.numRecords = writer.nRecords]
      /\ UNCHANGED <<programVars, log, writer, file, job, forkVars>>
  BY DEF WriteNumRecords
<1>2. CallsInv' /\ JobInv'
  BY <1>1, CallsAndJobSame DEF Inv
<1>3. job.at = "idle" /\ job.waiting = <<>>
  BY <1>1 DEF Idle
<1>4. WriterInv(writer, file, log) /\ log \in Seq(Logged)
  BY <1>3, FileFacts
<1>5. Flat /\ writer.buff = <<>>
  BY <1>1, <1>3 DEF Inv, FileInv, Flat
<1>6. writer.nRecords = Len(log) /\ writer.nRecords \in Nat /\ Entries(<<>>) = <<>>
      /\ log = log \o <<>>
  BY <1>4, WriterFields DEF WriterInv, WriterType, Counted, Entries
<1>7. header \in Headers /\ header.numBuckets = 0
  BY <1>1 DEF Inv, ProcessInv
<1>8. header' \in Headers /\ header'.numBuckets = 0 /\ header'.numRecords = Len(log)
  BY <1>1, <1>6, <1>7 DEF Headers
<1>9. FileInv'
  <2>1. WriterInv(writer', file', log') /\ log' = log' \o Entries(job'.waiting)
        /\ writer'.buff = <<>>
    BY <1>1, <1>3, <1>4, <1>5, <1>6
  <2>2. paused' = Total(file') + Pending'
    BY <1>1 DEF Inv, FileInv, Pending, Torn, programVars
  <2>3. ~Filling'
    BY <1>1, <1>3 DEF Filling, ThreadsRun
  <2>4. QED
    BY <1>1, <1>3, <1>8, <2>1, <2>2, <2>3 DEF FileInv
<1>10. ProcessInv'
  BY <1>1, <1>8 DEF Inv, ProcessInv, forkVars
<1>11. QED
  BY <1>2, <1>9, <1>10 DEF Inv

LEMMA WriteNumBucketsInv == Inv /\ WriteNumBuckets => Inv'
<1> SUFFICES ASSUME Inv, WriteNumBuckets PROVE Inv'
  OBVIOUS
<1>1. /\ state = "counting" /\ state' = "closed"
      /\ header' = [header EXCEPT !.numBuckets = writer.numBuckets]
      /\ writer' = SetOpened(writer, FALSE)
      /\ UNCHANGED <<programVars, log, file, job, forkVars>>
  BY DEF WriteNumBuckets
<1>2. CallsInv' /\ JobInv'
  BY <1>1, CallsAndJobSame DEF Inv
<1>3. Flat /\ writer.buff = <<>> /\ job.at \notin {"compress", "output"}
      /\ job.waiting = <<>> /\ header.numRecords = Len(log)
  BY <1>1 DEF Inv, FileInv, Flat
<1>4. WriterInv(writer, file, log) /\ log \in Seq(Logged)
  BY <1>3, FileFacts
<1>5. WriterInv(writer', file', log) /\ writer'.buff = <<>>
  BY <1>1, <1>3, <1>4, WriterSame
<1>6. writer.numBuckets = Len(file) /\ writer.numBuckets \in Nat /\ Entries(<<>>) = <<>>
      /\ log = log \o <<>>
  BY <1>4, WriterFields DEF WriterInv, WriterType, Counted, Entries
<1>7. header \in Headers
  BY DEF Inv, ProcessInv
<1>8. header' \in Headers /\ header'.numBuckets = Len(file)
      /\ header'.numRecords = Len(log)
  BY <1>1, <1>3, <1>6, <1>7 DEF Headers
<1>9. FileInv'
  <2>1. log' = log' \o Entries(job'.waiting)
    BY <1>1, <1>3, <1>6
  <2>2. paused' = Total(file') + Pending'
    BY <1>1 DEF Inv, FileInv, Pending, Torn, programVars
  <2>3. ~Filling'
    BY <1>1, <1>3 DEF Filling, ThreadsRun
  <2>4. QED
    BY <1>1, <1>3, <1>5, <1>8, <2>1, <2>2, <2>3 DEF FileInv
<1>10. ProcessInv'
  BY <1>1, <1>8 DEF Inv, ProcessInv, forkVars
<1>11. QED
  BY <1>2, <1>9, <1>10 DEF Inv

LEMMA EnterInv ==
  ASSUME Inv, NEW t \in Thread, NEW op \in Ops, Enter(t, op)
  PROVE  Inv'
<1>1. forks \in Nat /\ clock \in Nat
  BY ZlibTraceAssumption DEF Inv, ProcessInv, CallsInv
<1>2. CallsInv'
  BY <1>1, EnterCalls DEF Inv
<1>3. \A u \in Thread : AtLock(u) => AtLock(u)'
  <2>1. call[t] = None /\ call \in [Thread -> Calls \cup {None}]
    BY DEF Enter, Inv, CallsInv
  <2>2. ASSUME NEW u \in Thread, AtLock(u) PROVE call'[u] = call[u]
    BY <2>1, <2>2 DEF AtLock, Enter
  <2>3. QED
    BY <2>2 DEF AtLock
<1>4. clock' \in Nat /\ clock <= clock'
  BY <1>1 DEF Enter
<1>5. JobInv'
  BY <1>3, <1>4, JobSame DEF Inv, Enter
<1>6. ProcessInv'
  BY ProcessSame DEF Inv, Enter
<1>7. FileInv'
  BY FileSame DEF Inv, Enter
<1>8. QED
  BY <1>2, <1>5, <1>6, <1>7 DEF Inv

LEMMA ReturnInv ==
  ASSUME Inv, NEW t \in Thread, RealCallReturns(t)
  PROVE  Inv'
<1>1. clock \in Nat
  BY DEF Inv, CallsInv
<1>2. CallsInv'
  BY ReturnCalls DEF Inv
<1>3. \A u \in Thread : AtLock(u) => AtLock(u)'
  <2>1. Len(call[t].stamps) = 1 /\ call \in [Thread -> Calls \cup {None}]
    BY DEF RealCallReturns, Inv, CallsInv
  <2>2. ASSUME NEW u \in Thread, AtLock(u) PROVE call'[u] = call[u]
    BY <2>1, <2>2 DEF AtLock, RealCallReturns
  <2>3. QED
    BY <2>2 DEF AtLock
<1>4. clock' \in Nat /\ clock <= clock'
  BY <1>1 DEF RealCallReturns
<1>5. JobInv'
  BY <1>3, <1>4, JobSame DEF Inv, RealCallReturns
<1>6. ProcessInv'
  BY ProcessSame DEF Inv, RealCallReturns
<1>7. FileInv'
  BY FileSame DEF Inv, RealCallReturns
<1>8. QED
  BY <1>2, <1>5, <1>6, <1>7 DEF Inv

LEMMA UnrecordedInv ==
  ASSUME Inv, NEW t \in Thread, Unrecorded(t)
  PROVE  Inv'
<1>1. /\ call' = [call EXCEPT ![t] = None] /\ job.thread # t
      /\ UNCHANGED <<clock, paused, calls, log, writer, file, header, job, state, forkVars>>
  BY DEF Unrecorded
<1>2. clock' \in Nat /\ clock <= clock' /\ calls' \in 0 .. MaxCalls
      /\ call \in [Thread -> Calls \cup {None}]
  BY <1>1 DEF Inv, CallsInv
<1>3. CallsInv'
  <2>1. Lost \in Nat /\ Lost' \in Nat /\ Lost <= Lost' /\ paused' \in 0 .. clock'
    BY <1>1, <1>2, TimeGoesOn DEF Inv
  <2>2. Forward
    BY <1>2, <2>1 DEF Forward
  <2>3. QED
    BY <1>1, <1>2, <2>2, OneCall DEF Inv
<1>4. \A u \in Thread : job.thread = u /\ AtLock(u) => AtLock(u)'
  <2>1. \A u \in Thread : job.thread = u => call'[u] = call[u]
    BY <1>1, <1>2
  <2>2. QED
    BY <2>1 DEF AtLock
<1>5. JobInv'
  BY <1>1, <1>2, <1>4, JobSame DEF Inv
<1>6. ProcessInv'
  BY <1>1, ProcessSame DEF Inv
<1>7. FileInv'
  BY <1>1, FileSame DEF Inv
<1>8. QED
  BY <1>3, <1>5, <1>6, <1>7 DEF Inv

LEMMA StepInv == Inv /\ [Next]_vars => Inv'
<1> SUFFICES ASSUME Inv, [Next]_vars PROVE Inv'
  OBVIOUS
<1>1. ASSUME NEW t \in Thread, NEW op \in Ops, Enter(t, op) PROVE Inv'
  BY <1>1, EnterInv
<1>2. ASSUME NEW t \in Thread, RealCallReturns(t) PROVE Inv'
  BY <1>2, ReturnInv
<1>3. ASSUME NEW t \in Thread, Unrecorded(t) PROVE Inv'
  BY <1>3, UnrecordedInv
<1>4. ASSUME NEW t \in Thread, WriteSingle(t) PROVE Inv'
  BY <1>4, WriteSingleInv
<1>5. ASSUME NEW t \in Thread, WriteFree(t) PROVE Inv'
  BY <1>5, WriteFreeInv
<1>6. ASSUME NEW t \in Thread, WriteAlloc(t) PROVE Inv'
  BY <1>6, WriteAllocInv
<1>7. CASE CompressEnds
  BY <1>7, CompressEndsInv
<1>8. CASE BucketWritten
  BY <1>8, BucketWrittenInv
<1>9. CASE PrepFork
  BY <1>9, PrepForkInv
<1>10. CASE Fork
  BY <1>10, ForkInv
<1>11. CASE ReopenFile
  BY <1>11, ReopenFileInv
<1>12. CASE ChildDelete
  BY <1>12, ChildDeleteInv
<1>13. CASE CloseFile
  BY <1>13, CloseFileInv
<1>14. CASE LastBucketWritten
  BY <1>14, LastBucketWrittenInv
<1>15. CASE WriteNumRecords
  BY <1>15, WriteNumRecordsInv
<1>16. CASE WriteNumBuckets
  BY <1>16, WriteNumBucketsInv
<1>17. CASE Kill
  BY <1>17, KillInv
<1>18. CASE UNCHANGED vars
  <2>1. /\ UNCHANGED <<programVars, job, file>>
        /\ UNCHANGED <<log, file, header, job, paused, writer, state, forkVars>>
    BY <1>18 DEF vars, programVars
  <2>2. CallsInv' /\ JobInv'
    BY <2>1, CallsAndJobSame DEF Inv
  <2>3. ProcessInv' /\ FileInv'
    BY <2>1, ProcessSame, FileSame DEF Inv
  <2>4. QED
    BY <2>2, <2>3 DEF Inv
<1>19. QED
  BY <1>1, <1>2, <1>3, <1>4, <1>5, <1>6, <1>7, <1>8, <1>9, <1>10, <1>11, <1>12,
     <1>13, <1>14, <1>15, <1>16, <1>17, <1>18
     DEF Next, Stopped

LEMMA InvHolds == Spec => []Inv
BY InitInv, StepInv, PTL DEF Spec

-----------------------------------------------------------------------------
(* The theorems *)

\* The buffer holds exactly what has been copied into it, and never more than
\* m_bucketSize bytes: memcpy in writeRecord stays inside it.
THEOREM BufferNeverOverflows == Spec => []BufferFits
<1>1. Inv => BufferFits
  <2> SUFFICES ASSUME Inv PROVE BufferFits
    OBVIOUS
  <2>1. PICK l : WriterInv(writer, file, l)
    BY DEF Inv, FileInv
  <2>2. writer.offset <= BucketSize
        /\ writer.offset = SumOf([k \in DOMAIN writer.buff |-> writer.buff[k].len])
    BY <2>1 DEF WriterInv, Fits, LengthsOf
  <2>3. writer \in Writers /\ file \in Seq(FileBuckets)
    BY <2>1 DEF WriterInv, WriterType
  <2>4. writer.nRecords \in Nat /\ writer.numBuckets \in Nat /\ writer.opened \in BOOLEAN
    BY <2>3, WriterFields
  <2>5. \A b \in DOMAIN file : file[b].compressionTime \in Nat
    BY <2>3, FileBucketFields
  <2>6. header.numRecords \in Nat /\ header.numBuckets \in Nat
    BY DEF Inv, ProcessInv, Headers
  <2>7. \A t \in Thread : call[t] = None \/ Len(call[t].stamps) \in 1 .. 2
    BY DEF Inv, CallsInv, CallInv
  <2>8. /\ job.at \in {"idle", "compress", "output", "alloc"}
        /\ job.since \in Nat /\ job.duration \in Nat
    <3> HIDE DEF MemRecords
    <3>1. QED
      BY DEF Inv, JobInv, Jobs
  <2>9. TypeOK
    BY <2>4, <2>5, <2>6, <2>7, <2>8 DEF Inv, CallsInv, ProcessInv, TypeOK
  <2>10. QED
    BY <2>2, <2>9 DEF BufferFits
<1>2. QED
  BY <1>1, InvHolds, PTL

\* What the reader is given is the file and, while the process has not closed
\* it, the buffer as a bucket of its own.
LEMMA BucketsLemma ==
  ASSUME Inv
  PROVE  /\ Buckets \in Seq(FileBuckets)
         /\ Joined(RowsOf(Buckets)) \o Entries(job.waiting) = log
         /\ InFile(Buckets)
<1>1. PICK l : WriterInv(writer, file, l) /\ l \o Entries(job.waiting) = log
  BY DEF Inv, FileInv
<1>2. writer \in Writers /\ file \in Seq(FileBuckets)
  BY <1>1 DEF WriterInv, WriterType
<1>3. CASE writer.buff = <<>>
  <2>1. Buckets = file
    BY <1>3 DEF Buckets
  <2>2. Entries(writer.buff) = <<>>
    BY <1>3 DEF Entries
  <2>3. Joined(RowsOf(file)) \in Seq(Logged)
    BY <1>2, JoinedRows
  <2>4. Joined(RowsOf(file)) \o <<>> = Joined(RowsOf(file))
    BY <2>3
  <2>5. Joined(RowsOf(file)) = l
    BY <1>1, <2>2, <2>4 DEF WriterInv, Kept
  <2>6. QED
    BY <1>1, <1>2, <2>1, <2>5 DEF WriterInv
<1>4. CASE writer.buff # <<>>
  <2>1. Filled(writer, file) /\ 0 \in Nat
    BY <1>4 DEF Filled
  <2> DEFINE v == Emptied(writer)
             longer == Append(file, Bucket(writer, 0))
  <2>2. WriterInv(v, longer, l) /\ v.buff = <<>>
    BY <1>1, <1>2, <2>1, CompressLemma, EmptiedFields
  <2>3. Buckets = longer
    BY <1>4 DEF Buckets
  <2> HIDE DEF v, longer
  <2>4. longer \in Seq(FileBuckets) /\ InFile(longer)
        /\ Joined(RowsOf(longer)) \o Entries(v.buff) = l
    BY <2>2 DEF WriterInv, WriterType, Kept
  <2>5. Entries(v.buff) = <<>>
    BY <2>2 DEF Entries
  <2>6. Joined(RowsOf(longer)) \in Seq(Logged)
    BY <2>4, JoinedRows
  <2>7. Joined(RowsOf(longer)) \o <<>> = Joined(RowsOf(longer))
    BY <2>6
  <2>8. Joined(RowsOf(longer)) = l
    BY <2>4, <2>5, <2>7
  <2>9. QED
    BY <1>1, <2>3, <2>4, <2>8
<1>5. QED
  BY <1>3, <1>4

\* What the hooks have given the writer is in the file, in the buffer and
\* waiting for a compression, each record once and in order, over
\* compressions, forks, the deletion of the child's writer and the end.
THEOREM NoRecordIsLost == Spec => []RecordsKept
<1>1. Inv => RecordsKept
  <2> SUFFICES ASSUME Inv PROVE RecordsKept
    OBVIOUS
  <2>1. Joined(RowsOf(Buckets)) \o Entries(job.waiting) = log
    BY BucketsLemma
  <2>2. state = "closed" => Buckets = file
    BY DEF Inv, FileInv, Flat, Buckets
  <2>3. QED
    BY <2>1, <2>2 DEF RecordsKept, RowsOf
<1>2. QED
  BY <1>1, InvHolds, PTL

\* closeFile(true) writes the counts of what is in the file, and whenever the
\* process is killed before their last field, also inside the last bucket, a
\* file with buckets in it is not taken for a complete one.
THEOREM HeaderIsHonest == Spec => []HeaderHonest
<1>1. Inv => HeaderHonest
  <2> SUFFICES ASSUME Inv PROVE HeaderHonest
    OBVIOUS
  <2>1. PICK l : WriterInv(writer, file, l)
    BY DEF Inv, FileInv
  <2>2. Len(file) \in Nat
    BY <2>1 DEF WriterInv, WriterType
  <2>3. BucketsMet \in Nat
    BY <2>2 DEF BucketsMet
  <2>4. ASSUME state = "closed" PROVE Complete
    <3>1. /\ writer.buff = <<>> /\ ~Torn /\ job.waiting = <<>>
          /\ header.numRecords = Len(log) /\ header.numBuckets = Len(file)
      BY <2>4 DEF Inv, FileInv, Flat, Torn
    <3>2. header = [numRecords |-> Len(log), numBuckets |-> Len(file)]
      BY <3>1 DEF Inv, ProcessInv, Headers
    <3>3. Buckets = file
      BY <3>1 DEF Buckets
    <3>4. file \in Seq(FileBuckets) /\ Joined(RowsOf(file)) \o Entries(<<>>) = log
      BY <3>1, <3>3, BucketsLemma
    <3>5. Entries(<<>>) = <<>> /\ Joined(RowsOf(file)) \in Seq(Logged)
      BY <3>4, JoinedRows DEF Entries
    <3>6. Joined(RowsOf(file)) = log
      <4>1. \A a \in Seq(Logged) : a \o <<>> = a
        OBVIOUS
      <4>2. QED
        BY <3>4, <3>5, <4>1
    <3>7. QED
      BY <3>1, <3>2, <3>6 DEF Complete, RowsOf
  <2>5. state # "closed" => header.numBuckets = 0
    BY DEF Inv, ProcessInv
  <2>6. header.numBuckets = 0 => BucketsMet \notin 1 .. header.numBuckets
    BY <2>3
  <2>7. QED
    BY <2>4, <2>5, <2>6 DEF HeaderHonest
<1>2. QED
  BY <1>1, InvHolds, PTL

\* compressBuffer is only ever called with an empty buffer for the very first
\* record, so the reader's bisection meets no other bucket without a record.
THEOREM OnlyFirstIsEmpty == Spec => []EmptyOnlyFirst
<1>1. Inv => EmptyOnlyFirst
  BY DEF Inv, FileInv, WriterInv, NoneEmpty, EmptyOnlyFirst
<1>2. QED
  BY <1>1, InvHolds, PTL

\* A stamp given back by at() is the one in the bucket less the bucket's tOffset.
LEMMA TraceLemma ==
  ASSUME Inv, NEW q \in Trace
  PROVE  \E r \in MemRecords, off \in Nat :
           /\ Good(r, off)
           /\ q.fake = r.fake
           /\ q.tstart = Stamp(r.tstart.t - off, r.tstart.true)
           /\ q.treturn = Stamp(r.treturn.t - off, r.treturn.true)
           /\ q.tend = Stamp(r.tend.t - off, r.tend.true)
<1>1. PICK b \in DOMAIN Buckets : \E k \in DOMAIN Buckets[b].records :
        q = ReadBack(Buckets[b].records[k], b)
  BY DEF Trace
<1>2. PICK k \in DOMAIN Buckets[b].records : q = ReadBack(Buckets[b].records[k], b)
  BY <1>1
<1> DEFINE r == Buckets[b].records[k]
           off == TOffset(b)
<1>3. Buckets \in Seq(FileBuckets) /\ InFile(Buckets)
  BY BucketsLemma
<1>4. Buckets[b] \in FileBuckets
  BY <1>3
<1>5. Buckets[b].records \in Seq(MemRecords)
  BY <1>4, FileBucketFields
<1>6. r \in MemRecords
  BY <1>5
<1>7. off = Before(Buckets, b)
  BY DEF TOffset, Before
<1>8. Good(r, off)
  BY <1>3, <1>7 DEF InFile
<1>9. off \in Nat
  <2> DEFINE times == [a \in 1 .. b - 1 |-> Buckets[a].compressionTime]
  <2>1. b \in 1 .. Len(Buckets) /\ Len(Buckets) \in Nat
    BY <1>3
  <2>2. b - 1 \in Nat
    BY <2>1
  <2>3. \A a \in 1 .. b - 1 : a \in 1 .. Len(Buckets)
    BY <2>1
  <2>4. \A a \in 1 .. b - 1 : Buckets[a] \in FileBuckets
    BY <1>3, <2>3
  <2>5. \A a \in 1 .. b - 1 : Buckets[a].compressionTime \in Nat
    BY <2>4, FileBucketFields
  <2>6. IsTuple(times, b - 1) /\ Within(times, b - 1, Nat)
    BY <2>5 DEF IsTuple, Within
  <2>7. times \in Seq(Nat)
    BY <2>2, <2>6, Mapped
  <2>8. QED
    BY <2>7, SumNat DEF TOffset
<1> HIDE DEF off, r
<1>10. q = [call |-> r.call, fake |-> r.fake, len |-> r.len,
            tstart |-> Stamp(r.tstart.t - off, r.tstart.true),
            treturn |-> Stamp(r.treturn.t - off, r.treturn.true),
            tend |-> Stamp(r.tend.t - off, r.tend.true)]
  BY <1>2 DEF ReadBack, Record, r, off
<1>11. /\ q.tstart = Stamp(r.tstart.t - off, r.tstart.true)
       /\ q.treturn = Stamp(r.treturn.t - off, r.treturn.true)
       /\ q.tend = Stamp(r.tend.t - off, r.tend.true)
  BY <1>10
<1>12. q.fake = r.fake
  BY <1>10
<1>13. QED
  BY <1>6, <1>8, <1>9, <1>11, <1>12

LEMMA BackLemma ==
  ASSUME NEW s \in Stamps, NEW off \in Nat
  PROVE  LET c == Stamp(s.t - off, s.true)
         IN /\ c.t = s.t - off /\ c.true = s.true
            /\ c.t \in Int /\ c.true \in Int
            /\ c.t - c.true = Skew(s) - off
<1>1. s.t \in Int /\ s.true \in Int
  BY StampFields
<1>2. QED
  BY <1>1 DEF Stamp, Skew

\* The stamps of a record and what the reader makes of them.
LEMMA StampsBack ==
  ASSUME Inv, NEW q \in Trace
  PROVE  /\ q.tstart.t \in Int /\ q.treturn.t \in Int /\ q.tend.t \in Int
         /\ q.tstart.true \in Int /\ q.treturn.true \in Int /\ q.tend.true \in Int
         /\ q.tstart.t <= q.treturn.t /\ q.treturn.t <= q.tend.t
         /\ q.tstart.t - q.tstart.true <= q.treturn.t - q.treturn.true
         /\ q.treturn.t - q.treturn.true <= q.tend.t - q.tend.true
         /\ q.tend.t <= q.tend.true
         /\ ~q.fake => q.tend.t = q.tend.true
<1>1. PICK r \in MemRecords, off \in Nat :
         /\ Good(r, off)
         /\ q.fake = r.fake
         /\ q.tstart = Stamp(r.tstart.t - off, r.tstart.true)
         /\ q.treturn = Stamp(r.treturn.t - off, r.treturn.true)
         /\ q.tend = Stamp(r.tend.t - off, r.tend.true)
  BY TraceLemma
<1>2. r.tstart \in Stamps /\ r.treturn \in Stamps /\ r.tend \in Stamps
  BY MemRecordFields
<1>3. /\ q.tstart.t = r.tstart.t - off /\ q.tstart.t \in Int /\ q.tstart.true \in Int
      /\ q.tstart.t - q.tstart.true = Skew(r.tstart) - off
  BY <1>1, <1>2, BackLemma
<1>4. /\ q.treturn.t = r.treturn.t - off /\ q.treturn.t \in Int /\ q.treturn.true \in Int
      /\ q.treturn.t - q.treturn.true = Skew(r.treturn) - off
  BY <1>1, <1>2, BackLemma
<1>5. /\ q.tend.t = r.tend.t - off /\ q.tend.t \in Int /\ q.tend.true \in Int
      /\ q.tend.t - q.tend.true = Skew(r.tend) - off
  BY <1>1, <1>2, BackLemma
<1>6. /\ r.tstart.t \in Int /\ r.treturn.t \in Int /\ r.tend.t \in Int
      /\ Skew(r.tstart) \in Int /\ Skew(r.treturn) \in Int /\ Skew(r.tend) \in Int
  BY <1>2, StampFields
<1>7. /\ r.tstart.t <= r.treturn.t /\ r.treturn.t <= r.tend.t
      /\ Skew(r.tstart) <= Skew(r.treturn) /\ Skew(r.treturn) <= Skew(r.tend)
      /\ Skew(r.tend) <= off
  BY <1>1 DEF Good
<1>8. q.tstart.t <= q.treturn.t /\ q.treturn.t <= q.tend.t
  BY <1>3, <1>4, <1>5, <1>6, <1>7
<1>9. /\ q.tstart.t - q.tstart.true <= q.treturn.t - q.treturn.true
      /\ q.treturn.t - q.treturn.true <= q.tend.t - q.tend.true
  BY <1>3, <1>4, <1>5, <1>6, <1>7
<1>10. q.tend.t <= q.tend.true
  BY <1>5, <1>6, <1>7
<1>11. ~q.fake => q.tend.t = q.tend.true
  <2>1. ~q.fake => ~r.fake
    BY <1>1
  <2>2. ~r.fake => Skew(r.tend) = off
    BY <1>1 DEF Good
  <2>3. Skew(r.tend) = off => q.tend.t = q.tend.true
    BY <1>5, <1>6
  <2>4. QED
    BY <2>1, <2>2, <2>3
<1>12. QED
  BY <1>3, <1>4, <1>5, <1>8, <1>9, <1>10, <1>11

\* The correction gives the last stamp of every call its true time, also that
\* of a record that has waited for a compression, and the others as well for a
\* call during which nothing else was compressed.
THEOREM TimesAreExact == Spec => []TimesExact
<1>1. Inv => TimesExact
  <2> SUFFICES ASSUME Inv, NEW q \in Trace, ~q.fake
               PROVE  /\ q.tend.t = q.tend.true
                      /\ q.tstart.t - q.tstart.true = q.tend.t - q.tend.true
                           => /\ q.tstart.t = q.tstart.true
                              /\ q.treturn.t = q.treturn.true
    BY DEF TimesExact
  <2>1. q.tend.t = q.tend.true
    BY StampsBack
  <2>2. ASSUME q.tstart.t - q.tstart.true = q.tend.t - q.tend.true
        PROVE  q.tstart.t = q.tstart.true /\ q.treturn.t = q.treturn.true
    BY <2>1, <2>2, StampsBack
  <2>3. QED
    BY <2>1, <2>2
<1>2. QED
  BY <1>1, InvHolds, PTL

\* It is at most too large, for the stamps of any call of any thread, also for
\* those read while another thread's compression is under way: none comes back
\* later than its true time, which stands still meanwhile.
THEOREM NoStampIsLate == Spec => []NeverLate
<1>1. Inv => NeverLate
  <2> SUFFICES ASSUME Inv, NEW q \in Trace
               PROVE  /\ q.tstart.t <= q.tstart.true
                      /\ q.treturn.t <= q.treturn.true
                      /\ q.tend.t <= q.tend.true
    BY DEF NeverLate
  <2>1. QED
    BY StampsBack
<1>2. QED
  BY <1>1, InvHolds, PTL

\* The three stamps of a record come back in the order they were taken in.
THEOREM OrderIsKept == Spec => []CallsKeepTheirOrder
<1>1. Inv => CallsKeepTheirOrder
  BY StampsBack DEF CallsKeepTheirOrder
<1>2. QED
  BY <1>1, InvHolds, PTL

=============================================================================
