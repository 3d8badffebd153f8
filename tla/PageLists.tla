----------------------------- MODULE PageLists -----------------------------
(***************************************************************************)
(* The files with the status of the pages of a heap, and what the Python   *)
(* module makes of them: MergePages joins neighbouring pages of one status *)
(* to regions, the parsers return regions and slices of pages as arrays.   *)
(*                                                                         *)
(* A file is the sequence of the statuses, by address from page 1 on; its  *)
(* first line, a time stamp, is skipped by every reader.  Address 0 is the *)
(* start of no page.                                                       *)
(***************************************************************************)
EXTENDS Integers, Sequences, FiniteSets, SequencesExt

NotLoaded == 0      \* b1*10+b2 of the bits "present" and "swapped"
Swapped == 1
Loaded == 10
Statuses == {NotLoaded, Swapped, Loaded}

-----------------------------------------------------------------------------
(* MergePages, with the comparison bySize it is always called with *)

Region(pBegin, pEnd, size, flags) ==
  [pBegin |-> pBegin, pEnd |-> pEnd, size |-> size, flags |-> flags]

\* rBegin, addrLast, count and bitLast before the first line: a region of
\* address 0, in which pages that are not loaded go on.
NoRegion == Region(0, 0, 0, NotLoaded)

\* The regions closed so far and the open one, after line k.
Line(pages, s, k) ==
  IF pages[k] # s.open.flags
  THEN [closed |-> Append(s.closed, s.open), open |-> Region(k, k, 1, pages[k])]
  ELSE [s EXCEPT !.open.pEnd = k, !.open.size = @ + 1]

\* The loop over the lines of the file.
Merged(pages) ==
  LET line[k \in 0 .. Len(pages)] ==
        IF k = 0 THEN [closed |-> <<>>, open |-> NoRegion]
        ELSE Line(pages, line[k - 1], k)
  IN line[Len(pages)]

AllRegionsButLast(pages) == Merged(pages).closed    \* faulty variant

\* The region that is open at the end of the file is closed too.
AllRegions(pages) == LET s == Merged(pages) IN Append(s.closed, s.open)

bySize(a, b) == a.size < b.size

\* The orders in which std::sort can leave regions: it is free to choose among
\* those of one size.
Orders(s) ==
  {f \in [DOMAIN s -> DOMAIN s] :
     \A k \in DOMAIN s : \A j \in 1 .. k - 1 :
       f[j] # f[k] /\ ~bySize(s[f[k]], s[f[j]])}

Sorted(s) == {[k \in DOMAIN s |-> s[f[k]]] : f \in Orders(s)}

\* The n-th number of a finite set.
Nth(S, n) == CHOOSE k \in S : Cardinality({j \in S : j <= k}) = n

\* The regions written: without those of address 0.
Printed(s) ==
  LET kept == {k \in DOMAIN s : s[k].pBegin > 0}
  IN [n \in 1 .. Cardinality(kept) |-> s[Nth(kept, n)]]

\* The merged files there can be.
MergePages(pages) == {Printed(s) : s \in Sorted(AllRegions(pages))}

\* The arrays made of them.
ParseMergedOutputFiles(pages) ==
  {[k \in DOMAIN regions |->
      <<regions[k].pBegin, regions[k].size, regions[k].pEnd, regions[k].flags>>] :
     regions \in MergePages(pages)}

-----------------------------------------------------------------------------
(* parseOutputFiles: the rows allocated and the rows filled *)

All == -1

RowsUpToEnd(pages, begin, end) ==       \* faulty variant: the file's end is forgotten
  IF All \in {begin, end} THEN Len(pages)
  ELSE IF begin < Len(pages) THEN end - begin ELSE 0

Rows(pages, begin, end) ==
  LET n == Len(pages) IN
  CASE All \in {begin, end} -> n
    [] All \notin {begin, end} /\ begin < n /\ end <= n -> end - begin
    [] All \notin {begin, end} /\ begin < n /\ end > n -> n - begin
    [] OTHER -> 0

\* A slice no row of which is allocated because it begins behind the file
\* is not read.
ParseOutputFiles(pages, begin, end) ==
  LET read == CASE All \in {begin, end} -> DOMAIN pages
                [] All \notin {begin, end} /\ begin >= Len(pages) -> {}
                [] OTHER -> {k \in DOMAIN pages : k - 1 >= begin /\ k - 1 < end}
  IN [allocated |-> Rows(pages, begin, end),
      filled |-> [n \in 1 .. Cardinality(read) |->
                    LET k == Nth(read, n) IN <<k, pages[k]>>]]

-----------------------------------------------------------------------------
(* What the arrays should hold *)

\* The longest runs of pages with one status, as rows of the merged array.
SameStatus(pages, a, b) == \A k \in a .. b : pages[k] = pages[a]
IsRun(pages, a, b) ==
  /\ SameStatus(pages, a, b)
  /\ a > 1 => pages[a - 1] # pages[a]
  /\ b < Len(pages) => pages[b + 1] # pages[b]
LongestRuns(pages) ==
  {<<r[1], r[2] - r[1] + 1, r[2], pages[r[1]]>> :
     r \in {r \in (1 .. Len(pages)) \X (1 .. Len(pages)) :
              r[1] <= r[2] /\ IsRun(pages, r[1], r[2])}}

\* The merged array of a page list holds its longest runs, each once and the
\* short ones first, whatever the sort makes of runs of one length; only the run
\* of not loaded pages at its start is left out.
MergesRuns(pages) ==
  LET runs == {r \in LongestRuns(pages) : r[1] > 1 \/ r[4] # NotLoaded}
  IN \A rows \in ParseMergedOutputFiles(pages) :
       /\ ToSet(rows) = runs
       /\ \A j, k \in DOMAIN rows : j < k => rows[j] # rows[k] /\ rows[j][2] <= rows[k][2]

\* A slice of a page list fills the rows allocated for it, no more and no
\* less, wherever it begins and ends, and holds the pages asked for.
SlicesPages(pages) ==
  \A begin, end \in 0 .. Len(pages) + 2 : begin <= end =>
    LET a == ParseOutputFiles(pages, begin, end) IN
    /\ Len(a.filled) = a.allocated
    /\ a.filled = [n \in 1 .. Len(SubSeq(pages, begin + 1, IF end < Len(pages) THEN end ELSE Len(pages)))
                     |-> <<begin + n, pages[begin + n]>>]

=============================================================================
