------------------------------ MODULE PyTools ------------------------------
(***************************************************************************)
(* The tools that ask a trace about regions of memory: class RegionFinder  *)
(* of src/RegionFinder.cxx over a Reader, and the functions of the Python  *)
(* module that keep one finder, src/FOMTools.cxx.  They run on the file a  *)
(* PlainWriter has left, ended in order or killed.                         *)
(*                                                                         *)
(* A region is a list of pages, given by two addresses; a record is        *)
(* widened to pages before the two are compared.                           *)
(***************************************************************************)
EXTENDS PlainTrace

CONSTANTS
  PageSize,
  Addresses,      \* first and last addresses of the regions asked for
  Times,          \* times asked for
  None            \* no finder, no question yet

ASSUME PyToolsAssumption ==
  /\ PageSize \in Nat \ {0, 1} /\ Addresses \subseteq Nat
  /\ Times \subseteq Nat

VARIABLES
  finder,         \* the records of the finder's Reader, or None
  answer,         \* the last question and its answer
  alive           \* the interpreter runs

toolVars == <<finder, answer, alive>>
vars == <<traceVars, toolVars>>

\* A region begins with a page; its end is the address of its last page, or
\* of the last byte of it.
Region ==
  {r \in [pBegin : Addresses, pEnd : Addresses] :
     r.pBegin % PageSize = 0 /\ r.pBegin <= r.pEnd}
AllocTime == {"BEFORE", "ANYTIME", "AFTER"}

Init == TraceInit /\ finder = None /\ answer = None /\ alive = TRUE

-----------------------------------------------------------------------------
(* Overlap *)

FirstPage(r) == r.addr - (r.addr % PageSize)

LastPageNarrow(r) == r.addr + r.size    \* faulty variant: not widened

LastPage(r) == ((r.addr + r.size) \div PageSize) * PageSize + (PageSize - 1)

\* How a record lies to a region; "Undefined" where it is not reported.
Overlap(ri, r) ==
  LET ms == FirstPage(r)
      me == LastPage(r)
  IN CASE ri.pBegin >= me -> "Undefined"
       [] ri.pBegin >= ms /\ ri.pBegin < me ->
            IF ri.pEnd <= me THEN "Superset" ELSE "Underflow"
       [] OTHER -> IF ri.pEnd >= me THEN "Subset"
                   ELSE IF ri.pEnd >= ms THEN "Overflow" ELSE "Undefined"

InTime(r, t, when) ==
  CASE when = "BEFORE" -> r.tstart <= t
    [] when = "AFTER" -> r.tstart >= t
    [] OTHER -> TRUE

Reported(ri, r) == [record |-> r, overlap |-> Overlap(ri, r)]

\* The numbers up to n that are in S, in order: the loop over the records.
Picked(n, S) ==
  LET pick[k \in 0 .. n] ==
        IF k = 0 THEN <<>>
        ELSE IF k \in S THEN Append(pick[k - 1], k) ELSE pick[k - 1]
  IN pick[n]

Allocations(records, ri, t, when) ==
  LET at == Picked(Len(records), {i \in DOMAIN records :
                                    /\ InTime(records[i], t, when)
                                    /\ Overlap(ri, records[i]) # "Undefined"})
  IN [k \in DOMAIN at |-> Reported(ri, records[at[k]])]

AllocationSets(records, regions) ==
  [k \in DOMAIN regions |-> Allocations(records, regions[k], 0, "ANYTIME")]

\* Faulty variant: the last record that qualifies.
ValidityLast(hits, t, a) ==
  LET S == {i \in DOMAIN hits : LET r == hits[i].record IN
              r.tstart # t /\ r.addr <= a /\ a < r.addr + r.size}
  IN IF S = {} THEN 0 ELSE hits[Max(S)].record.tstart

\* The difference of the times is unsigned, so that "> 0" is "not equal".
Validity(hits, t, a) ==
  LET S == {i \in DOMAIN hits : LET r == hits[i].record IN
              r.tstart # t /\ r.addr <= a /\ a < r.addr + r.size}
  IN IF S = {} THEN 0 ELSE hits[Min(S)].record.tstart

-----------------------------------------------------------------------------
(* The functions *)

Stopped == state \in {"ended", "killed"}

\* The Reader of a file shorter than the fixed part of the header, 45 bytes,
\* throws; nothing catches it.  The fields of the header that are not modelled
\* lie before, between and behind the three that are: with one of these the
\* file is too short, with two it may be.  What the rest of a command line
\* means as records is not modelled.
OpenMallocFile ==
  /\ alive /\ Stopped
  /\ Stale(file) = {}
  /\ \/ /\ Len(file) < HeaderFields
        /\ alive' = FALSE /\ UNCHANGED finder
     \/ /\ Len(file) >= 2
        /\ LET s == Found(file) IN finder' = [i \in 1 .. Len(s) |-> s[i].record]
        /\ UNCHANGED alive
  /\ answer' = None
  /\ UNCHANGED traceVars

CloseMallocFile ==
  /\ alive /\ finder # None
  /\ finder' = None /\ answer' = None
  /\ UNCHANGED <<traceVars, alive>>

NoFinder ==
  /\ alive /\ Stopped /\ finder = None
  /\ answer' = [kind |-> "error"]
  /\ UNCHANGED <<traceVars, finder, alive>>

GetAllocations ==
  /\ alive /\ finder # None
  /\ \E ri \in Region, when \in AllocTime, t \in Times :
       answer' = [kind |-> "allocations", region |-> ri, when |-> when, time |-> t,
                  hits |-> Allocations(finder, ri, t, when)]
  /\ UNCHANGED <<traceVars, finder, alive>>

\* Asked for two objects of the trace at once, each with its pages, its time
\* and its address.
GetObjectValidity ==
  /\ alive /\ finder # None
  /\ \E i, j \in DOMAIN finder :
       LET objects == <<finder[i], finder[j]>>
           sets == AllocationSets(finder,
                     [k \in 1 .. 2 |-> [pBegin |-> FirstPage(objects[k]),
                                        pEnd |-> LastPage(objects[k])]])
       IN answer' = [kind |-> "validity", objects |-> objects,
                     ends |-> [k \in 1 .. 2 |->
                       Validity(sets[k], objects[k].tstart, objects[k].addr)]]
  /\ UNCHANGED <<traceVars, finder, alive>>

Trace == TraceNext /\ UNCHANGED toolVars

Terminated == Stopped /\ ~alive /\ UNCHANGED vars

Next ==
  \/ Trace
  \/ OpenMallocFile \/ CloseMallocFile \/ NoFinder
  \/ GetAllocations \/ GetObjectValidity
  \/ Terminated

Spec == Init /\ [][Next]_vars

-----------------------------------------------------------------------------
(* Properties *)

\* The bytes of all pages of a record; the byte behind it counts as its own.
PageBytes(r) ==
  LET pages == {b \div PageSize : b \in r.addr .. r.addr + r.size}
  IN {b \in 0 .. r.addr + r.size + PageSize : b \div PageSize \in pages}

\* The four ways two ranges can meet, MemRecord::OVERLAP_TYPE.
OverlapOfSets(A, R) ==
  CASE A \cap R = {} -> "Undefined"
    [] R \subseteq A -> "Superset"
    [] A \subseteq R /\ Min(R) < Min(A) -> "Subset"
    [] A \cap R # {} /\ Min(A) <= Min(R) /\ Max(A) < Max(R) -> "Underflow"
    [] OTHER -> "Overflow"

\* The answer a to a question about a region, from the records of the finder f.
HitsRight(f, a) ==
  LET right(r) == OverlapOfSets(PageBytes(r), a.region.pBegin .. a.region.pEnd)
      hits == a.hits
  IN /\ {hits[k].record : k \in DOMAIN hits} =
          {r \in {f[i] : i \in DOMAIN f} :
             right(r) # "Undefined" /\ InTime(r, a.time, a.when)}
     /\ \A k \in DOMAIN hits : hits[k].overlap = right(hits[k].record)
     /\ \A k, n \in DOMAIN hits :
          k < n => hits[k].record.tstart < hits[n].record.tstart

\* A question about a region is answered with the records whose pages meet it,
\* no other, in the order of the trace, and says rightly how each one lies to
\* it: the nested comparisons of addresses agree with sets of bytes.
OverlapsFound ==
  answer # None => (answer.kind = "allocations" => HitsRight(finder, answer))

\* The times of the records of f that cover the address of o.
CoverTimes(f, o) ==
  {f[i].tstart : i \in {j \in DOMAIN f : o.addr \in f[j].addr .. f[j].addr + f[j].size - 1}}

EndsRight(f, a) ==
  \A k \in 1 .. 2 :
    LET o == a.objects[k]
        times == CoverTimes(f, o)
    IN a.ends[k] = IF times \subseteq {o.tstart} THEN 0 ELSE Min(times \ {o.tstart})

\* The validity of an object ends with the first record of the whole trace, of
\* another time, that covers its address.  That need not be the next one: the
\* difference of the times is unsigned, so that an object at an address that
\* was allocated before is given an end before its beginning.  An object
\* without such a record is given 0, where the example that draws the answers,
\* plotPersistentObjects.py, looks for -1.
ValidityEnds ==
  answer # None => (answer.kind = "validity" => EndsRight(finder, answer))

=============================================================================
