# FOM-Tools: models, checks and proofs

FOM-Tools measures how a program uses its memory. A preloaded library records
every allocation of the program with its stack trace; a monitor freezes the
program from time to time and looks at which of its pages are in use; tools and
a Python module read the recordings and relate them to the pages.

This directory holds TLA+ models of that code, the TLC configurations that check
them and proofs that TLAPS checks. Paths below are relative to the repository.

## 1. Inventory

| Component | Source | State | Operations | Interacts with |
|---|---|---|---|---|
| malloc hooks and recording lock | `src/mallocinterpose.cxx` | atomic flag, `fwriter`, `wLocal`, record buffer, symbol map and names, exit registrations | `malloc` `calloc` `realloc` `free`, `show_backtrace`, `prepFork` `postForkParent` `postForkChildren`, `atexit_handler`, `mallocHookSetCapture` | calls the writer; called by every thread, by `fork()` and by `exit()` |
| calloc bootstrap | `src/mallocinterpose.cxx` 594-617 | flag, 4096-byte buffer and its fill | `calloc` called by `dlsym` | the hooks |
| trace writers | `src/Streamers.cxx` 207-446, 992-1145 | file, header, bucket buffer, record and bucket counts, compression time | construct, `writeRecord`, `closeFile`, `reopenFile`, `updateStats`, destroy | the hooks, fork handlers, `MHbin2txt`, tests |
| trace readers | `src/Streamers.cxx` 100-209, 700-989, 1147-1317 | record index, cursor, cache of inflated buckets | open, `at`, `size`, close | every analysis tool |
| region finder | `src/RegionFinder.cxx` | trace | overlap queries in a time window | Python module |
| page tools | `src/MergePages.cxx` `src/Parser.cxx` `src/PageStatusChecker.cxx` | list of regions | merge pages, slice arrays, read `/proc/*/pagemap` | Python module, monitor |
| address resolution | `src/Addr2Line.cxx` | library map | find the library of an address | `MHbin2txt` |
| Python binding | `FOMTools.cxx` | open stream, cursor | open, close, next, at, lifetime queries | readers, region finder |
| monitor | `Monitor.py` | freezer state, iteration, output list | snapshot, signal handlers, main loop | kernel freezer, page tools |
| lifetime matching | `extras/record2TTree.cxx` | look-ahead window, map of frees | fill a tree with object lifetimes | readers |
| post-processing, plots, dumps | `postprocessing/`, `examples/`, `src/MHbin2txt.cxx`, `src/dumpCmdline.cxx` | none kept | convert and plot files | files |

What is hard in it: the hooks run in any thread of any program, between the
`fork()` and `exit()` of that program, and must never block it or call
themselves; the writers count records and buckets in a header that is only
right after an orderly close; the readers hand out pointers into buffers they
recycle; the monitor is interrupted by signals while its target is frozen.

What makes each component correct:

* hooks: one thread at a time in the writer; no call lost without contention;
  every index of a record resolvable in the table written beside the file; a
  fork leaves the parent's file intact and gives the child its own; the program
  is neither blocked nor ended by being recorded;
* writers and readers: what is read is what was written, in order, with the
  time spent in compressing taken out of the time stamps;
* readers: `at(i)` returns record `i` whatever was asked before, and a record
  handed out stays what it was while it is in use;
* region finder, page tools: agreement with a direct definition by sets of
  pages;
* monitor: a frozen program is thawed again, and each snapshot has its file;
* lifetime matching: an allocation is paired with the first later free of its
  address.

## 2. Modules

### MallocHook (`src/mallocinterpose.cxx`)

One variable `mem` holds an address space per process: exactly the globals of
the library, so that `fork()` is a copy of it. `pc` says where a thread is:

| `pc` | place in the code |
|---|---|
| `idle`, `exit` | application code, before and inside `exit()` |
| `create` | inside `if(!fwriter)` with the flag taken |
| `called` | the real allocation has returned, the flag not yet tested |
| `unwind`, `write`, `release` | `show_backtrace`: frames, second record of `realloc`, clearing of the flag |
| `prepSpin`, `prep`, `fork` | `prepFork` before and after it gets the flag; the fork itself |
| `parentSpin`, `parent`, `childSpin`, `child`, `childExit` | the handlers after it |
| `dump`, `delete` | `atexit_handler` |

Actions are the steps between those places. The application's choices (call a
hook with some type and stack, start a thread, fork, exit, switch the capture)
are actions without fairness; a fork may fail. Abstracted: sizes, addresses and
time stamps, the wording of a symbol name (it contains the ip and stands for
it), the environment variables. The writer is `PlainWriter`, the default; each
process has an output file of its own, as with the default name or `%p`.

A hook called inside the library (the writer and `fopen` allocate) finds the
flag taken by its own thread and records nothing, which is a stuttering step.
A thread is only started when the writer exists: `pthread_create` allocates, so
a hook has run before. Writing to a deleted writer is undefined; the model lets
it end the process. Writing to a closed file throws: out of `malloc`, `calloc` and
`realloc`, which are declared `throw()`, so that the process terminates
(`WriteThrows`); out of `free`, which is not, to an application that may catch it
and then goes on with the flag taken (`FreeThrows`).

| Run | Instance | Question |
|---|---|---|
| `hook_threads` | 3 threads, 2 processes, one `realloc` or `free` each, one fork, exit, user control, a symbol map that fills up | are threads kept apart, is the realloc pair kept together, do all indices resolve |
| `hook_forks` | no threads; parent and child, two calls each, fork at any point or failing, exit at any point | is anything lost, is any file damaged, does every handler finish |
| `hook_child_spins` | violation: threads and a fork | the child's handler spins for ever |
| `hook_throws` | violation: threads that call `malloc`, and a fork | a record is written to the closed file |

Three threads are enough for a holder, a waiter and a third that comes between
them; two processes for a fork whose child outlives or precedes its parent. One
call per thread already lets every pair of hook steps interleave; `hook_forks`
has two, so that records are made before and after the fork. `IndexMax` is 2 in
`hook_threads`, so that the test for a full symbol map is taken both ways, with
a trace of one symbol and a recursion of two frames. The threads that are not
the first are interchangeable (symmetry; the run has no liveness property).
`hook_threads` and the violation runs do not check for deadlock: the child that
spins for ever is one.

Fairness (`FairSpec`) is weak fairness of the library's steps of each thread:
the operating system runs every runnable thread. Nothing is assumed of the
application. The spins of the fork handlers are only claimed to end where
nobody else competes for the flag: a test-and-set lock is not fair.

### ReaderBase, IndexingReader and PyStream (`src/Streamers.cxx` 700-820, `FOMTools.cxx`)

`ReaderBase` is the abstract reader: a file of `size` records, `at(t)` answers
with record `t` or refuses. A record is named by its position in the file, so
"the right record" is `record = t`. `IndexingReader` and `ZlibReader` are both
checked to implement it, with `size <- m_numRecords`.

`IndexingReader` has the scan of the constructor (`Open`), the four ways through
`at()` (`AtRefused`, `AtPoint`, `AtAhead`, `AtFromPoint`) and `size()`. An
address of a header is its position, so that the walk over stack counts becomes
an addition; `size_t` keeps its width (`% Word`), because a position behind the
cursor must look far ahead. `walked` remembers how many headers the last call
has passed. The file ends with a complete record.

`PyStream` extends it with the module's functions over one static reader and
one static offset. The interpreter's lock makes a call one step. A C++ exception
that leaves a call ends the interpreter.

| Run | Instance | Question |
|---|---|---|
| `pystream` | up to 7 records, periods 1, 2, 3 and the default, two streams one after another | does the cursor keep to the record it stands for, is every answer right, is a walk short, does `next` keep the order |
| `pystream_next` | violation, same instance | `next()` asks for a record past the end |

With a period of 3 there are three index points and positions at every offset
before, at and behind the cursor; with the default period a file has one index
point. Two streams suffice for state that survives `openStream`.

### ZlibReader (`src/Streamers.cxx` 1147-1317)

The file is the sequence of its buckets' sizes; `BucketOf` is the bisection with
its fallback to the average, `m_buffers` the sorted list of `BuffRec`, `content`
the inflated records, `rStart` what the constructor's scan has counted up to each
bucket. `AtCurrent`, `AtOther` and `AtLoad` are the three ways
through `at()`. Two things of the C++ matter: a load overwrites the bucket of a
buffer inside the sorted list and sorts again, and `BuffRec` has a swap that
does not exchange `lastUse`. `std::sort` swaps only above 16 elements, so
`swaps` chooses once between whole moves and every outcome of swapping. `lastUse`
is a clock cut to microseconds: `now` goes on by a unit between two loads or not
at all, so that loads can tie and the order of the list decides (`Oldest`). The
file has no empty bucket and was closed in good order; `ZlibTrace` says what the
writer leaves.

| Run | Instance | Question |
|---|---|---|
| `zlib` | every file of 1 to 4 buckets of 1 or 2 records, 2 buffers, loads in 4 microseconds, any calls | is a cached bucket found, is the short cut for the current bucket ever stale, is the answer right, is the newest bucket discarded only in a tie of all buffers |

Four buckets over two buffers give loads below, between and above the cached
buckets; within four microseconds, any number of loads in each, every buffer is
reused with and without a tie.

### ZlibTrace (`src/Streamers.cxx` 992-1145, `src/mallocinterpose.cxx` 250-300)

`ZlibTrace` follows records from a call's three time stamps through
`writeRecord`, compression, file and header to what `ZlibReader` makes of them.
A stamp carries beside its value the value it would have had if no compression
had delayed the program (`paused` counts those delays); the properties compare
the two after the reader has corrected the times. For the true values time stands
still while a bucket is compressed, whoever waits for it.

A hook holds the flag while it writes (proved in `MallocHookProofs`): `job` says
what the holder is at. `WriteRecord` puts a record into the buffer, or begins to
compress the bucket for which it is too long; `CompressEnds` takes the time that
has passed since then; the bucket is then written piece by piece, and
`BucketWritten` is the last piece. Meanwhile the other threads stamp their calls,
return from them and, finding the flag taken, go on unrecorded (`Unrecorded`).
A `realloc` writes its two records one after the other (`WriteFree`, `WriteAlloc`).
The end of the process goes from `closing` (the last bucket) over `counting` (the
number of records is in the header) to `closed` (the number of buckets too). `Kill`
can come between any two of these steps: inside a bucket, which is then `Torn`, or
between the fields of the header. Durations of compressions, lengths of records
and the point of a fork or of a kill are free choices. Calls under way go on during
a fork. The child's deletion of its writer is one step, because that writer is
closed and the step writes nothing (`ProcessInv` in the proofs). New calls begin in
state `running` only: at the end they find the flag taken; during a fork, when
nothing is compressed, a stamp is right as it is, and a hook that gets the flag
while the file is closed is `MallocHook`'s part (`hook_throws`).

| Run | Instance | Question |
|---|---|---|
| `trace` | 2 threads, 3 calls, a fork counting as one, buckets of 3, records of 1 and 3, one fork, exit or kill | is a record lost, repeated or moved, is a file taken for complete only if it is, are the times right |

Three calls make up to six records: enough for two full buckets and a rest, and
for a compression at either record of a `realloc`, while another thread is before,
between or behind its stamps. `compress2` takes one unit of the clock, besides
those that the other threads' stamps take meanwhile. The threads are
interchangeable (symmetry). A record of 3 is as long as a bucket; a longer one is
left out: `writeRecord` has no case for it, and with the default sizes a stack
would need more than ten thousand frames.

### PlainTrace and PyTools (`src/Streamers.cxx` 100-461, 575-678, `src/RegionFinder.cxx`, `FOMTools.cxx` 83-279, `src/MHbin2txt.cxx`)

`PlainTrace` is an uncompressed trace cell by cell: `pending` holds the `write()`
calls the operation under way has still to make, `WriteCell` makes the next one,
and `Kill` may come after each. The header has three fields of the twelve, those
whose values change or decide where the records begin, and one cell per argument
of the command line. `Starts` is the loop of the constructor of `Reader`, turn by
turn: `NextHeader` follows the stack count of a header to the next one, until the
end of the file. A cell that is not a header is taken for one without a stack.
`PlainTrace` has no specification of its own: `PyTools` composes its steps with
the Python module, which opens the file when the writer has stopped, in good
order or killed. `Overlap` is the nest of comparisons that the source repeats six
times, `Allocations` and `AllocationSets` are the two queries, with `Picked` for
their loop over the records, `Validity` the search in `getObjectValidity`. An
answer is one step: the functions keep nothing but the finder. A page has more
than one byte, as in the code. `updateStats` may set a shorter command line: what it
leaves of the longer one are the `Stale` cells, which a reader takes for records
until records have been written over them; the module opens a file without any.
A file too short for the fixed part of the header ends the interpreter.

| Run | Instance | Question |
|---|---|---|
| `pytools` | up to 3 records of 0 or 2 stack ids, at, beside and over the border of pages of two bytes; one fork, `updateStats` with a longer or an empty command line, end or kill at any write; all regions over four addresses, both time windows, all pairs of objects | are the records found again unless stale cells are left, is the header right, do regions and validities agree with sets of bytes |

Three records give a first, a middle and a last one, so that a reader that starts
at a wrong cell goes on through right ones; pages of two bytes give addresses
inside, at the first and at the last byte. `updateStats` runs any number of times,
from one argument to two or none and back, so that stale cells arise, are covered
by the first record, and stay in the middle of a file that was closed before that.

### Lifetimes (`extras/record2TTree.cxx`)

One action is one turn of a loop of `convert`; `pc` says which loop is under way.
Four cursors besides the record in turn carry the overhead of the records they
have passed, each of them a pair of an index and a sum: `low` and `high` are the
ends of the density window, `look` is the last free seen ahead (`lastFreeIndex`
and its companions), and `ahead` is the search that starts from it (`currIdx`,
`aoff`). `freeMap` has the frees that were seen and not yet used, as queues by
address. `BeginSearch` is what the code does with the first record of a search
before the inner loop, `SearchTurn` a turn of that loop; they differ, see section 3.
The traces are those of any program (`TracesAssumption`): with several threads calls
overlap, the correction subtracts overheads that did not delay the call, and
corrected times go back or even below the start of the trace. The code computes
them as `uint64_t` and compares some as `uint64_t`, some as `int64_t`, to which it
assigns them: the values are kept as integers, which agree with the words modulo
2^64, and `Unsigned` and `Signed` are applied where one is compared or written, as
the variable's type says. The assumption keeps times and windows below a quarter
of a word. `OneThread` says that no two calls of a trace overlap.

| Run | Instance | Question |
|---|---|---|
| `lifetimes` | every trace of up to 6 calls on 2 addresses, `free(0)` too, in a steady and an uneven rhythm of one thread and in two rhythms in which calls overlap, and one trace of 10 calls on 4 addresses | do the cursors agree on the time of a record, is the density that of the window, does an allocation live until the first free of its address |

In the rhythm `Overlap` corrected times go back, in `Deep` below the start of the
trace, where the two readings of a word differ.
Six calls hold two allocations and frees of one address with another pair inside;
the look-ahead time of 4 ends before, at and behind the end of the trace. A map of
one entry is full or not, so that the time limit of the search applies in one
trace and not in another; with the default of a million entries it hardly ever
does. The longer trace, `KeptTwice`, is one where a free is kept twice
(section 3). `Percent` is 2, so that the marker is zero only for traces of one
record; these crash at their first `Fill`, as in the code.

### PageLists and Monitor (`Monitor.py`, `src/PageStatusChecker.cxx`, `src/MergePages.cxx`, `src/Parser.cxx`)

`Monitor` is the script, the freezer, the shells, the program and the signals.
`getSnapshot` is a stack of frames, because a handler runs in the middle of
another call: `pc` says which loop the frame is in, `echo` what its shell has
still to write to `freezer.state`, `late` that ten seconds have passed since its
start, `killSwitch` that it has asked again. Python runs handlers between its
own instructions, hence not while `analyze` (C) reads the pages, but while the
script waits for a shell, which may write later. Writing FROZEN, the first
time or again, makes the freezer FREEZING; that it becomes FROZEN is up to the
kernel, which may never do it, so that the script gives up without any signal, too.
The shell of the handler of SIGINT is one step: a SIGUSR1 that comes while the script
waits for it is left out. `cgroupPath` is one of the
three the script looks for; the first is written without the leading slash, so
that nothing is there, the shells fail and opening the state ends the script.

`PageLists` has the file formats. `Merged` is the loop of `MergePages` over the
lines of a file, `AllRegions` what it has found at the end. `std::sort` may leave
regions of one size in any order: `Orders` are the orders that are sorted by size,
and `MergePages` and `ParseMergedOutputFiles` are the sets of what can come out.
`ParseOutputFiles` is a slice with the rows it allocates and those it fills. They
run on every file a snapshot writes.

| Run | Instance | Question |
|---|---|---|
| `monitor` | 2 snapshots, nested or not, any heap of up to 3 pages that changes once, mounts `sys/fs/cgroup` and `/cgroup` | does a file show one moment, is each file counted, does a snapshot end, do merging and slicing keep to the file |
| `monitor_sigint` | violation: mount `/mnt/cgroup`, one snapshot | the handler of SIGINT leaves the program frozen |

Two snapshots are enough for one inside another and for one that finds no heap
before one that does; three pages for a run at either end and one between. The
third mount differs from the second only in the handler of SIGINT.

Fairness: weak fairness of the script, of each shell and of time. The kernel need
not freeze, the program need not end, and no signal has to come: `SnapshotEnds`
holds by the time-out of the polls.

## 3. What the checks show

The properties, by component (the comment before each one says more):

* hooks: `MutualExclusion`, `ReallocPaired`, `RecordsResolve`, `TableComplete`,
  `NothingLost`, `FileGrows`, `Survives`; live: `HookReturns`, `ForkReturns`,
  `ExitReturns`;
* plain reader: `CursorInPlace`, `WalkBounded`, `SizeIsNumRecords`,
  `ImplementsReaderBase`; module: `StreamInOrder`, `AtIsGuarded`;
* compressed reader: `BuffersSearchable`, `CurrentIsCached`, `NewestKept`,
  `ImplementsReaderBase`;
* compressed trace: `BufferFits`, `RecordsKept`, `HeaderHonest`,
  `EmptyOnlyFirst`, `TimesExact`, `NeverLate`, `CallsKeepTheirOrder`;
* plain trace and its tools: `RecordsFound`, `HeaderHonest`, `OverlapsFound`,
  `ValidityEnds`;
* converter: `ClocksAgree`, `DensityCounts`, `LivesUntilFreed`;
* monitor and page tools: `SnapshotConsistent`, `FilesCounted`, `MergedAreRuns`,
  `SlicesFilled`; live: `SnapshotEnds`.

Every property of a passing run has a mutant, a faulty variant of one operation
kept beside it in the module, that breaks it.

Disagreements between code and comments or declarations, each shown by a run:

| Run | What the code does |
|---|---|
| `hook_child_spins` | A child forked while another thread holds the flag spins in `postForkChildren` for ever. |
| `hook_throws` | Between `prepFork` and `postForkParent` the flag is free and the file closed: a `malloc` of another thread throws, though declared `throw()`. |
| `pystream_next` | `next()` tests the offset, increments it, then asks: the call after the last record throws, the first record is never returned. |
| `monitor_sigint` | The handler of SIGINT thaws below `/cgroup`, wherever the program was frozen. |

Also met while modelling, and not given a run of their own.

*Readers and writers.* `size()` of a plain trace without records wraps to a large
number, so that `at()` of such a stream throws (`SizeIsNumRecords` and
`AtIsGuarded` say "that has records"). An empty first bucket makes the reader's
`rEnd` wrap (`ZlibReader` has no empty bucket, `EmptyOnlyFirst` says which one can
be). The capacity of `index_t` is tested once per record, so that a trace that
brings several new symbols can pass it. With more than 16 buffers `lastUse` stays
behind when buffers are swapped, which `NewestKept` leaves out. When all buffers were
loaded in one microsecond, a load can discard the newest. `lastUse` is set by
a load and never by a use: the comment at `src/Streamers.cxx` 1268 says "pick the
LRU", but a bucket in constant use is discarded as soon as it is the oldest. If the
free of a `realloc` sets off a compression, `show_backtrace` sets the stamps of
the allocation anew without the shift the free has got, and the reader gives the
allocation an earlier time than its free. `ZlibWriter::writeRecord` shifts a
record where it is; those the converter of `test/testCompression.cxx` hands it are
mapped read-only, so that it dies at its first full bucket. `updateStats` with a
shorter command line than before does not cut the file: the tail of the old header
stands behind the last record, where `Reader` takes it for one, until records cover
it, and in front of the first one if the file was closed and opened again before
that (`RecordsFound` says "no stale cell"). A stamp taken while another thread
compresses is corrected by the whole compression if its record comes after it: it
comes back too early, never too late (`NeverLate`).

*Hooks.* `fork()` from an exit handler that runs after `atexit_handler` spins on
the flag; a free is recorded after the block is free, so that another thread can
be given the address and record it first.

*Python module.* `getObjectValidity` answers 0 for an object whose address is not
allocated again, where `plotPersistentObjects.py` 68-73 looks for -1; the
difference of two unsigned times is compared with `> 0`, so that an earlier record
passes and an object at an address used before is given an end before its
beginning (`ValidityEnds` says what the code does in both cases).
`mergePages` names its output by its second argument exactly when that is empty.

*Converter.* A free that the search has kept before its inner loop, which does not
move past it, is met and kept again by the next search; in a trace with leaks a
later allocation can be given an earlier free and a negative lifetime. It happens
in a trace without leaks too, when the map is full and the look-ahead time over
(`KeptTwice` in `MCLifetimes`): the next allocation of the address is given the
free of the one before. `LivesUntilFreed` therefore asks that the trace is over
within the look-ahead time, or that the address is allocated once and no calls
overlap. With calls that overlap, a free whose corrected time is below the start of
the trace is a huge `uint64_t` (lines 166, 201): the search takes it to be beyond the
look-ahead time and ends, and a lifetime is missed. The ends of the density window
then stop at a record that is out of order, and the density is not the number of
records in the window (`DensityCounts` asks for `OneThread`). That first
free is not counted in `tableSize` when the address has a queue, so that the
count can wrap. Fewer than 100 records make the marker zero, and the remainder by
it ends the process; an empty trace throws. A density window of 0 makes the
density wrap. With the default `mapLen` the time limit of the look-ahead never
applies. The second positional argument overwrites the input name, here and in
`MHbin2txt`.

*Monitor.* A snapshot by a signal inside another thaws the program under the outer
one, whose file is then named by the inner one's number, or taken back while the
inner one's is in the list; `SnapshotConsistent` and `FilesCounted` leave those out.
The shell of an interrupted snapshot can write FROZEN after the handler of SIGINT
has thawed. A script that gives up, or ends by an exception of `analyze`, leaves
the program frozen. On the first mount no snapshot is possible.

*Address resolution.* The loop over the libraries ends one past the last, and an
address equal to the begin of one is not found in it.

## 4. What is proved

Eight modules hold the theorems, one or two for each component that has state;
every invariant and every safety property that a passing run checks is the
subject of one. A module's
invariant was checked by TLC on the component's instance before it was proved.
No theorem depends on the bounds of a run; what each assumes of the constants is
named below.

### Hooks

`MallocHookProofs`, for any number of processes, threads, calls, forks, symbols
and any set of stacks, from `SlotsAssumption` (the first process and thread are
slots, `None` is neither a slot nor a number), `CallAssumption` (finitely many
call sites, stacks made of them) and `BoundAssumption` (types of the switches
and bounds):

* `TypeCorrect`: `Spec => []TypeOK`. `TypeOK` is not inductive: a step reads
  `mem[proc[t]]`, so a thread in use must have a process, and one that was born
  (`Placed`). `TypeInv` is both.
* `FlagIsALock`: `Spec => []MutualExclusion`, by
  `MutexInv == TypeInv /\ ExitPlaced /\ MutualExclusion`. `ExitPlaced` says that
  a thread in the exit handler is the exiter of its process: the handler takes
  the flag without testing it, so exclusion is claimed up to that moment only.
  Four lemmas deal with the four parts of `Next`; `KeepLemma`, `AcquireLemma`
  and `ReleaseLemma` with the three kinds of step.
* `PairsAreKept`: `Spec => []ReallocPaired`, by `PairInv == MutexInv /\ Pairs`.
  Mutual exclusion keeps other records out of a pair; that its second record is
  written needs two more facts: `Halfway`, that the file is open and the call a
  `realloc` while the pair is half written (so that no step ends the process
  there), and `Authors`, that the writer of a record is a thread of the process
  of the file. `PairKeepLemma` and `PairAppendLemma` are for the steps that write
  no record and those that write one.

`MallocFilesProofs` builds on it:

* `IndicesResolve`: `IndexFits => (Spec => []RecordsResolve)`. `IndexFits` says
  that `index_t` (`src/FOMTools/Streamers.hpp` 50) has a value for every symbol of
  the program: the code aborts at the capacity at the start of a call only, so a
  long trace can pass it in the middle, and without the assumption the theorem is
  false. `TableInv` adds to the types that the map and the list of names of every
  address space are inverse to one another (`TablesOK`) and that the indices a
  thread has found stand for the frames it has unwound (`CallsOK`). It needs no
  mutual exclusion: the tables only grow, so an index that resolves goes on to.
* `NoRecordLeaves`: `Spec => FileGrows`; `NoneIsKilled`: `Spec => []Survives`;
  `CallsAreRecorded`: `Spec => []NothingLost`; `TablesAreComplete`:
  `IndexFits => (Spec => []TableComplete)`. One invariant carries them,
  `FileInv == MutexInv /\ Files`. `WriterOK` ties the two pointers to the writer to
  the writer object. `FirstAt` says that a thread which finds no writer, or in a
  child only its parent's, has an empty file and is alone in its process
  (`Sole`): this is why renewing the writer loses no record, and it holds with
  threads too, because `fork` copies one. `SoloAt` holds in programs without
  threads and says where the writer and the flag are for each place of the only
  thread; `Quiet` is for programs that neither fork nor exit, which survive with
  any number of threads. `TablesAreComplete` puts both invariants together.

### Readers and the Python stream

`PyStreamProofs`, for files of any length, any period and any number of calls, from `IndexingAssumption` (`size_t` holds more than the positions of a
file; the marks are not numbers):

* `TypeCorrect`, `CursorCorrect`, `WalksAreShort`, by
  `Inv == TypeOK /\ CursorInPlace /\ WalkBounded`. The type of the header is only
  inductive with the cursor in place, and that needs the wrap of `size_t`:
  lemmas `Division` and `Wrap`.
* `Implements`: `Spec => ImplementsReaderBase`; every `at()` is a step of
  `ReaderBase`, and opening another file maps to its `Open`.

* `SizeCorrect`: `Spec => []SizeIsNumRecords`. The index points are a set given by
  the data; `CountMultiples` counts the multiples of the period below a number by
  its least counterexample, and `SizeLemma` does the rest in `size_t`.

Of the module's functions, from the same assumption and `PyStreamAssumption` (files
may have a record): `StreamStaysInOrder`, `AtStaysGuarded` and `ModuleUsesReader`, by `PyInv`.
`StreamInOrder` alone is not inductive: `AtLast` says that the offset of `next()` is
the record it has returned last, and that it lies in front of the end of some
file, because `openStream` keeps it. `ModuleUsesReader` is `PySpec => Spec`: what the
module's functions do to their static reader is what a reader may do, so that the
theorems above hold of it.

`ZlibReaderProofs`, for any number of buckets, records in them, buffers and loads,
from the assumptions of `ZlibReader`: `SearchableAlways`, `CurrentAlwaysCached` and
`Implements` (`Spec => ImplementsReaderBase`), by one invariant `Inv`. Its parts go
around in a circle and only hold together: the search finds a cached bucket only
in a list that is sorted (`Ordered`) and has no bucket twice (`Unique`); that the
list stays so needs that the buffer a load overwrites is not the current one
(`CurrentIsCached`); the answer is right because a buffer listed with a bucket
holds its records (`Holds`), through every way `std::sort` may exchange elements
with a swap that leaves `lastUse` behind; and `Scanned` makes the bisection over
the bucket index right, because no bucket is empty. `NewestIsKept` assumes nothing of
the clock but that it does not go back: `Timely` carries it, which says that, while
whole elements are moved, no buffer has a later use than the one loaded last. A load
that discards that one has found no earlier use than its, so all are equal. With one
buffer, every load does.

### Compressed trace

`ZlibTraceProofs`, for any threads, lengths, durations, bucket size and numbers of
calls and forks, from `ZlibTraceAssumption` and `RecordsFit` (no record is longer
than a bucket: `writeRecord` has no case for one, and would copy past the buffer):
`NoRecordIsLost`, `BufferNeverOverflows`, `HeaderIsHonest`, `OnlyFirstIsEmpty`,
`TimesAreExact`, `NoStampIsLate`, `OrderIsKept`, for every property of the run
`trace`. The argument has three layers:

* sums and joined rows are recursive over a sequence; `SumAppend` and
  `JoinedAppend` are shown by the least place where two unfoldings of the
  recursion would differ, and are all that is used of them;
* `WriterInv(w, out, l)` relates a writer, its file and the records it was
  given. `PutLemma` is for a record that fits, `CompressLemma` for a bucket that is
  written. It is stated of any records `l` because the last one of the log may
  still be waiting for a compression (`Waits`);
* `Inv` adds what the process and the calls under way contribute: `CallInv`, that
  a call's stamps are in order and put off by no more than all compressions so
  far, the one under way included (`Lost`); that these are what the file sums up to,
  except for the bucket being written (`Pending`); that the buffer is empty only
  while the file is (`Filled`), or when the last bucket is written (`Flat`); that the
  number of buckets is in the header only when all the rest is; that the writer a
  child deletes is closed, so that deleting it writes nothing.

`Good(r, off)` is what the times rest on: in a bucket before which compressions
took `off`, every stamp of `r` is put off by at most `off`, the later ones more,
and the last one, unless it is the free of a `realloc`, by exactly `off`.

### Monitor

`MonitorProofs`, for heaps of any size, any number of snapshots and signals nested
to any depth, from `MonitorAssumption`: `SnapshotsAreConsistent` and
`FilesAreCounted`, by `MonitorInv == MonitorType /\ Snapshots /\ Counts`. `Snapshots`
says why a call that no handler has interrupted reads one moment's heap: it is
the only one, the program is frozen from when it has seen that until it has read
the last page, no shell still has a state to write, and only an exception can end
the script there. `Counts` follows the number of the iteration through the steps
of a snapshot at an interval, where none is nested.

`MergesAreRuns` and `SlicesAreRight` are about what becomes of the files, of which
`MonitorInv` says that they are lists of statuses, of any length:

* `Chain(all, pages, k)` is the invariant of the loop of `MergePages` over the
  lines: the regions up to page k follow one another, each has one status and the
  next another, and the first is that of address 0. `ChainOpens` and `ChainGoesOn`
  are its two kinds of turn; the loop as a whole goes by the least line at which
  the invariant would not hold. `RunsAre` reads the longest runs off the chain:
  the region of address 0, which is not written, is empty or the run of pages not
  loaded at the start;
* an order of `Orders` loses no region and takes none twice (`OrdersPermute`), and
  there is one (`OrdersExist`, from `Ranks`, which counts a finite set in any
  total order), so that the theorem speaks of something;
* `NthLemma` says that `Nth` counts a finite set of numbers in order; a slice is
  an interval of them (`NthOfInterval`).

### Plain trace and its tools

`PyToolsProofs`, for any calls, lengths of stacks and command lines, numbers of
records and forks, sizes of pages and questions, from `PlainTraceAssumption` and
`PyToolsAssumption`:

* `RecordsAreFound` and `PlainHeaderIsHonest`, by `TraceInv`. `Laid(off, m)` in it
  names the layout that the writer works towards: `Offsets` says where the records
  begin, `Lengths` how much of that is in the file and how much pending,
  `Contents` what stands at each place of either, `CommandLine` that the header
  gives the length m. A kill after any write leaves the file and forgets what is
  pending, so the invariant has to say that what is missing was the end of the
  last record and nothing else. `Counts` is about the first two fields of the
  header, which are 0 until the end. A shorter command line leaves arguments of the
  longer one behind what has been written (`top`), until records have covered them.
  If the file is closed and opened again before that, they stay where they are: that
  is `Gap`, the other half of the invariant, in which there are stale cells and the
  theorems claim nothing but the counts. `StartsAre` is what the loop of `Reader`
  finds without stale cells: its k-th turn is at the k-th offset, by the least turn
  that is not;
* `AnswersAreRight` and `ValiditiesEnd`, by `ToolInv`: the records of the finder
  are numbered by their times, because the file was laid out so. `OverlapRight`
  goes through the comparisons of `Overlap`, of which `PagesOf` says what they
  mean in bytes: a page's first and last byte are multiples of its size and one
  less, for which `Quotient` and `DivisionGrows` are the facts of division.
  `PickedLists` says that the loop over the records returns the hits in the order
  of the trace.

### Converter

`LifetimesProofs`, for any traces, any window, any look-ahead and any size of the
map, from `LifetimesAssumption` and `TracesAssumption` (times and windows far below
the width of a word, in which `Words` and `Compared` show what the conversions and
comparisons of words mean for integers):

* `CursorsAgree`: `Spec => []ClocksAgree`, by `ClockInv`: types, where the cursors
  can be (`Places`), what each has counted (`Clocks`) and that every entry of the
  map is a free of its address with its time (`MapAt`). The sums are recursive in
  the length of the trace; `CostStep` is all that is used of them;
* `DensityIsCounted`: `Spec => []DensityCounts`, by `WindowInv`, which adds that the
  records a cursor has passed lie in front of its end of the window and that it
  stops at one that does not (`Edges`). That holds in traces in which no two calls
  overlap: the ends only move forward, and the corrected times must not go back;
* `AllocationsLiveUntilFreed`: `Spec => []LivesUntilFreed`, by `LifeInv`. In a balanced
  trace an allocation's first free comes before the next allocation of its address
  (`Pairs`). `Searching` says that the search has not passed the free it wants,
  `Kept` that the free of an address used once is in the map as soon as a search
  has passed it, and `Results` that what was found is right. For addresses used
  again, when the look-ahead time does not run out, three more parts say which
  frees are in the map and in which order: `PastSeen`, `AllKept` and `MapRight`. They
  allow for the free that is kept twice: it is then the last free of the
  trace (`Final`), and no allocation is left to be given it.

### Only model-checked

* Liveness (`ForkReturns`, `ExitReturns` and `HookReturns` of `MallocHook`,
  `SnapshotEnds` of `Monitor`): proofs under fairness and `ENABLED` are outside this
  prover's reach.
* That the properties of the four violation runs are violated is shown by TLC's
  counterexamples alone.
* The unbounded theorems are about the models; that `Merged`, `Starts` and the like
  compute what the C++ does is a matter of reading them beside the source.

## 5. Not modelled, and the plan

Not modelled for good: the Python plotting scripts, examples and post-processing
(files in, files out), `dumpCmdline`, the wording of the text dump, the
environment variables, the deflate algorithm, the second unwinder (GNU
`backtrace`), the BZip2 classes (declared and not written), `Addr2Line` (it parses
text and runs a program), `SIGUSR2` of the monitor (a console). The calloc buffer
(`src/mallocinterpose.cxx` 594-617) serves the first call of the process, before
it has threads.

What is left:

1. *`HeapTrace`*: the heap beside the hooks, for the order of a free and of the next
   allocation of the same address.
2. *`Lifetimes`*: what the density of a record should be where calls overlap, once it
   is settled what the corrected time of a call means that overlaps another one's
   overhead.
