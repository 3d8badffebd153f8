------------------------------ MODULE ZlibTrace ------------------------------
(***************************************************************************)
(* A compressed trace from the hooks to a reader: class ZlibWriter of      *)
(* src/src/Streamers.cxx, fed by show_backtrace of                         *)
(* src/src/mallocinterpose.cxx, and the file as class ZlibReader gives it  *)
(* back.                                                                   *)
(*                                                                         *)
(* Records gather in a bucket; one that does not fit has the bucket        *)
(* compressed and written first.  Compressing delays the program, so its   *)
(* duration goes into the file, the record that waited for it is shifted   *)
(* by it, and the reader subtracts from the times of each bucket the       *)
(* durations of all buckets before.  The history variable paused gives     *)
(* every stamp its true value, the clock without those pauses.             *)
(*                                                                         *)
(* A hook writes under the recording lock (see MallocHook), job tells what *)
(* its holder is at: a compression takes time, and the other threads go on *)
(* and stamp their calls meanwhile; the bucket is then written piece by    *)
(* piece, as are the fields of the header when the file is closed.  For    *)
(* the history variables, time stands still while a bucket is compressed.  *)
(***************************************************************************)
EXTENDS Integers, Sequences

CONSTANTS
  Thread,
  Ops,            \* kinds of call in use, of {"single", "realloc"}
  Lengths,        \* lenRecord of the records of a call
  BucketSize,     \* m_bucketSize
  Durations,      \* times a compression can take
  MaxCalls,       \* bound: calls of the program, a fork counting as one
  MaxForks,       \* bound: forks of the program
  None            \* no call, no child

FreeLength == 1   \* a record without a stack

ASSUME ZlibTraceAssumption ==
  /\ Ops \subseteq {"single", "realloc"}
  /\ BucketSize \in Nat \ {0}
  /\ Lengths \subseteq Nat \ {0} /\ Durations \subseteq Nat
  /\ MaxCalls \in Nat /\ MaxForks \in Nat

\* writeRecord has no case for a record longer than the bucket.
ASSUME RecordsFit == Lengths \subseteq 1 .. BucketSize

VARIABLES
  clock,          \* CLOCK_MONOTONIC
  paused,         \* history: time spent compressing
  call,           \* the call a thread is in, with its stamps
  calls,          \* calls begun
  log,            \* history: the records handed to the writer
  writer,         \* the ZlibWriter
  file,           \* the buckets in the file
  header,         \* numRecords and numBuckets of the file header
  job,            \* what the holder of the recording lock is at
  state,          \* of the process: "running", "forking", "forked", "closing",
                  \* "counting", "closed", "killed"
  child,          \* the writer a child has inherited, or None
  forks           \* forks done

programVars == <<clock, paused, call, calls>>
forkVars == <<child, forks>>
vars == <<programVars, log, writer, file, header, job, state, forkVars>>

-----------------------------------------------------------------------------
(* Data *)

\* The sum of a sequence of numbers, and the sequences of a sequence in a row.
SumOf(f) ==
  LET sum[n \in 0 .. Len(f)] == IF n = 0 THEN 0 ELSE sum[n - 1] + f[n]
  IN sum[Len(f)]
Joined(f) ==
  LET row[n \in 0 .. Len(f)] == IF n = 0 THEN <<>> ELSE row[n - 1] \o f[n]
  IN row[Len(f)]

\* A time stamp and its true value, the clock without the compressions.
Stamp(t, true) == [t |-> t, true |-> true]
Compressing == job.at = "compress"
NowStamp == Stamp(clock, (IF Compressing THEN job.since ELSE clock) - paused)
Later(s, d) == Stamp(s.t + d, s.true)
Next1(s) == Stamp(s.t + 1, s.true + 1)

Record(n, fake, len, tstart, treturn, tend) ==
  [call |-> n, fake |-> fake, len |-> len,
   tstart |-> tstart, treturn |-> treturn, tend |-> tend]

Entry(r) == <<r.call, r.fake>>
Entries(records) == [k \in DOMAIN records |-> Entry(records[k])]

\* The record that waited for a compression of duration d.
Shifted(r, d) ==
  Record(r.call, r.fake, r.len,
         Later(r.tstart, d), Later(r.treturn, d), Later(r.tend, d))

NewWriter == [buff |-> <<>>, offset |-> 0, opened |-> TRUE, nRecords |-> 0,
              numBuckets |-> 0]
Put(w, r) ==
  [w EXCEPT !.buff = Append(@, r), !.offset = @ + r.len, !.nRecords = @ + 1]
Emptied(w) == [w EXCEPT !.buff = <<>>, !.offset = 0, !.numBuckets = @ + 1]
SetOpened(w, b) == [w EXCEPT !.opened = b]

\* The holder of the lock is compressing (since a time) or writing a bucket
\* (that took a duration), for which a record may wait, or between the two
\* records of a realloc.
Idle == [at |-> "idle", thread |-> None, waiting |-> <<>>, since |-> 0, duration |-> 0]
Compress(t, waiting, since) ==
  [Idle EXCEPT !.at = "compress", !.thread = t, !.waiting = waiting, !.since = since]
BetweenPair(t) == [Idle EXCEPT !.at = "alloc", !.thread = t]

Init ==
  /\ clock = 0 /\ paused = 0
  /\ call = [t \in Thread |-> None] /\ calls = 0
  /\ log = <<>>
  /\ writer = NewWriter
  /\ file = <<>>
  /\ header = [numRecords |-> 0, numBuckets |-> 0]
  /\ job = Idle
  /\ state = "running"
  /\ child = None /\ forks = 0

-----------------------------------------------------------------------------
(* Faulty variants, each one plausible slip in the code *)

DelayedNot(r, d) == r       \* the record that waited keeps its stamps

DelayedTwice(r, d) == Shifted(Shifted(r, d), d)

DelayedStart(r, d) ==       \* only tstart and tend are shifted
  Record(r.call, r.fake, r.len, Later(r.tstart, d), r.treturn, Later(r.tend, d))

HeaderBeforeBucket ==       \* the header is written before the last bucket
  /\ state = "running" /\ job = Idle
  /\ state' = "closing"
  /\ job' = IF Len(writer.buff) > 0 THEN Compress(None, <<>>, clock) ELSE job
  /\ header' = [numRecords |-> writer.nRecords,
                numBuckets |-> writer.numBuckets + IF Len(writer.buff) > 0 THEN 1 ELSE 0]
  /\ UNCHANGED <<programVars, log, writer, file, forkVars>>

TooLongOffByOne(w, r) ==    \* one more byte is taken to be free
  r.len > BucketSize - w.offset + 1

PrepForkLeavesOpen ==       \* the file stays open over the fork
  /\ state = "running" /\ job = Idle
  /\ forks < MaxForks /\ calls + forks < MaxCalls
  /\ state' = "forking"
  /\ UNCHANGED <<programVars, log, writer, file, header, job, forkVars>>

ReopenRenews ==             \* a new writer, as in the child
  /\ state \in {"forking", "forked"}
  /\ writer' = NewWriter
  /\ state' = "running"
  /\ UNCHANGED <<programVars, log, file, header, job, forkVars>>

-----------------------------------------------------------------------------
(* The writer *)

Bucket(w, d) == [records |-> w.buff, compressionTime |-> d]

\* lenRecord>=(m_bucketSize-m_bucketOffset)
TooLong(w, r) == r.len >= BucketSize - w.offset

Delayed(r, d) == Shifted(r, d)

\* A record of thread t is in the buffer: the free of a realloc is followed by
\* the allocation, any other ends the call.
AfterRecord(t, r) ==
  IF r.fake
  THEN job' = BetweenPair(t) /\ call' = call
  ELSE job' = Idle /\ call' = [call EXCEPT ![t] = None]

\* writeRecord, called at the last stamp of the record.
WriteRecord(t, r) ==
  /\ log' = Append(log, Entry(r))
  /\ clock' = clock + 1
  /\ IF TooLong(writer, r)
     THEN job' = Compress(t, <<r>>, clock + 1) /\ UNCHANGED <<writer, call>>
     ELSE writer' = Put(writer, r) /\ AfterRecord(t, r)
  /\ UNCHANGED <<paused, calls, file, header, state, forkVars>>

Alive == state \notin {"closed", "killed"}

CompressEnds ==             \* compress2 returns and t2 is read
  /\ Alive /\ Compressing
  /\ \E d \in Durations :
       LET duration == clock + d - job.since
       IN /\ clock' = clock + d
          /\ paused' = paused + duration
          /\ job' = [job EXCEPT !.at = "output", !.duration = duration]
  /\ UNCHANGED <<call, calls, log, writer, file, header, state, forkVars>>

\* The last write() of the bucket; the record that waited is written.
BucketWritten ==
  /\ Alive /\ job.at = "output" /\ job.waiting # <<>>
  /\ LET r == job.waiting[1]
     IN /\ writer' = Put(Emptied(writer), Delayed(r, job.duration))
        /\ AfterRecord(job.thread, r)
  /\ file' = Append(file, Bucket(writer, job.duration))
  /\ UNCHANGED <<clock, paused, calls, log, header, state, forkVars>>

-----------------------------------------------------------------------------
(* The hooks.  Every stamp takes a unit of time; a thread needs the lock    *)
(* only when it has both stamps of its call.                                *)

Enter(t, op) ==
  /\ state = "running" /\ call[t] = None /\ calls + forks < MaxCalls
  /\ calls' = calls + 1
  /\ call' = [call EXCEPT ![t] = [op |-> op, id |-> calls', stamps |-> <<NowStamp>>]]
  /\ clock' = clock + 1
  /\ UNCHANGED <<paused, log, writer, file, header, job, state, forkVars>>

\* Calls under way go on during a fork.
ThreadsRun == state \in {"running", "forking", "forked"}

RealCallReturns(t) ==
  /\ ThreadsRun /\ call[t] # None /\ Len(call[t].stamps) = 1
  /\ call' = [call EXCEPT ![t].stamps = Append(@, NowStamp)]
  /\ clock' = clock + 1
  /\ UNCHANGED <<paused, calls, log, writer, file, header, job, state, forkVars>>

AtLock(t) == call[t] # None /\ Len(call[t].stamps) = 2

\* The lock is another thread's: the call goes unrecorded.
Unrecorded(t) ==
  /\ ThreadsRun /\ AtLock(t) /\ job.thread # t
  /\ job # Idle \/ state # "running" \/ \E u \in Thread \ {t} : AtLock(u)
  /\ call' = [call EXCEPT ![t] = None]
  /\ UNCHANGED <<clock, paused, calls, log, writer, file, header, job, state, forkVars>>

Recorded(t, op) ==
  /\ state = "running" /\ job = Idle
  /\ AtLock(t) /\ call[t].op = op

WriteSingle(t) ==
  /\ Recorded(t, "single")
  /\ \E len \in Lengths :
       WriteRecord(t, Record(call[t].id, FALSE, len,
                             call[t].stamps[1], call[t].stamps[2], NowStamp))

\* realloc: a free of the old address,
WriteFree(t) ==
  /\ Recorded(t, "realloc")
  /\ LET t1 == call[t].stamps[1]
     IN WriteRecord(t, Record(call[t].id, TRUE, FreeLength, t1, t1, t1))

\* then, with stamps set anew, the allocation, whose tend is read after the
\* free has been written.
WriteAlloc(t) ==
  /\ state = "running" /\ job.at = "alloc" /\ job.thread = t
  /\ \E len \in Lengths :
       WriteRecord(t, Record(call[t].id, FALSE, len, Next1(call[t].stamps[1]),
                             call[t].stamps[2], NowStamp))

-----------------------------------------------------------------------------
(* Forks and the end of the process.  Both wait for the recording lock. *)

PrepFork ==                 \* closeFile(false)
  /\ state = "running" /\ job = Idle
  /\ forks < MaxForks /\ calls + forks < MaxCalls
  /\ writer' = SetOpened(writer, FALSE)
  /\ state' = "forking"
  /\ UNCHANGED <<programVars, log, file, header, job, forkVars>>

Fork ==
  /\ state = "forking" /\ child = None
  /\ child' = writer
  /\ forks' = forks + 1
  /\ state' = "forked"
  /\ UNCHANGED <<programVars, log, writer, file, header, job>>

ReopenFile ==               \* reopenFile(true), also when fork() has failed
  /\ state \in {"forking", "forked"}
  /\ writer' = SetOpened(writer, TRUE)
  /\ state' = "running"
  /\ UNCHANGED <<programVars, log, file, header, job, forkVars>>

\* The child deletes the writer it has inherited, which does nothing unless
\* the file is open.
Flushed(out, w, d) ==
  IF w.opened /\ Len(w.buff) > 0
  THEN Append(out, Bucket(w, d)) ELSE out
ChildDelete ==
  /\ child # None
  /\ \E d \in Durations : file' = Flushed(file, child, d)
  /\ child' = None
  /\ UNCHANGED <<programVars, log, writer, header, job, state, forks>>

\* At exit, delete FWriter: closeFile(true) compresses and writes the last
\* bucket,
CloseFile ==
  /\ state = "running" /\ job = Idle /\ writer.opened
  /\ state' = "closing"
  /\ job' = IF Len(writer.buff) > 0 THEN Compress(None, <<>>, clock) ELSE job
  /\ UNCHANGED <<programVars, log, writer, file, header, forkVars>>

LastBucketWritten ==
  /\ state = "closing" /\ job.at = "output"
  /\ file' = Append(file, Bucket(writer, job.duration))
  /\ writer' = Emptied(writer)
  /\ job' = Idle
  /\ UNCHANGED <<programVars, log, header, state, forkVars>>

\* and then the header, NumRecords before NumBuckets.
WriteNumRecords ==
  /\ state = "closing" /\ job = Idle
  /\ header' = [header EXCEPT !.numRecords = writer.nRecords]
  /\ state' = "counting"
  /\ UNCHANGED <<programVars, log, writer, file, job, forkVars>>

WriteNumBuckets ==
  /\ state = "counting"
  /\ header' = [header EXCEPT !.numBuckets = writer.numBuckets]
  /\ writer' = SetOpened(writer, FALSE)
  /\ state' = "closed"
  /\ UNCHANGED <<programVars, log, file, job, forkVars>>

Kill ==                     \* the process ends without its exit handlers
  /\ Alive
  /\ state' = "killed"
  /\ UNCHANGED <<programVars, log, writer, file, header, job, forkVars>>

Stopped ==
  /\ ~Alive /\ child = None
  /\ UNCHANGED vars

Next ==
  \/ \E t \in Thread :
       \/ \E op \in Ops : Enter(t, op)
       \/ RealCallReturns(t) \/ Unrecorded(t)
       \/ WriteSingle(t) \/ WriteFree(t) \/ WriteAlloc(t)
  \/ CompressEnds \/ BucketWritten
  \/ PrepFork \/ Fork \/ ReopenFile \/ ChildDelete
  \/ CloseFile \/ LastBucketWritten \/ WriteNumRecords \/ WriteNumBuckets
  \/ Kill \/ Stopped

Spec == Init /\ [][Next]_vars

-----------------------------------------------------------------------------
(* What ZlibReader makes of the file *)

Buckets ==
  IF writer.buff = <<>> THEN file ELSE Append(file, Bucket(writer, 0))

\* tOffset: the durations of all buckets before.
TOffset(b) ==
  SumOf([a \in 1 .. b - 1 |-> Buckets[a].compressionTime])

\* The stamps at() gives back for a record of bucket b.
ReadBack(r, b) ==
  LET corrected(s) == Stamp(s.t - TOffset(b), s.true)
  IN Record(r.call, r.fake, r.len,
            corrected(r.tstart), corrected(r.treturn), corrected(r.tend))

Trace ==
  UNION {{ReadBack(Buckets[b].records[k], b) : k \in DOMAIN Buckets[b].records} :
           b \in DOMAIN Buckets}

-----------------------------------------------------------------------------
(* Properties *)

\* Every variable keeps to its type.
TypeOK ==
  /\ clock \in Nat /\ paused \in 0 .. clock
  /\ \A t \in Thread : call[t] = None \/ Len(call[t].stamps) \in 1 .. 2
  /\ calls \in 0 .. MaxCalls
  /\ writer.nRecords \in Nat /\ writer.numBuckets \in Nat
  /\ writer.opened \in BOOLEAN
  /\ \A b \in DOMAIN file : file[b].compressionTime \in Nat
  /\ header.numRecords \in Nat /\ header.numBuckets \in Nat
  /\ job.at \in {"idle", "compress", "output", "alloc"}
  /\ job.since \in Nat /\ job.duration \in Nat
  /\ state \in {"running", "forking", "forked", "closing", "counting",
                "closed", "killed"}
  /\ forks \in 0 .. MaxForks

\* Beside the types: the buffer, which has m_bucketSize bytes, holds what has
\* been copied into it, and m_bucketOffset is the end of it.
BufferFits ==
  /\ TypeOK
  /\ writer.offset <= BucketSize
  /\ writer.offset = SumOf([k \in DOMAIN writer.buff |-> writer.buff[k].len])

\* No record is lost, repeated or moved between the hooks and the file, over
\* compressions, forks and the closing of the file; one may be waiting.
RecordsKept ==
  LET written == IF state = "closed" THEN file ELSE Buckets
  IN Joined([b \in DOMAIN written |-> Entries(written[b].records)]) \o Entries(job.waiting)
       = log

\* The header of a closed file counts what is in the file.  Whenever the
\* process is killed, also inside a bucket or between the fields of the
\* header, a file with more than the header in it is not taken for a complete
\* one: unless the reader meets more buckets than it has index entries for,
\* which it throws for, they are whole and hold all records.
Torn == job.at = "output"
BucketsMet == Len(file) + IF Torn THEN 1 ELSE 0
Complete ==
  /\ header = [numRecords |-> Len(log), numBuckets |-> Len(file)]
  /\ ~Torn
  /\ Joined([b \in DOMAIN file |-> Entries(file[b].records)]) = log
HeaderHonest ==
  /\ state = "closed" => Complete
  /\ BucketsMet \in 1 .. header.numBuckets => Complete

\* Only the first bucket can be empty, when a record as long as a bucket
\* comes first; the reader's search relies on the others.
EmptyOnlyFirst ==
  \A b \in 2 .. Len(file) : file[b].records # <<>>

\* The last stamp of every call comes back as if nothing had ever been
\* compressed, also when the record has waited for a compression, and so do the
\* others if nothing was compressed during the call.
TimesExact ==
  \A r \in Trace : ~r.fake =>
    /\ r.tend.t = r.tend.true
    /\ r.tstart.t - r.tstart.true = r.tend.t - r.tend.true
         => r.tstart.t = r.tstart.true /\ r.treturn.t = r.treturn.true

\* The correction never puts a stamp after its true time: one taken during a
\* compression, or before one that its record came after, comes back too
\* early, never too late.
NeverLate ==
  \A r \in Trace :
    /\ r.tstart.t <= r.tstart.true
    /\ r.treturn.t <= r.treturn.true
    /\ r.tend.t <= r.tend.true

\* A call starts before it returns before it is recorded.
CallsKeepTheirOrder ==
  \A r \in Trace : r.tstart.t <= r.treturn.t /\ r.treturn.t <= r.tend.t

=============================================================================
