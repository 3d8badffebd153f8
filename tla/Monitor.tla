------------------------------ MODULE Monitor ------------------------------
(***************************************************************************)
(* Monitor.py: it starts a program in a freezer cgroup and takes snapshots *)
(* of its heap, at an interval or when it is sent SIGUSR1.  A snapshot     *)
(* freezes the program, has PageStatusChecker write the status of each     *)
(* page to a file, and thaws it.                                           *)
(*                                                                         *)
(* The freezer is written by shells that the script starts and waits for.  *)
(* A handler runs as soon as the script is not inside the C function that  *)
(* reads the pages, in the middle of a snapshot too: snapshots are a stack *)
(* of frames, and the shell of an interrupted one may write at any time.   *)
(*                                                                         *)
(* The kernel, the program and the signals are the environment.            *)
(***************************************************************************)
EXTENDS PageLists

CONSTANTS
  Mounts,         \* values of cgroupPath, where the cgroups may be mounted
  MaxPages,       \* bound: pages of the heap
  MaxTouches,     \* bound: changes of the heap by the program
  MaxSnapshots,   \* bound: snapshots
  MaxNested       \* bound: snapshots in progress

RelativeMount == "sys/fs/cgroup"
HandlerMount == "/cgroup"

ASSUME MonitorAssumption ==
  /\ Mounts \subseteq {RelativeMount, HandlerMount, "/mnt/cgroup"}
  /\ {MaxPages, MaxTouches, MaxSnapshots, MaxNested} \subseteq Nat

VARIABLES
  cgroupPath,
  interval,       \* whether an interval is given
  freezer,        \* freezer.state of the cgroup
  program,        \* "running", "ended", or "reaped" by p.poll()
  heap,           \* the statuses of the program's heap pages, <<>> if it has none
  frames,         \* the calls of getSnapshot in progress, the innermost last
  iteration,
  outputFiles,
  files,          \* iteration -> what its file holds
  monitor,        \* the script: see Stopped
  touches, snapshots

vars == <<cgroupPath, interval, freezer, program, heap, frames, iteration,
          outputFiles, files, monitor, touches, snapshots>>
environment == <<cgroupPath, interval, program, heap, touches, snapshots>>

Heaps == UNION {[1 .. n -> Statuses] : n \in 0 .. MaxPages}

Init ==
  /\ cgroupPath \in Mounts /\ interval \in BOOLEAN
  /\ freezer = "THAWED" /\ program = "running" /\ heap \in Heaps
  /\ frames = <<>> /\ iteration = 0 /\ outputFiles = <<>>
  /\ files = [n \in {} |-> <<>>]
  /\ monitor = "running"
  /\ touches = 0 /\ snapshots = 0

Stopped == {"finished", "interrupted", "aborted", "crashed"}

-----------------------------------------------------------------------------
(* The cgroup and the program *)

\* What writing s to freezer.state does.  To ask again does not freeze: that is
\* up to the kernel, which may never do it.
Written(s) == IF s = "FROZEN" /\ freezer # "FROZEN" THEN "FREEZING" ELSE s

\* The file does not exist below a path relative to the working directory.
Reachable == cgroupPath # RelativeMount

\* The shell of frame d writes.  It does so even if the script has ended.
Echo(d) ==
  /\ frames[d].echo # "none"
  /\ freezer' = IF Reachable THEN Written(frames[d].echo) ELSE freezer
  /\ frames' = [frames EXCEPT ![d].echo = "none"]
  /\ UNCHANGED <<environment, iteration, outputFiles, files, monitor>>

Freeze ==
  /\ freezer = "FREEZING"
  /\ freezer' = "FROZEN"
  /\ UNCHANGED <<environment, frames, iteration, outputFiles, files, monitor>>

\* A page is loaded, swapped or dropped, or the heap grows.
Touch ==
  /\ program = "running" /\ freezer # "FROZEN" /\ touches < MaxTouches
  /\ \E s \in Statuses :
       \/ \E k \in DOMAIN heap : heap' = [heap EXCEPT ![k] = s]
       \/ Len(heap) < MaxPages /\ heap' = Append(heap, s)
  /\ touches' = touches + 1
  /\ UNCHANGED <<cgroupPath, interval, freezer, program, frames, iteration,
                 outputFiles, files, monitor, snapshots>>

End ==
  /\ program = "running" /\ freezer # "FROZEN"
  /\ program' = "ended" /\ heap' = <<>>     \* its maps are empty from now on
  /\ UNCHANGED <<cgroupPath, interval, freezer, frames, iteration, outputFiles,
                 files, monitor, touches, snapshots>>

-----------------------------------------------------------------------------
(* getSnapshot *)

Top == frames[Len(frames)]

\* The innermost call goes on when its shell has ended.
Running(pc) ==
  monitor = "running" /\ frames # <<>> /\ Top.pc = pc /\ Top.echo = "none"

Goto(pc) == frames' = [frames EXCEPT ![Len(frames)].pc = pc]
Call(pc, echo, retried) ==
  frames' = [frames EXCEPT ![Len(frames)].pc = pc, ![Len(frames)].echo = echo,
                           ![Len(frames)].killSwitch = retried]

\* The start, from the loop or from a handler, which the frames below notice
\* in alone.
GetSnapshot ==
  /\ snapshots < MaxSnapshots /\ Len(frames) < MaxNested
  /\ snapshots' = snapshots + 1
  /\ iteration' = iteration + 1
  /\ frames' = Append([d \in DOMAIN frames |-> [frames[d] EXCEPT !.alone = FALSE]],
                      [pc |-> "freeze", echo |-> "FROZEN", late |-> FALSE,
                       killSwitch |-> FALSE, file |-> 0, pages |-> 0, alone |-> TRUE])
  /\ UNCHANGED <<cgroupPath, interval, freezer, program, heap, outputFiles,
                 files, monitor, touches>>

\* More than ten seconds since the start of a call, and of those below it.
TimePasses(d) ==
  /\ monitor = "running" /\ ~frames[d].late
  /\ frames' = [k \in DOMAIN frames |->
                  [frames[k] EXCEPT !.late = @ \/ k <= d]]
  /\ UNCHANGED <<environment, freezer, iteration, outputFiles, files, monitor>>

\* A loop that waits for state s: it asks once more when ten seconds have
\* passed, and gives up the next time.
Retry(pc, s) ==
  /\ Top.late /\ ~Top.killSwitch
  /\ Call(pc, s, TRUE)
  /\ UNCHANGED <<iteration, outputFiles, files, monitor>>

GiveUpNever == FALSE        \* faulty variant: the second attempt is the last

GiveUp ==
  /\ Top.late /\ Top.killSwitch
  /\ monitor' = "aborted"
  /\ UNCHANGED <<frames, iteration, outputFiles, files>>

FrozenSoon ==               \* faulty variant: any state but THAWED will do
  /\ freezer # "THAWED"
  /\ Goto("maps")
  /\ UNCHANGED <<iteration, outputFiles, files, monitor>>

Frozen ==
  /\ freezer = "FROZEN"
  /\ Goto("maps")
  /\ UNCHANGED <<iteration, outputFiles, files, monitor>>

NoStateFile ==              \* open(tmp) raises
  /\ ~Reachable
  /\ monitor' = "crashed"
  /\ UNCHANGED <<frames, iteration, outputFiles, files>>

AwaitFrozen ==
  /\ Running("freeze")
  /\ \/ NoStateFile
     \/ Reachable /\ Frozen
     \/ Reachable /\ freezer # "FROZEN" /\ (Retry("freeze", "FROZEN") \/ GiveUp)
  /\ UNCHANGED <<environment, freezer>>

\* The maps are read when the program is frozen.  Without a heap there is
\* nothing to write; otherwise the file of the iteration is emptied.
ReadMaps ==
  /\ Running("maps")
  /\ IF heap = <<>>
     THEN Call("thaw", "THAWED", Top.killSwitch) /\ UNCHANGED files
     ELSE /\ frames' = [frames EXCEPT ![Len(frames)].pc = "pages",
                                      ![Len(frames)].file = iteration,
                                      ![Len(frames)].pages = Len(heap)]
          /\ files' = [n \in DOMAIN files \cup {iteration} |->
                         IF n = iteration THEN <<>> ELSE files[n]]
  /\ UNCHANGED <<environment, freezer, iteration, outputFiles, monitor>>

\* PageStatusChecker.analyze, a page at a time.  If the program is gone or its
\* heap has shrunk under a call that was interrupted, reading fails and the
\* script ends by the exception.
Analyze ==
  /\ Running("pages")
  /\ LET read == files[Top.file]
         k == Len(read) + 1
     IN \/ /\ k <= Top.pages /\ k <= Len(heap)
           /\ files' = [files EXCEPT ![Top.file] = Append(read, heap[k])]
           /\ UNCHANGED <<frames, monitor>>
        \/ /\ k <= Top.pages /\ k > Len(heap)
           /\ monitor' = "crashed"
           /\ UNCHANGED <<frames, files>>
        \/ /\ k > Top.pages
           /\ Call("thaw", "THAWED", Top.killSwitch)
           /\ UNCHANGED <<files, monitor>>
  /\ UNCHANGED <<environment, freezer, iteration, outputFiles>>

KeepIteration ==            \* faulty variant: the counter is not set back
  IF Top.file = 0
  THEN UNCHANGED <<iteration, outputFiles>>
  ELSE outputFiles' = Append(outputFiles, iteration) /\ UNCHANGED iteration

Count ==
  IF Top.file = 0       \* hasHeap is False
  THEN iteration' = iteration - 1 /\ UNCHANGED outputFiles
  ELSE outputFiles' = Append(outputFiles, iteration) /\ UNCHANGED iteration

AwaitThawed ==
  /\ Running("thaw")
  /\ \/ /\ freezer = "THAWED"
        /\ frames' = Front(frames) /\ Count
        /\ UNCHANGED <<files, monitor>>
     \/ freezer # "THAWED" /\ (Retry("thaw", "THAWED") \/ GiveUp)
  /\ UNCHANGED <<environment, freezer>>

-----------------------------------------------------------------------------
(* The loops and the handlers *)

\* With an interval, the loop takes the next snapshot if p.poll() is None.
NextSnapshot ==
  /\ monitor = "running" /\ interval /\ frames = <<>> /\ program = "running"
  /\ GetSnapshot

\* p.poll() returns the exit status: the loop ends and the cgroups are removed.
LoopEnds ==
  /\ monitor = "running" /\ frames = <<>> /\ program = "ended"
  /\ program' = "reaped" /\ monitor' = "cleanup"
  /\ UNCHANGED <<cgroupPath, interval, freezer, heap, frames, iteration,
                 outputFiles, files, touches, snapshots>>

Summary ==
  /\ monitor = "cleanup"
  /\ monitor' = "finished"
  /\ UNCHANGED <<environment, freezer, frames, iteration, outputFiles, files>>

\* No handler runs while the pages are read.
Interruptible == frames # <<>> => Top.pc # "pages"

SignalSIGUSR ==
  /\ ~interval /\ Interruptible
  /\ \/ monitor = "running" /\ GetSnapshot
     \/ /\ monitor = "cleanup"      \* the maps are gone: open raises
        /\ iteration' = iteration + 1 /\ monitor' = "crashed"
        /\ UNCHANGED <<environment, freezer, frames, outputFiles, files>>

SignalSIGINT ==
  /\ monitor \in {"running", "cleanup"} /\ Interruptible
  /\ monitor' = "interrupting"
  /\ UNCHANGED <<environment, freezer, frames, iteration, outputFiles, files>>

\* The handler's own shell writes below a path of its own; then the summary is
\* written and the script ends.  A step here: a SIGUSR1 that the script is sent
\* while it waits for that shell, and so a snapshot inside this handler, is left
\* out.
SignalHandlerSIGINT ==
  /\ monitor = "interrupting"
  /\ freezer' = IF cgroupPath = HandlerMount THEN Written("THAWED") ELSE freezer
  /\ monitor' = "interrupted"
  /\ UNCHANGED <<environment, frames, iteration, outputFiles, files>>

Script ==
  \/ AwaitFrozen \/ ReadMaps \/ Analyze \/ AwaitThawed
  \/ NextSnapshot \/ LoopEnds \/ Summary \/ SignalHandlerSIGINT

Next ==
  \/ Script
  \/ SignalSIGUSR \/ SignalSIGINT
  \/ \E d \in DOMAIN frames : Echo(d) \/ TimePasses(d)
  \/ Freeze \/ Touch \/ End
  \/ monitor \in Stopped /\ UNCHANGED vars

\* The script and the shells go on and time passes; neither does the kernel
\* have to freeze, nor the program to end.
Spec ==
  /\ Init /\ [][Next]_vars
  /\ WF_vars(Script)
  /\ \A d \in 1 .. MaxNested :
       WF_vars(d \in DOMAIN frames /\ Echo(d)) /\ WF_vars(d \in DOMAIN frames /\ TimePasses(d))

-----------------------------------------------------------------------------
(* Properties *)

\* While the pages are read their statuses are those of one moment: what is
\* in the file is what the heap shows now, unless a handler has run a
\* snapshot of its own, and thawed the program, in the middle of this one.
SnapshotConsistent ==
  Len(frames) = 1 /\ Top.pc = "pages" /\ Top.alone =>
    files[Top.file] = SubSeq(heap, 1, Len(files[Top.file]))

\* At an interval, between two snapshots the number of output files in the
\* summary is that of the files, each listed once and in order, although the
\* first snapshots may find no heap.
FilesCounted ==
  interval /\ frames = <<>> /\ monitor # "crashed" =>
    /\ outputFiles = [n \in 1 .. iteration |-> n]
    /\ DOMAIN files = 1 .. iteration

\* The array of each file's merged form holds the file's runs of pages.
MergedAreRuns == \A n \in DOMAIN files : MergesRuns(files[n])

\* Every slice of a file fits the array allocated for it.
SlicesFilled == \A n \in DOMAIN files : SlicesPages(files[n])

\* A snapshot comes to an end, or the script does, whether or not the kernel
\* freezes the program and however signals nest.
SnapshotEnds == frames # <<>> ~> (frames = <<>> \/ monitor \in Stopped)

\* "Signal handler in case script is killed, need to unfreeze process": when
\* the handler of SIGINT is done, the program is not left frozen.
InterruptThaws ==
  [][monitor' = "interrupted" /\ monitor = "interrupting" => freezer' = "THAWED"]_vars

=============================================================================
