------------------------------ MODULE MallocHook ------------------------------
(***************************************************************************)
(* The recording protocol of the preloaded library,                        *)
(* src/src/mallocinterpose.cxx: the malloc/calloc/realloc/free hooks, the  *)
(* atomic flag that guards the writer, the fork handlers and the exit      *)
(* handler.                                                                *)
(*                                                                         *)
(* A process slot p has an address space mem[p], which fork copies, and    *)
(* threads, the slots t with proc[t] = p.  The application decides when a  *)
(* thread calls a hook, starts a thread, forks, or exits; every other step *)
(* is a step of the library.  The writer is the default, unbuffered,       *)
(* PlainWriter; the output file of a process is its own, as the default    *)
(* file name or a name with %p makes it.                                   *)
(*                                                                         *)
(* A hook called from inside the library (getWriter, fopen and so on       *)
(* allocate) finds the flag taken by its own thread and only makes the     *)
(* real call, so it is a stuttering step here.  Threads are started only   *)
(* once the writer exists: starting one allocates, so a hook has run.      *)
(***************************************************************************)
EXTENDS Integers, Sequences, FiniteSets

CONSTANTS
  Proc, Thread,         \* process and thread slots
  RootProc, RootThread, \* those of the initial process
  Ip,                   \* instruction pointers a stack trace can contain
  Stacks,               \* stack traces the unwinder can give to a hook
  Ops,                  \* allocation types in use, among FREE .. CALLOC
  IndexMax,             \* largest value of index_t
  UserControl,          \* TRUE iff compiled with ENABLE_USER_CONTROL
  Threaded,             \* TRUE iff the application starts threads
  Exits,                \* TRUE iff the application calls exit()
  MaxCalls, MaxForks,   \* bounds: hook calls of a thread, forks of a process
  None                  \* no process, no thread, no index, no table

FREE == 0
MALLOC == 1
REALLOC == 2
CALLOC == 3

ASSUME SlotsAssumption ==
  /\ RootProc \in Proc /\ RootThread \in Thread
  /\ None \notin Proc /\ None \notin Thread /\ None \notin Nat
ASSUME CallAssumption ==
  /\ IsFiniteSet(Ip) /\ Stacks \subseteq Seq(Ip)
  /\ Ops \subseteq FREE .. CALLOC
ASSUME BoundAssumption ==
  /\ IndexMax \in Nat /\ MaxCalls \in Nat /\ MaxForks \in Nat
  /\ UserControl \in BOOLEAN /\ Threaded \in BOOLEAN /\ Exits \in BOOLEAN

VARIABLES
  mem,     \* address space of a process: the globals of the library
  status,  \* of a process
  exiter,  \* thread of a process that called exit(), if any
  forks,   \* number of forks a process has begun
  lost,    \* history: a captured call of the process left no record
  proc,    \* process of a thread
  pc,      \* where a thread is
  call,    \* local data of the hook a thread is in
  calls,   \* number of hooks a thread has called
  file,    \* records in the output file of a process
  names    \* symbol table the exit handler has written, or None

procVars == <<status, exiter, forks, lost>>
outVars == <<file, names>>
vars == <<mem, procVars, proc, pc, call, calls, outVars>>

-----------------------------------------------------------------------------
(* Data *)

AddressSpace ==
  [flag: BOOLEAN,      \* malloc_tracing_flag_sami
   capture: BOOLEAN,   \* captureEnabled
   fwriter: BOOLEAN,   \* the static fwriter is not null
   wLocal: BOOLEAN,    \* the pointer inside currWriter is not null
   writer: {"none", "open", "closed", "deleted"},  \* the object behind them
   symMap: [Ip -> Nat \cup {None}],
   symNames: Seq(Ip),  \* a name holds its ip, which stands for it
   atexits: Nat]       \* registrations of atexit_handler still to run

(* What the library does to an address space.                              *)
Lock(m) == [m EXCEPT !.flag = TRUE]
Unlock(m) == [m EXCEPT !.flag = FALSE]
SetCapturing(m, b) == [m EXCEPT !.capture = b]
SetFile(m, w) == [m EXCEPT !.writer = w]
NewWriter(m) == [m EXCEPT !.fwriter = TRUE, !.wLocal = TRUE, !.writer = "open"]
DropWriter(m) == [m EXCEPT !.wLocal = FALSE, !.writer = "deleted"]
Learn(m, ip, index, name) ==
  [m EXCEPT !.symMap[ip] = index, !.symNames = @ \o name]
Register(m) == [m EXCEPT !.atexits = @ + 1]
Unregister(m) == [m EXCEPT !.atexits = @ - 1]

(* A hook that is being executed: frames are those still to be unwound,    *)
(* stack is the whole trace and ids what the record will hold for it.      *)
Call == [op: FREE .. CALLOC, frames: Seq(Ip), stack: Seq(Ip), ids: Seq(Nat)]
NoCall == [op |-> FREE, frames |-> <<>>, stack |-> <<>>, ids |-> <<>>]

(* One frame of the stack trace becomes an index of the record.            *)
NextFrame(c, index) == [c EXCEPT !.frames = Tail(@), !.ids = Append(@, index)]

(* A record of the file; stack is the trace its ids stand for and fake     *)
(* marks the free record realloc writes ahead of its own.                  *)
Record == [type: FREE .. CALLOC, by: Thread, fake: BOOLEAN,
           stack: Seq(Ip), ids: Seq(Nat)]

Init ==
  /\ mem = [p \in Proc |->
             [flag |-> FALSE, capture |-> TRUE, fwriter |-> FALSE,
              wLocal |-> FALSE, writer |-> "none", symMap |-> [i \in Ip |-> None],
              symNames |-> <<>>, atexits |-> 0]]
  /\ status = [p \in Proc |-> IF p = RootProc THEN "running" ELSE "unborn"]
  /\ exiter = [p \in Proc |-> None]
  /\ forks = [p \in Proc |-> 0]
  /\ lost = [p \in Proc |-> FALSE]
  /\ proc = [t \in Thread |-> IF t = RootThread THEN RootProc ELSE None]
  /\ pc = [t \in Thread |-> IF t = RootThread THEN "idle" ELSE "unused"]
  /\ call = [t \in Thread |-> NoCall]
  /\ calls = [t \in Thread |-> 0]
  /\ file = [p \in Proc |-> <<>>]
  /\ names = [p \in Proc |-> None]

(* Where a thread continues after the library: the application, or what is *)
(* left of exit().                                                         *)
Resume(t) == IF exiter[proc[t]] = t THEN "exit" ELSE "idle"

Goto(t, l) == pc' = [pc EXCEPT ![t] = l]

(* The process ends: no thread of it takes another step.                   *)
End(p, how) ==
  /\ status' = [status EXCEPT ![p] = how]
  /\ pc' = [t \in Thread |-> IF proc[t] = p THEN "gone" ELSE pc[t]]

Captured(p) == UserControl => mem[p].capture

(* The ips the symbol map of a process holds.                              *)
Known(p) == {i \in Ip : mem[p].symMap[i] # None}

(* The stack trace of the call is complete.                                *)
Unwound(t) == pc[t] = "unwind" /\ call[t].frames = <<>>

-----------------------------------------------------------------------------
(* Faulty variants of the operations below, each a slip the properties     *)
(* must catch.                                                             *)

AcquireUnguarded(t) ==      \* test_and_set without looking at its result
  /\ pc[t] = "called" /\ Captured(proc[t])
  /\ mem' = [mem EXCEPT ![proc[t]] = Lock(@)]
  /\ Goto(t, "unwind")
  /\ UNCHANGED <<procVars, proc, call, calls, outVars>>

SkipSpins(t) ==             \* wait for the flag instead of giving up
  /\ pc[t] = "called" /\ ~Captured(proc[t])
  /\ call' = [call EXCEPT ![t] = NoCall]
  /\ Goto(t, Resume(t))
  /\ UNCHANGED <<mem, procVars, proc, calls, outVars>>

UnwindWith(t, index, known) ==
  LET p == proc[t]
      ip == Head(call[t].frames)
  IN
  /\ pc[t] = "unwind" /\ call[t].frames # <<>>
  /\ mem' = [mem EXCEPT ![p] = Learn(@, ip, index, IF known THEN <<>> ELSE <<ip>>)]
  /\ call' = [call EXCEPT ![t] = NextFrame(@, index)]
  /\ UNCHANGED <<procVars, proc, pc, calls, outVars>>

UnwindOffByOne(t) ==        \* the index is that of the last name
  LET p == proc[t]
      ip == Head(call[t].frames)
  IN UnwindWith(t, IF ip \in Known(p) THEN mem[p].symMap[ip]
                   ELSE Cardinality(Known(p)) - 1, ip \in Known(p))

UnwindNamesAll(t) ==        \* a name is added for known symbols too
  LET p == proc[t]
      ip == Head(call[t].frames)
  IN UnwindWith(t, IF ip \in Known(p) THEN mem[p].symMap[ip]
                   ELSE Cardinality(Known(p)), FALSE)

WriteFakeFreeReleases(t) == \* the two records of realloc lock separately
  LET p == proc[t] IN
  /\ Unwound(t) /\ call[t].op = REALLOC
  /\ mem[p].writer = "open"
  /\ mem' = [mem EXCEPT ![p] = Unlock(@)]
  /\ file' = [file EXCEPT ![p] = Append(@,
       [type |-> FREE, by |-> t, fake |-> TRUE, stack |-> <<>>, ids |-> <<>>])]
  /\ Goto(t, "write")
  /\ UNCHANGED <<procVars, proc, call, calls, names>>

SpinAcquireUnguarded(t, from, to) ==
  /\ pc[t] = from
  /\ mem' = [mem EXCEPT ![proc[t]] = Lock(@)]
  /\ Goto(t, to)
  /\ UNCHANGED <<procVars, proc, call, calls, outVars>>

PrepKeepsFlag(t) ==         \* the flag is held over the fork
  /\ pc[t] = "prep" /\ mem[proc[t]].writer # "deleted"
  /\ mem' = [mem EXCEPT ![proc[t]] = SetFile(@, "closed")]
  /\ Goto(t, "fork")
  /\ UNCHANGED <<procVars, proc, call, calls, outVars>>

ParentForgetsReopen(t) ==
  /\ pc[t] = "parent" /\ mem[proc[t]].writer # "deleted"
  /\ mem' = [mem EXCEPT ![proc[t]] = Unlock(@)]
  /\ Goto(t, "idle")
  /\ UNCHANGED <<procVars, proc, call, calls, outVars>>

ParentTruncates(t) ==       \* a new writer, as in the child
  LET p == proc[t] IN
  /\ pc[t] = "parent" /\ mem[p].writer # "deleted"
  /\ mem' = [mem EXCEPT ![p] = Unlock(SetFile(@, "open"))]
  /\ file' = [file EXCEPT ![p] = <<>>]
  /\ Goto(t, "idle")
  /\ UNCHANGED <<procVars, proc, call, calls, names>>

ChildRenewWith(t, flag, table) ==
  LET p == proc[t] IN
  /\ pc[t] = "child" /\ mem[p].writer # "deleted"
  /\ mem' = [mem EXCEPT ![p] = [NewWriter(@) EXCEPT !.flag = flag, !.symNames = table]]
  /\ file' = [file EXCEPT ![p] = <<>>]
  /\ Goto(t, "childExit")
  /\ UNCHANGED <<procVars, proc, call, calls, names>>

ChildKeepsFlag(t) == ChildRenewWith(t, TRUE, mem[proc[t]].symNames)
ChildNewTable(t) == ChildRenewWith(t, FALSE, <<>>)

HandlerSpins(t) ==          \* the exit handler waits for the flag
  LET p == proc[t] IN
  /\ pc[t] = "exit" /\ mem[p].atexits > 0 /\ ~mem[p].flag
  /\ mem' = [mem EXCEPT ![p] = Lock(Unregister(@))]
  /\ Goto(t, IF mem[p].wLocal THEN "dump" ELSE "exit")
  /\ UNCHANGED <<procVars, proc, call, calls, outVars>>

-----------------------------------------------------------------------------
(* The hooks *)

(* The stack traces a call of some type can have: a free has none.         *)
StacksOf(op) == IF op = FREE THEN {<<>>} ELSE Stacks

(* A hook is called.  Without a writer the thread takes the flag to create *)
(* it; otherwise the real call is made at once.                            *)
HookEnter(t) ==
  LET p == proc[t] IN
  /\ pc[t] \in {"idle", "exit"}
  /\ calls[t] < MaxCalls
  /\ \E op \in Ops : \E s \in StacksOf(op) :
       call' = [call EXCEPT ![t] =
                 [op |-> op, frames |-> s, stack |-> s, ids |-> <<>>]]
  /\ calls' = [calls EXCEPT ![t] = @ + 1]
  /\ \/ /\ mem[p].fwriter
        /\ Goto(t, "called")
        /\ UNCHANGED mem
     \/ /\ ~mem[p].fwriter
        /\ ~mem[p].flag
        /\ mem' = [mem EXCEPT ![p] = Lock(@)]
        /\ Goto(t, "create")
  /\ UNCHANGED <<procVars, proc, outVars>>

(* The first hook registers the exit handler, opens the output file and    *)
(* releases the flag, then makes the real call.                            *)
CreateWriter(t) ==
  LET p == proc[t] IN
  /\ pc[t] = "create"
  /\ mem' = [mem EXCEPT ![p] = Unlock(NewWriter(Register(@)))]
  /\ file' = [file EXCEPT ![p] = <<>>]
  /\ Goto(t, "called")
  /\ UNCHANGED <<procVars, proc, call, calls, names>>

(* The flag is taken: the call goes unrecorded.                            *)
Skip(t) ==
  LET p == proc[t] IN
  /\ pc[t] = "called"
  /\ ~Captured(p) \/ mem[p].flag
  /\ lost' = [lost EXCEPT ![p] = @ \/ Captured(p)]
  /\ call' = [call EXCEPT ![t] = NoCall]
  /\ Goto(t, Resume(t))
  /\ UNCHANGED <<mem, status, exiter, forks, proc, calls, outVars>>

(* The symbol map is full.                                                 *)
Full(p) == Cardinality(Known(p)) >= IndexMax

(* The flag is free: the thread takes it and starts its record.            *)
Acquire(t) ==
  LET p == proc[t] IN
  /\ pc[t] = "called"
  /\ Captured(p) /\ ~mem[p].flag
  /\ call[t].stack # <<>> => ~Full(p)
  /\ mem' = [mem EXCEPT ![p] = Lock(@)]
  /\ Goto(t, "unwind")
  /\ UNCHANGED <<procVars, proc, call, calls, outVars>>

(* The same with no room for another symbol: std::abort.                   *)
AbortFull(t) ==
  LET p == proc[t] IN
  /\ pc[t] = "called"
  /\ Captured(p) /\ ~mem[p].flag
  /\ call[t].stack # <<>> /\ Full(p)
  /\ mem' = [mem EXCEPT ![p] = Lock(@)]
  /\ End(p, "full")
  /\ UNCHANGED <<exiter, forks, lost, proc, call, calls, outVars>>

(* One frame of the stack trace: a new ip gets the next index, truncated   *)
(* to index_t, and its name; the record gets the index.                    *)
Unwind(t) ==
  LET p == proc[t]
      ip == Head(call[t].frames)
      index == IF ip \in Known(p) THEN mem[p].symMap[ip]
               ELSE Cardinality(Known(p)) % (IndexMax + 1)
  IN
  /\ pc[t] = "unwind"
  /\ call[t].frames # <<>>
  /\ mem' = [mem EXCEPT ![p] = Learn(@, ip, index, IF ip \in Known(p) THEN <<>> ELSE <<ip>>)]
  /\ call' = [call EXCEPT ![t] = NextFrame(@, index)]
  /\ UNCHANGED <<procVars, proc, pc, calls, outVars>>

(* realloc writes a free of the old block first, with no stack.            *)
WriteFakeFree(t) ==
  LET p == proc[t] IN
  /\ Unwound(t) /\ call[t].op = REALLOC
  /\ mem[p].writer = "open"
  /\ file' = [file EXCEPT ![p] = Append(@,
       [type |-> FREE, by |-> t, fake |-> TRUE, stack |-> <<>>, ids |-> <<>>])]
  /\ Goto(t, "write")
  /\ UNCHANGED <<mem, procVars, proc, call, calls, names>>

WriteRecord(t) ==
  LET p == proc[t] IN
  /\ (Unwound(t) /\ call[t].op # REALLOC) \/ pc[t] = "write"
  /\ mem[p].writer = "open"
  /\ file' = [file EXCEPT ![p] = Append(@,
       [type |-> call[t].op, by |-> t, fake |-> FALSE,
        stack |-> call[t].stack, ids |-> call[t].ids])]
  /\ Goto(t, "release")
  /\ UNCHANGED <<mem, procVars, proc, call, calls, names>>

Release(t) ==
  /\ pc[t] = "release"
  /\ mem' = [mem EXCEPT ![proc[t]] = Unlock(@)]
  /\ call' = [call EXCEPT ![t] = NoCall]
  /\ Goto(t, Resume(t))
  /\ UNCHANGED <<procVars, proc, calls, outVars>>

(* A write on a closed file throws out of malloc, calloc or realloc, which *)
(* are declared throw(): the process terminates.                           *)
WriteThrows(t) ==
  LET p == proc[t] IN
  /\ Unwound(t) \/ pc[t] = "write"
  /\ call[t].op # FREE
  /\ mem[p].writer = "closed"
  /\ End(p, "terminated")
  /\ UNCHANGED <<mem, exiter, forks, lost, proc, call, calls, outVars>>

(* free is not declared so: the exception reaches the application, which   *)
(* may catch it, and then the flag stays set; else the process terminates. *)
FreeThrows(t) ==
  LET p == proc[t] IN
  /\ Unwound(t) /\ call[t].op = FREE
  /\ mem[p].writer = "closed"
  /\ \/ /\ lost' = [lost EXCEPT ![p] = TRUE]
        /\ call' = [call EXCEPT ![t] = NoCall]
        /\ Goto(t, Resume(t))
        /\ UNCHANGED status
     \/ /\ End(p, "terminated")
        /\ UNCHANGED <<lost, call>>
  /\ UNCHANGED <<mem, exiter, forks, proc, calls, outVars>>

(* mallocHookSetCapture, called by the application.                        *)
SetCapture(t) ==
  /\ UserControl
  /\ pc[t] = "idle"
  /\ \E b \in BOOLEAN :
       mem' = [mem EXCEPT ![proc[t]] = SetCapturing(@, b)]
  /\ UNCHANGED <<procVars, proc, pc, call, calls, outVars>>

(* The application starts a thread.                                        *)
Spawn(t) ==
  /\ Threaded
  /\ pc[t] = "idle"
  /\ mem[proc[t]].fwriter
  /\ \E u \in Thread :
       /\ pc[u] = "unused"
       /\ proc' = [proc EXCEPT ![u] = proc[t]]
       /\ Goto(u, "idle")
  /\ UNCHANGED <<mem, procVars, call, calls, outVars>>

-----------------------------------------------------------------------------
(* fork() and its handlers *)

(* prepFork has work only when there is a writer.                          *)
BeginFork(t) ==
  LET p == proc[t] IN
  /\ pc[t] = "idle"
  /\ forks[p] < MaxForks
  /\ forks' = [forks EXCEPT ![p] = @ + 1]
  /\ Goto(t, IF mem[p].fwriter THEN "prepSpin" ELSE "fork")
  /\ UNCHANGED <<mem, status, exiter, lost, proc, call, calls, outVars>>

(* One handler spins for the flag, then works under it.                    *)
SpinAcquire(t, from, to) ==
  /\ pc[t] = from
  /\ ~mem[proc[t]].flag
  /\ mem' = [mem EXCEPT ![proc[t]] = Lock(@)]
  /\ Goto(t, to)
  /\ UNCHANGED <<procVars, proc, call, calls, outVars>>

PrepAcquire(t) == SpinAcquire(t, "prepSpin", "prep")
ParentAcquire(t) == SpinAcquire(t, "parentSpin", "parent")
ChildAcquire(t) == SpinAcquire(t, "childSpin", "child")

(* prepFork closes the file and releases the flag before the fork.         *)
PrepClose(t) ==
  LET p == proc[t] IN
  /\ pc[t] = "prep"
  /\ mem[p].writer # "deleted"
  /\ mem' = [mem EXCEPT ![p] = Unlock(SetFile(@, "closed"))]
  /\ Goto(t, "fork")
  /\ UNCHANGED <<procVars, proc, call, calls, outVars>>

AfterForkParent(p) == IF mem[p].fwriter THEN "parentSpin" ELSE "idle"
AfterForkChild(p) == IF mem[p].fwriter THEN "childSpin" ELSE "childExit"

(* The fork: the child gets a copy of the address space as it is at this   *)
(* instant and one thread, the one that forked.                            *)
Fork(t) ==
  LET p == proc[t] IN
  /\ pc[t] = "fork"
  /\ \E q \in Proc, u \in Thread :
       /\ status[q] = "unborn"
       /\ pc[u] = "unused"
       /\ mem' = [mem EXCEPT ![q] = mem[p]]
       /\ status' = [status EXCEPT ![q] = "running"]
       /\ proc' = [proc EXCEPT ![u] = q]
       /\ pc' = [pc EXCEPT ![t] = AfterForkParent(p), ![u] = AfterForkChild(p)]
  /\ UNCHANGED <<exiter, forks, lost, call, calls, outVars>>

(* The fork fails, for want of memory or processes: only the parent's      *)
(* handler runs.                                                           *)
ForkFails(t) ==
  /\ pc[t] = "fork"
  /\ Goto(t, AfterForkParent(proc[t]))
  /\ UNCHANGED <<mem, procVars, proc, call, calls, outVars>>

(* postForkParent opens the file again, at its end.                        *)
ParentReopen(t) ==
  LET p == proc[t] IN
  /\ pc[t] = "parent"
  /\ mem[p].writer # "deleted"
  /\ mem' = [mem EXCEPT ![p] = Unlock(SetFile(@, "open"))]
  /\ Goto(t, "idle")
  /\ UNCHANGED <<procVars, proc, call, calls, outVars>>

(* postForkChildren replaces the writer by one on a file of its own.       *)
ChildRenew(t) ==
  LET p == proc[t] IN
  /\ pc[t] = "child"
  /\ mem[p].writer # "deleted"
  /\ mem' = [mem EXCEPT ![p] = Unlock(NewWriter(@))]
  /\ file' = [file EXCEPT ![p] = <<>>]
  /\ Goto(t, "childExit")
  /\ UNCHANGED <<procVars, proc, call, calls, names>>

(* It registers the exit handler, which the copy may know already.         *)
ChildAtexit(t) ==
  /\ pc[t] = "childExit"
  /\ mem' = [mem EXCEPT ![proc[t]] = Register(@)]
  /\ Goto(t, "idle")
  /\ UNCHANGED <<procVars, proc, call, calls, outVars>>

-----------------------------------------------------------------------------
(* exit() and atexit_handler *)

BeginExit(t) ==
  LET p == proc[t] IN
  /\ Exits
  /\ pc[t] = "idle"
  /\ exiter[p] = None
  /\ exiter' = [exiter EXCEPT ![p] = t]
  /\ Goto(t, "exit")
  /\ UNCHANGED <<mem, status, forks, lost, proc, call, calls, outVars>>

(* A registered handler runs.  It returns when another has done the work;  *)
(* it takes the flag without looking whether it was free.                  *)
EnterHandler(t) ==
  LET p == proc[t] IN
  /\ pc[t] = "exit"
  /\ mem[p].atexits > 0
  /\ \/ /\ ~mem[p].wLocal
        /\ mem' = [mem EXCEPT ![p] = Unregister(@)]
        /\ UNCHANGED pc
     \/ /\ mem[p].wLocal
        /\ mem' = [mem EXCEPT ![p] = Lock(Unregister(@))]
        /\ Goto(t, "dump")
  /\ UNCHANGED <<procVars, proc, call, calls, outVars>>

(* It copies the symbol names to the lookup table beside the file.         *)
DumpTables(t) ==
  LET p == proc[t] IN
  /\ pc[t] = "dump"
  /\ names' = [names EXCEPT ![p] = mem[p].symNames]
  /\ Goto(t, "delete")
  /\ UNCHANGED <<mem, procVars, proc, call, calls, file>>

(* It deletes the writer, which closes the file, and clears the pointer in *)
(* currWriter; the static fwriter is left as it is and the flag stays set. *)
DeleteWriter(t) ==
  LET p == proc[t] IN
  /\ pc[t] = "delete"
  /\ mem' = [mem EXCEPT ![p] = DropWriter(@)]
  /\ Goto(t, "exit")
  /\ UNCHANGED <<procVars, proc, call, calls, outVars>>

Exit(t) ==
  LET p == proc[t] IN
  /\ pc[t] = "exit"
  /\ mem[p].atexits = 0
  /\ End(p, "exited")
  /\ UNCHANGED <<mem, exiter, forks, lost, proc, call, calls, outVars>>

(* Use of the deleted writer or tables is undefined; it ends the process   *)
(* here.                                                                   *)
UseDeleted(t) ==
  /\ pc[t] \in {"unwind", "write", "prep", "parent", "child"}
  /\ mem[proc[t]].writer = "deleted"
  /\ End(proc[t], "crashed")
  /\ UNCHANGED <<mem, exiter, forks, lost, proc, call, calls, outVars>>

-----------------------------------------------------------------------------
(* Steps of the library, which the scheduler gives to every thread, and    *)
(* steps of the application, which are its own choice.                     *)
HookStep(t) ==
  \/ CreateWriter(t) \/ Skip(t) \/ Acquire(t) \/ AbortFull(t) \/ Unwind(t)
  \/ WriteFakeFree(t) \/ WriteRecord(t) \/ Release(t) \/ WriteThrows(t)
  \/ FreeThrows(t)
ForkStep(t) ==
  \/ PrepAcquire(t) \/ PrepClose(t) \/ Fork(t) \/ ForkFails(t)
  \/ ParentAcquire(t) \/ ParentReopen(t)
  \/ ChildAcquire(t) \/ ChildRenew(t) \/ ChildAtexit(t)
ExitStep(t) ==
  EnterHandler(t) \/ DumpTables(t) \/ DeleteWriter(t) \/ Exit(t)
LibraryStep(t) == HookStep(t) \/ ForkStep(t) \/ ExitStep(t) \/ UseDeleted(t)

ApplicationStep(t) ==
  HookEnter(t) \/ SetCapture(t) \/ Spawn(t) \/ BeginFork(t) \/ BeginExit(t)

(* Nothing is left to do but what the application may not choose to do.    *)
Finished ==
  /\ \A t \in Thread : pc[t] \in {"unused", "idle", "gone"}
  /\ UNCHANGED vars

Next == (\E t \in Thread : LibraryStep(t) \/ ApplicationStep(t)) \/ Finished

Spec == Init /\ [][Next]_vars

(* Every thread that can take a step of the library eventually takes one.  *)
FairSpec == Spec /\ \A t \in Thread : WF_vars(LibraryStep(t))

-----------------------------------------------------------------------------
(* Type correctness *)

Where == {"unused", "idle", "create", "called", "unwind", "write", "release",
          "prepSpin", "prep", "fork", "parentSpin", "parent", "childSpin",
          "child", "childExit", "exit", "dump", "delete", "gone"}

(* Every variable holds a value of its type.                               *)
TypeOK ==
  /\ mem \in [Proc -> AddressSpace]
  /\ status \in [Proc -> {"unborn", "running", "exited", "full",
                          "terminated", "crashed"}]
  /\ exiter \in [Proc -> Thread \cup {None}]
  /\ forks \in [Proc -> Nat]
  /\ lost \in [Proc -> BOOLEAN]
  /\ proc \in [Thread -> Proc \cup {None}]
  /\ pc \in [Thread -> Where]
  /\ call \in [Thread -> Call]
  /\ calls \in [Thread -> Nat]
  /\ file \in [Proc -> Seq(Record)]
  /\ names \in [Proc -> Seq(Ip) \cup {None}]

-----------------------------------------------------------------------------
(* Safety *)

Critical == {"create", "unwind", "write", "release", "prep", "parent",
             "child", "dump", "delete"}

(* The flag works as a lock: until the process calls exit(), a thread that *)
(* uses the writer, the record buffer or the symbol tables is the only one *)
(* of its process to do so, and the flag is set.  The flag is test-and-set *)
(* in the hooks and the fork handlers and cleared in eight places.         *)
MutualExclusion ==
  \A t \in Thread :
    pc[t] \in Critical /\ exiter[proc[t]] = None =>
      /\ mem[proc[t]].flag
      /\ \A u \in Thread : proc[u] = proc[t] /\ pc[u] \in Critical => u = t

(* The free record that realloc writes first is followed by the record of  *)
(* the same realloc, whatever the other threads record meanwhile.          *)
ReallocPaired ==
  \A p \in Proc : \A i \in DOMAIN file[p] :
    file[p][i].fake /\ exiter[p] = None =>
      \/ i = Len(file[p]) /\ pc[file[p][i].by] = "write"
      \/ /\ i < Len(file[p])
         /\ file[p][i + 1].type = REALLOC
         /\ file[p][i + 1].by = file[p][i].by

Resolves(record, table) ==
  /\ Len(record.ids) = Len(record.stack)
  /\ \A k \in DOMAIN record.ids :
       /\ record.ids[k] < Len(table)
       /\ table[record.ids[k] + 1] = record.stack[k]

(* Every record of a process can be resolved in the symbol names its       *)
(* address space holds, those a child took over from its parent included.  *)
RecordsResolve ==
  \A p \in Proc : \A i \in DOMAIN file[p] :
    Resolves(file[p][i], mem[p].symNames)

(* In a program without threads the lookup table the exit handler writes   *)
(* resolves every record of the output file beside it.                     *)
TableComplete ==
  ~Threaded =>
    \A p \in Proc : names[p] # None =>
      \A i \in DOMAIN file[p] : Resolves(file[p][i], names[p])

(* In a program without threads every captured call is recorded, across    *)
(* forks, until the exit handler has run.                                  *)
NothingLost ==
  ~Threaded =>
    \A p \in Proc : lost[p] => mem[p].fwriter /\ ~mem[p].wLocal

(* The library ends no process by writing to a closed file or by using or  *)
(* deleting a deleted writer, unless the program has threads and also      *)
(* forks or exits.                                                         *)
Survives ==
  /\ \A p \in Proc :
       status[p] \in {"terminated", "crashed"} => Threaded /\ (MaxForks > 0 \/ Exits)
  /\ \A t \in Thread : pc[t] = "delete" => mem[proc[t]].writer # "deleted"

(* No process is terminated by an exception that leaves a hook: malloc,    *)
(* calloc and realloc are declared throw(), as functions that throw none.  *)
HooksDoNotThrow == \A p \in Proc : status[p] # "terminated"

(* No step takes a record out of an output file: creating the writer,      *)
(* reopening the file after a fork and exiting keep what was written.  In  *)
(* a program without threads the writer a child of fork deletes is one     *)
(* whose file prepFork has closed, so that its destructor does not touch   *)
(* the file, which is still the parent's.                                  *)
FileGrows ==
  [][/\ \A p \in Proc :
          /\ Len(file[p]) <= Len(file'[p])
          /\ \A i \in DOMAIN file[p] : file'[p][i] = file[p][i]
     /\ ~Threaded => \A t \in Thread : pc[t] = "child" => mem[proc[t]].writer = "closed"]_vars

-----------------------------------------------------------------------------
(* Liveness *)

(* A hook that has made the real call returns: it never waits for another  *)
(* thread.                                                                 *)
HookReturns ==
  \A t \in Thread :
    pc[t] = "called" ~> pc[t] \in {"idle", "exit", "gone"}

(* fork() returns, in the parent and in the child.                         *)
ForkReturns ==
  \A t \in Thread :
    pc[t] \in {"prepSpin", "parentSpin", "childSpin"} ~> pc[t] \in {"idle", "gone"}

(* The fork handler of the child spins until it gets the flag, as its      *)
(* comment says: in the child the flag becomes free again.                 *)
ChildGetsFlag ==
  \A t \in Thread : pc[t] = "childSpin" ~> pc[t] # "childSpin"

(* A process that calls exit() ends.                                       *)
ExitReturns ==
  \A p \in Proc : exiter[p] # None ~> status[p] # "running"

=============================================================================
