--------------------------- MODULE MallocHookProofs ---------------------------
(***************************************************************************)
(* Theorems about MallocHook, for every value of its constants: any number *)
(* of processes, threads, calls, forks and symbols.                        *)
(***************************************************************************)
EXTENDS MallocHook, FiniteSetTheorems, TLAPS

(* A thread that is in use belongs to a process, and to one that was born; *)
(* so a process that is still to be forked has no thread.                  *)
Placed ==
  \A t \in Thread :
    /\ pc[t] # "unused" => proc[t] # None
    /\ proc[t] # None => status[proc[t]] # "unborn"

TypeInv == TypeOK /\ Placed

USE DEF FREE, MALLOC, REALLOC, CALLOC

-----------------------------------------------------------------------------
(* What the operations on an address space and on a call return.           *)

LEMMA LockLemma ==
  ASSUME NEW m \in AddressSpace
  PROVE  /\ Lock(m) \in AddressSpace /\ Unlock(m) \in AddressSpace
         /\ Lock(m).flag = TRUE /\ Unlock(m).flag = FALSE
BY DEF AddressSpace, Lock, Unlock

LEMMA WriterLemma ==
  ASSUME NEW m \in AddressSpace, NEW w \in {"open", "closed"}
  PROVE  /\ NewWriter(m) \in AddressSpace
         /\ DropWriter(m) \in AddressSpace
         /\ SetFile(m, w) \in AddressSpace
         /\ DropWriter(m).flag = m.flag
BY DEF AddressSpace, NewWriter, DropWriter, SetFile

LEMMA CaptureLemma ==
  ASSUME NEW m \in AddressSpace, NEW b \in BOOLEAN
  PROVE  SetCapturing(m, b) \in AddressSpace /\ SetCapturing(m, b).flag = m.flag
BY DEF AddressSpace, SetCapturing

LEMMA RegisterLemma ==
  ASSUME NEW m \in AddressSpace
  PROVE  /\ Register(m) \in AddressSpace /\ Register(m).flag = m.flag
         /\ m.atexits > 0 =>
              Unregister(m) \in AddressSpace /\ Unregister(m).flag = m.flag
<1>1. m.atexits \in Nat /\ m.atexits + 1 \in Nat
  BY DEF AddressSpace
<1>2. m.atexits > 0 => m.atexits - 1 \in Nat
  BY <1>1
<1>3. Register(m) \in AddressSpace /\ Register(m).flag = m.flag
  BY <1>1 DEF AddressSpace, Register
<1>4. ASSUME m.atexits > 0
      PROVE  Unregister(m) \in AddressSpace /\ Unregister(m).flag = m.flag
  BY <1>2, <1>4 DEF AddressSpace, Unregister
<1>5. QED
  BY <1>3, <1>4

LEMMA SameWriterLemma ==
  ASSUME NEW m \in AddressSpace, NEW b \in BOOLEAN
  PROVE  /\ Lock(m).writer = m.writer /\ Unlock(m).writer = m.writer
         /\ SetCapturing(m, b).writer = m.writer
         /\ Register(m).writer = m.writer /\ Unregister(m).writer = m.writer
BY DEF AddressSpace, Lock, Unlock, SetCapturing, Register, Unregister

LEMMA LearnLemma ==
  ASSUME NEW m \in AddressSpace, NEW ip \in Ip, NEW index \in Nat,
         NEW name \in Seq(Ip)
  PROVE  /\ Learn(m, ip, index, name) \in AddressSpace
         /\ Learn(m, ip, index, name).flag = m.flag
<1>1. m.symNames \in Seq(Ip) /\ m.symMap \in [Ip -> Nat \cup {None}]
  BY DEF AddressSpace
<1>2. m.symNames \o name \in Seq(Ip)
  BY <1>1
<1>3. [m.symMap EXCEPT ![ip] = index] \in [Ip -> Nat \cup {None}]
  BY <1>1
<1>4. QED
  BY <1>2, <1>3 DEF AddressSpace, Learn

LEMMA NextFrameLemma ==
  ASSUME NEW c \in Call, NEW index \in Nat, c.frames # <<>>
  PROVE  NextFrame(c, index) \in Call
<1>1. c.frames \in Seq(Ip) /\ c.ids \in Seq(Nat)
  BY DEF Call
<1>2. Tail(c.frames) \in Seq(Ip) /\ Append(c.ids, index) \in Seq(Nat)
  BY <1>1
<1>3. QED
  BY <1>2 DEF Call, NextFrame

-----------------------------------------------------------------------------
(* Type correctness *)

LEMMA InitTypeInv == Init => TypeInv
<1> SUFFICES ASSUME Init PROVE TypeInv
  OBVIOUS
<1>1. [flag |-> FALSE, capture |-> TRUE, fwriter |-> FALSE,
       wLocal |-> FALSE, writer |-> "none", symMap |-> [i \in Ip |-> None],
       symNames |-> <<>>, atexits |-> 0] \in AddressSpace
  BY DEF AddressSpace
<1>2. NoCall \in Call
  BY DEF NoCall, Call
<1>3. TypeOK
  BY <1>1, <1>2, SlotsAssumption DEF Init, TypeOK, Where
<1>4. Placed
  BY SlotsAssumption DEF Init, Placed
<1>5. QED
  BY <1>3, <1>4 DEF TypeInv

LEMMA IndexType ==
  ASSUME TypeOK, NEW p \in Proc
  PROVE  /\ Cardinality(Known(p)) \in Nat
         /\ Cardinality(Known(p)) % (IndexMax + 1) \in Nat
<1>1. IsFiniteSet(Known(p))
  BY CallAssumption, FS_Subset DEF Known
<1>2. Cardinality(Known(p)) \in Nat
  BY <1>1, FS_CardinalityType
<1>3. QED
  BY <1>2, BoundAssumption

LEMMA UnwindLemma ==
  ASSUME TypeInv, NEW t \in Thread, Unwind(t)
  PROVE  \E m \in AddressSpace, c \in Call :
           /\ mem' = [mem EXCEPT ![proc[t]] = m]
           /\ call' = [call EXCEPT ![t] = c]
           /\ m.flag = mem[proc[t]].flag
<1> DEFINE p == proc[t]
           ip == Head(call[t].frames)
           index == IF ip \in Known(p) THEN mem[p].symMap[ip]
                    ELSE Cardinality(Known(p)) % (IndexMax + 1)
           name == IF ip \in Known(p) THEN <<>> ELSE <<ip>>
<1>1. p \in Proc /\ mem[p] \in AddressSpace /\ call[t] \in Call
  BY DEF Unwind, TypeInv, TypeOK, Placed
<1>2. ip \in Ip
  BY <1>1 DEF Unwind, Call
<1>3. index \in Nat
  BY <1>1, <1>2, IndexType DEF Known, AddressSpace, TypeInv
<1>4. name \in Seq(Ip)
  BY <1>2
<1>5. /\ Learn(mem[p], ip, index, name) \in AddressSpace
      /\ Learn(mem[p], ip, index, name).flag = mem[p].flag
  BY <1>1, <1>2, <1>3, <1>4, LearnLemma
<1>6. NextFrame(call[t], index) \in Call
  BY <1>1, <1>3, NextFrameLemma DEF Unwind
<1> HIDE DEF ip, index, name
<1>7. /\ mem' = [mem EXCEPT ![p] = Learn(@, ip, index, name)]
      /\ call' = [call EXCEPT ![t] = NextFrame(@, index)]
  BY DEF Unwind, ip, index, name
<1>8. QED
  BY <1>5, <1>6, <1>7

LEMMA HookStepTypeInv ==
  ASSUME TypeInv, NEW t \in Thread, HookStep(t) PROVE TypeInv'
<1> DEFINE p == proc[t]
<1>0. (pc[t] # "unused" => p \in Proc) /\ (p \in Proc => mem[p] \in AddressSpace)
  BY DEF TypeInv, TypeOK, Placed
<1>n. NoCall \in Call
  BY DEF NoCall, Call
<1> USE <1>0, SlotsAssumption DEF TypeInv, TypeOK, Placed, procVars, outVars, Goto
<1>1. CASE CreateWriter(t)
  <2>1. p \in Proc /\ Unlock(NewWriter(Register(mem[p]))) \in AddressSpace
    BY <1>1, RegisterLemma, WriterLemma, LockLemma DEF CreateWriter
  <2>2. QED
    BY <1>1, <2>1 DEF CreateWriter, Where
<1>2. CASE Skip(t)
  <2>1. lost' \in [Proc -> BOOLEAN]
    BY <1>2, BoundAssumption DEF Skip, Captured, AddressSpace
  <2>2. QED
    BY <1>2, <1>n, <2>1 DEF Skip, Resume, Where
<1>3. CASE Acquire(t)
  BY <1>3, LockLemma DEF Acquire, Where
<1>4. CASE AbortFull(t)
  BY <1>4, LockLemma DEF AbortFull, End, Where
<1>5. CASE Unwind(t)
  <2>1. PICK m \in AddressSpace, c \in Call :
          /\ mem' = [mem EXCEPT ![p] = m]
          /\ call' = [call EXCEPT ![t] = c]
    BY <1>5, UnwindLemma
  <2>2. UNCHANGED <<procVars, proc, pc, calls, outVars>>
    BY <1>5 DEF Unwind
  <2>3. QED
    BY <2>1, <2>2
<1>6. CASE WriteFakeFree(t)
  <2>1. [type |-> FREE, by |-> t, fake |-> TRUE, stack |-> <<>>, ids |-> <<>>]
          \in Record
    BY DEF Record
  <2>2. p \in Proc
    BY <1>6 DEF WriteFakeFree, Unwound
  <2>3. file' \in [Proc -> Seq(Record)]
    BY <1>6, <2>1, <2>2 DEF WriteFakeFree
  <2>4. QED
    BY <1>6, <2>3 DEF WriteFakeFree, Where
<1>7. CASE WriteRecord(t)
  <2>1. [type |-> call[t].op, by |-> t, fake |-> FALSE,
         stack |-> call[t].stack, ids |-> call[t].ids] \in Record
    BY DEF Record, Call
  <2>2. p \in Proc
    BY <1>7 DEF WriteRecord, Unwound
  <2>3. file' \in [Proc -> Seq(Record)]
    BY <1>7, <2>1, <2>2 DEF WriteRecord
  <2>4. QED
    BY <1>7, <2>3 DEF WriteRecord, Where
<1>8. CASE Release(t)
  BY <1>8, <1>n, LockLemma DEF Release, Resume, Where
<1>9. CASE WriteThrows(t)
  BY <1>9 DEF WriteThrows, Unwound, End, Where
<1>10. CASE FreeThrows(t)
  <2>1. pc[t] = "unwind" /\ UNCHANGED <<mem, exiter, forks, proc, calls, outVars>>
    BY <1>10 DEF FreeThrows, Unwound
  <2>2. CASE /\ lost' = [lost EXCEPT ![p] = TRUE] /\ call' = [call EXCEPT ![t] = NoCall]
             /\ Goto(t, Resume(t)) /\ UNCHANGED status
    BY <1>n, <2>1, <2>2 DEF Resume, Where
  <2>3. CASE End(p, "terminated") /\ UNCHANGED <<lost, call>>
    BY <2>1, <2>3 DEF End, Where
  <2>4. QED
    BY <1>10, <2>2, <2>3 DEF FreeThrows
<1>11. QED
  BY <1>1, <1>2, <1>3, <1>4, <1>5, <1>6, <1>7, <1>8, <1>9, <1>10 DEF HookStep
LEMMA ForkStepTypeInv ==
  ASSUME TypeInv, NEW t \in Thread, ForkStep(t) PROVE TypeInv'
<1> DEFINE p == proc[t]
<1>0. (pc[t] # "unused" => p \in Proc) /\ (p \in Proc => mem[p] \in AddressSpace)
  BY DEF TypeInv, TypeOK, Placed
<1> USE <1>0, SlotsAssumption DEF TypeInv, TypeOK, Placed, procVars, outVars, Goto
<1>1. ASSUME NEW from \in {"prepSpin", "parentSpin", "childSpin"},
             NEW to \in {"prep", "parent", "child"}, SpinAcquire(t, from, to)
      PROVE  TypeInv'
  BY <1>1, LockLemma DEF SpinAcquire, Where
<1>2. CASE PrepClose(t)
  BY <1>2, WriterLemma, LockLemma DEF PrepClose, Where
<1>3. CASE Fork(t)
  <2>1. PICK q \in Proc, u \in Thread :
          /\ status[q] = "unborn"
          /\ pc[u] = "unused"
          /\ mem' = [mem EXCEPT ![q] = mem[p]]
          /\ status' = [status EXCEPT ![q] = "running"]
          /\ proc' = [proc EXCEPT ![u] = q]
          /\ pc' = [pc EXCEPT ![t] = AfterForkParent(p), ![u] = AfterForkChild(p)]
    BY <1>3 DEF Fork
  <2>2. AfterForkParent(p) \in {"parentSpin", "idle"} /\ AfterForkChild(p) \in {"childSpin", "childExit"}
    BY DEF AfterForkParent, AfterForkChild
  <2>3. TypeOK'
    BY <1>3, <2>1, <2>2 DEF Fork, Where
  <2>4. Placed'
    BY <1>3, <2>1, <2>2 DEF Fork
  <2>5. QED
    BY <2>3, <2>4
<1>4. CASE ForkFails(t)
  BY <1>4 DEF ForkFails, AfterForkParent, Where
<1>5. CASE ParentReopen(t)
  BY <1>5, WriterLemma, LockLemma DEF ParentReopen, Where
<1>6. CASE ChildRenew(t)
  <2>1. p \in Proc /\ Unlock(NewWriter(mem[p])) \in AddressSpace
    BY <1>6, WriterLemma, LockLemma DEF ChildRenew
  <2>2. QED
    BY <1>6, <2>1 DEF ChildRenew, Where
<1>7. CASE ChildAtexit(t)
  BY <1>7, RegisterLemma DEF ChildAtexit, Where
<1>8. QED
  BY <1>1, <1>2, <1>3, <1>4, <1>5, <1>6, <1>7
     DEF ForkStep, PrepAcquire, ParentAcquire, ChildAcquire

LEMMA ExitStepTypeInv ==
  ASSUME TypeInv, NEW t \in Thread, ExitStep(t) \/ UseDeleted(t) PROVE TypeInv'
<1> DEFINE p == proc[t]
<1>0. (pc[t] # "unused" => p \in Proc) /\ (p \in Proc => mem[p] \in AddressSpace)
  BY DEF TypeInv, TypeOK, Placed
<1> USE <1>0, SlotsAssumption DEF TypeInv, TypeOK, Placed, procVars, outVars, Goto
<1>1. CASE EnterHandler(t)
  <2>1. Unregister(mem[p]) \in AddressSpace /\ Lock(Unregister(mem[p])) \in AddressSpace
    BY <1>1, RegisterLemma, LockLemma DEF EnterHandler
  <2>2. mem' \in [Proc -> AddressSpace]
    BY <1>1, <2>1 DEF EnterHandler
  <2>3. pc' \in [Thread -> Where] /\ (pc'[t] # "unused")
    BY <1>1 DEF EnterHandler, Where
  <2>4. \A u \in Thread : u # t => pc'[u] = pc[u]
    BY <1>1 DEF EnterHandler
  <2>5. pc[t] # "unused" /\ UNCHANGED <<procVars, proc, call, calls, outVars>>
    BY <1>1 DEF EnterHandler
  <2>6. QED
    BY <2>2, <2>3, <2>4, <2>5
<1>2. CASE DumpTables(t)
  BY <1>2 DEF DumpTables, AddressSpace, Where
<1>3. CASE DeleteWriter(t)
  BY <1>3, WriterLemma DEF DeleteWriter, Where
<1>4. CASE Exit(t)
  BY <1>4 DEF Exit, End, Where
<1>5. CASE UseDeleted(t)
  BY <1>5 DEF UseDeleted, End, Where
<1>6. QED
  BY <1>1, <1>2, <1>3, <1>4, <1>5 DEF ExitStep

LEMMA ApplicationStepTypeInv ==
  ASSUME TypeInv, NEW t \in Thread, ApplicationStep(t) PROVE TypeInv'
<1> DEFINE p == proc[t]
<1>0. (pc[t] # "unused" => p \in Proc) /\ (p \in Proc => mem[p] \in AddressSpace)
  BY DEF TypeInv, TypeOK, Placed
<1> USE <1>0, SlotsAssumption DEF TypeInv, TypeOK, Placed, procVars, outVars, Goto
<1>1. CASE HookEnter(t)
  <2>1. PICK op \in Ops, s \in Stacks \cup {<<>>} :
          call' = [call EXCEPT ![t] =
                    [op |-> op, frames |-> s, stack |-> s, ids |-> <<>>]]
    BY <1>1 DEF HookEnter, StacksOf
  <2>2. [op |-> op, frames |-> s, stack |-> s, ids |-> <<>>] \in Call
    <3>1. <<>> \in Seq(Ip) /\ <<>> \in Seq(Nat)
      OBVIOUS
    <3>2. s \in Seq(Ip)
      BY ONLY <3>1, CallAssumption, s \in Stacks \cup {<<>>}, Zenon
    <3>3. QED
      BY <3>1, <3>2, CallAssumption DEF Call
  <2>3. call' \in [Thread -> Call]
    BY <2>1, <2>2
  <2>4. p \in Proc /\ Lock(mem[p]) \in AddressSpace
    BY <1>1, LockLemma DEF HookEnter
  <2>5. /\ mem' = mem \/ mem' = [mem EXCEPT ![p] = Lock(@)]
        /\ pc' = [pc EXCEPT ![t] = "called"] \/ pc' = [pc EXCEPT ![t] = "create"]
        /\ calls' = [calls EXCEPT ![t] = @ + 1]
        /\ UNCHANGED <<procVars, proc, outVars>>
        /\ pc[t] # "unused"
    BY <1>1 DEF HookEnter
  <2>6. mem' \in [Proc -> AddressSpace]
    BY <2>4, <2>5
  <2>7. pc' \in [Thread -> Where] /\ pc'[t] # "unused"
          /\ \A u \in Thread : u # t => pc'[u] = pc[u]
    BY <2>5 DEF Where
  <2>8. QED
    BY <2>3, <2>5, <2>6, <2>7
<1>2. CASE SetCapture(t)
  BY <1>2, CaptureLemma DEF SetCapture
<1>3. CASE Spawn(t)
  BY <1>3 DEF Spawn, Where
<1>4. CASE BeginFork(t)
  BY <1>4 DEF BeginFork, Where
<1>5. CASE BeginExit(t)
  BY <1>5 DEF BeginExit, Where
<1>6. QED
  BY <1>1, <1>2, <1>3, <1>4, <1>5 DEF ApplicationStep

LEMMA StutterTypeInv == TypeInv /\ UNCHANGED vars => TypeInv'
BY DEF TypeInv, TypeOK, Placed, vars, procVars, outVars

LEMMA TypeInvStep == TypeInv /\ [Next]_vars => TypeInv'
BY HookStepTypeInv, ForkStepTypeInv, ExitStepTypeInv, ApplicationStepTypeInv,
   StutterTypeInv DEF Next, LibraryStep, Finished

(* The type invariant, with the placement of the threads that makes it     *)
(* inductive, holds throughout.                                            *)
LEMMA TypeInvariant == Spec => []TypeInv
BY InitTypeInv, TypeInvStep, PTL DEF Spec

(* Every variable of the recording protocol keeps its type.                *)
THEOREM TypeCorrect == Spec => []TypeOK
<1>1. TypeInv => TypeOK
  BY DEF TypeInv
<1>2. QED
  BY TypeInvariant, <1>1, PTL

-----------------------------------------------------------------------------
(* Mutual exclusion                                                        *)
(*                                                                         *)
(* Besides the types, the argument needs that a thread inside exit() is    *)
(* the one its process calls the exiter: the handler takes the flag        *)
(* without looking, so a thread entering it must not count any more.       *)

ExitPlaced ==
  \A t \in Thread :
    pc[t] \in {"exit", "dump", "delete"} => exiter[proc[t]] = t

MutexInv == TypeInv /\ ExitPlaced /\ MutualExclusion

(* A step after which no thread is newly in its critical section, and that *)
(* clears no flag of a thread that is in one.                              *)
LEMMA KeepLemma ==
  ASSUME MutualExclusion,
         \A u \in Thread : pc'[u] \in Critical /\ exiter'[proc'[u]] = None =>
           /\ pc[u] \in Critical /\ proc'[u] = proc[u]
           /\ exiter[proc[u]] = None
           /\ mem[proc[u]].flag => mem'[proc[u]].flag
  PROVE  MutualExclusion'
BY DEF MutualExclusion, Critical

(* A step of t that finds the flag clear and sets it.                      *)
LEMMA AcquireLemma ==
  ASSUME MutualExclusion, NEW t \in Thread,
         ~mem[proc[t]].flag, mem'[proc[t]].flag,
         \A r \in Proc : r # proc[t] => mem'[r] = mem[r],
         \A u \in Thread : proc[u] = None => pc[u] \notin Critical,
         proc \in [Thread -> Proc \cup {None}],
         \A u \in Thread : u # t => pc'[u] = pc[u],
         UNCHANGED <<proc, exiter>>
  PROVE  MutualExclusion'
BY DEF MutualExclusion

(* A step of t out of its critical section.                                *)
LEMMA ReleaseLemma ==
  ASSUME MutualExclusion, NEW t \in Thread,
         pc[t] \in Critical, pc'[t] \notin Critical,
         \A r \in Proc : r # proc[t] => mem'[r] = mem[r],
         \A u \in Thread : proc[u] = None => pc[u] \notin Critical,
         proc \in [Thread -> Proc \cup {None}],
         \A u \in Thread : u # t => pc'[u] = pc[u],
         UNCHANGED <<proc, exiter>>
  PROVE  MutualExclusion'
BY DEF MutualExclusion

LEMMA HookStepMutex ==
  ASSUME MutexInv, NEW t \in Thread, HookStep(t) PROVE MutualExclusion' /\ ExitPlaced'
<1> DEFINE p == proc[t]
<1>0. /\ pc[t] # "unused" => p \in Proc /\ mem[p] \in AddressSpace
      /\ pc \in [Thread -> Where] /\ mem \in [Proc -> AddressSpace]
      /\ proc \in [Thread -> Proc \cup {None}]
      /\ \A u \in Thread : proc[u] = None => pc[u] \notin Critical
      /\ MutualExclusion /\ ExitPlaced
  BY DEF MutexInv, TypeInv, TypeOK, Placed, Critical
<1> USE <1>0 DEF procVars, outVars, Goto
<1>1. CASE CreateWriter(t)
  <2>1. Unlock(NewWriter(Register(mem[p]))) \in AddressSpace
    BY <1>1, RegisterLemma, WriterLemma, LockLemma DEF CreateWriter
  <2>2. MutualExclusion'
    BY <1>1, <2>1, ReleaseLemma DEF CreateWriter, Critical
  <2>3. QED
    BY <1>1, <2>2 DEF CreateWriter, ExitPlaced
<1>2. CASE Skip(t)
  BY <1>2, KeepLemma DEF Skip, Resume, Critical, ExitPlaced
<1>3. CASE Acquire(t)
  <2>1. MutualExclusion'
    BY <1>3, LockLemma, AcquireLemma DEF Acquire, Critical
  <2>2. QED
    BY <1>3, <2>1 DEF Acquire, ExitPlaced
<1>4. CASE AbortFull(t)
  BY <1>4, LockLemma, KeepLemma DEF AbortFull, End, Critical, ExitPlaced
<1>5. CASE Unwind(t)
  <2>1. UNCHANGED <<pc, proc, exiter>>
    BY <1>5 DEF Unwind
  <2>2. \A r \in Proc : mem'[r].flag = mem[r].flag
    BY <1>5, UnwindLemma DEF MutexInv
  <2>3. QED
    BY <2>1, <2>2, KeepLemma DEF ExitPlaced, Critical
<1>6. CASE WriteFakeFree(t)
  BY <1>6, KeepLemma DEF WriteFakeFree, Unwound, Critical, ExitPlaced
<1>7. CASE WriteRecord(t)
  BY <1>7, KeepLemma DEF WriteRecord, Unwound, Critical, ExitPlaced
<1>8. CASE Release(t)
  <2>1. MutualExclusion'
    BY <1>8, ReleaseLemma DEF Release, Resume, Critical
  <2>2. QED
    BY <1>8, <2>1 DEF Release, Resume, ExitPlaced
<1>9. CASE WriteThrows(t)
  BY <1>9, KeepLemma DEF WriteThrows, Unwound, End, Critical, ExitPlaced
<1>10. CASE FreeThrows(t)
  BY <1>10, KeepLemma DEF FreeThrows, Unwound, Resume, End, Critical, ExitPlaced
<1>11. QED
  BY <1>1, <1>2, <1>3, <1>4, <1>5, <1>6, <1>7, <1>8, <1>9, <1>10 DEF HookStep
LEMMA ForkStepMutex ==
  ASSUME MutexInv, NEW t \in Thread, ForkStep(t) PROVE MutualExclusion' /\ ExitPlaced'
<1> DEFINE p == proc[t]
<1>0. /\ pc[t] # "unused" => p \in Proc /\ mem[p] \in AddressSpace
      /\ pc \in [Thread -> Where] /\ mem \in [Proc -> AddressSpace]
      /\ proc \in [Thread -> Proc \cup {None}]
      /\ exiter \in [Proc -> Thread \cup {None}]
      /\ \A u \in Thread : proc[u] = None => pc[u] \notin Critical
      /\ \A u \in Thread : pc[u] # "unused" => proc[u] \in Proc
      /\ MutualExclusion /\ ExitPlaced
  BY DEF MutexInv, TypeInv, TypeOK, Placed, Critical
<1> USE <1>0, SlotsAssumption DEF procVars, outVars, Goto
<1>1. ASSUME NEW from \in {"prepSpin", "parentSpin", "childSpin"},
             NEW to \in {"prep", "parent", "child"}, SpinAcquire(t, from, to)
      PROVE  MutualExclusion' /\ ExitPlaced'
  <2>1. MutualExclusion'
    BY <1>1, LockLemma, AcquireLemma DEF SpinAcquire
  <2>2. QED
    BY <1>1, <2>1 DEF SpinAcquire, ExitPlaced
<1>2. CASE PrepClose(t)
  <2>1. MutualExclusion'
    BY <1>2, ReleaseLemma DEF PrepClose, Critical
  <2>2. QED
    BY <1>2, <2>1 DEF PrepClose, ExitPlaced
<1>3. CASE Fork(t)
  <2>1. PICK q \in Proc, u \in Thread :
          /\ status[q] = "unborn"
          /\ pc[u] = "unused"
          /\ mem' = [mem EXCEPT ![q] = mem[p]]
          /\ proc' = [proc EXCEPT ![u] = q]
          /\ pc' = [pc EXCEPT ![t] = AfterForkParent(p), ![u] = AfterForkChild(p)]
    BY <1>3 DEF Fork
  <2>2. /\ AfterForkParent(p) \in {"parentSpin", "idle"}
        /\ AfterForkChild(p) \in {"childSpin", "childExit"}
    BY DEF AfterForkParent, AfterForkChild
  <2>3. \A w \in Thread : pc'[w] \in Critical => pc[w] \in Critical /\ w # u
    BY <1>3, <2>1, <2>2 DEF Fork, Critical
  <2>4. \A w \in Thread : proc[w] # None => proc[w] # q
    BY <2>1 DEF MutexInv, TypeInv, Placed
  <2>5. \A w \in Thread : pc'[w] \in Critical =>
          proc'[w] = proc[w] /\ mem'[proc[w]] = mem[proc[w]]
    BY <2>1, <2>3, <2>4 DEF Critical
  <2>6. exiter' = exiter
    BY <1>3 DEF Fork
  <2>7. MutualExclusion'
    BY <2>3, <2>5, <2>6, KeepLemma
  <2>8. \A w \in Thread : pc'[w] \in {"exit", "dump", "delete"} =>
          pc[w] = pc'[w] /\ proc'[w] = proc[w]
    BY <1>3, <2>1, <2>2 DEF Fork
  <2>9. QED
    BY <2>6, <2>7, <2>8 DEF ExitPlaced
<1>4. CASE ForkFails(t)
  BY <1>4, KeepLemma DEF ForkFails, AfterForkParent, Critical, ExitPlaced
<1>5. CASE ParentReopen(t)
  <2>1. MutualExclusion'
    BY <1>5, ReleaseLemma DEF ParentReopen, Critical
  <2>2. QED
    BY <1>5, <2>1 DEF ParentReopen, ExitPlaced
<1>6. CASE ChildRenew(t)
  <2>1. MutualExclusion'
    BY <1>6, ReleaseLemma DEF ChildRenew, Critical
  <2>2. QED
    BY <1>6, <2>1 DEF ChildRenew, ExitPlaced
<1>7. CASE ChildAtexit(t)
  <2>1. \A r \in Proc : mem'[r].flag = mem[r].flag
    BY <1>7, RegisterLemma DEF ChildAtexit
  <2>2. QED
    BY <1>7, <2>1, KeepLemma DEF ChildAtexit, Critical, ExitPlaced
<1>8. QED
  BY <1>1, <1>2, <1>3, <1>4, <1>5, <1>6, <1>7
     DEF ForkStep, PrepAcquire, ParentAcquire, ChildAcquire

LEMMA ExitStepMutex ==
  ASSUME MutexInv, NEW t \in Thread, ExitStep(t) \/ UseDeleted(t)
  PROVE  MutualExclusion' /\ ExitPlaced'
<1> DEFINE p == proc[t]
<1>0. /\ pc[t] # "unused" => p \in Proc /\ mem[p] \in AddressSpace
      /\ pc \in [Thread -> Where] /\ mem \in [Proc -> AddressSpace]
      /\ proc \in [Thread -> Proc \cup {None}]
      /\ exiter \in [Proc -> Thread \cup {None}]
      /\ \A u \in Thread : proc[u] = None => pc[u] \notin Critical
      /\ \A u \in Thread : pc[u] # "unused" => proc[u] \in Proc
      /\ MutualExclusion /\ ExitPlaced
  BY DEF MutexInv, TypeInv, TypeOK, Placed, Critical
<1> USE <1>0, SlotsAssumption DEF procVars, outVars, Goto
<1>1. CASE EnterHandler(t)
  <2>1. \A r \in Proc : mem[r].flag => mem'[r].flag
    <3>1. mem[p] \in AddressSpace /\ mem[p].atexits > 0
      BY <1>1 DEF EnterHandler
    <3>2. /\ Unregister(mem[p]) \in AddressSpace
          /\ Unregister(mem[p]).flag = mem[p].flag
      BY <3>1, RegisterLemma
    <3>3. Lock(Unregister(mem[p])).flag = TRUE
      BY <3>2, LockLemma
    <3>4. QED
      BY <1>1, <3>2, <3>3 DEF EnterHandler
  <2>2. exiter[p] = t /\ t # None
    BY <1>1 DEF EnterHandler, ExitPlaced
  <2>3. /\ pc' = pc \/ pc' = [pc EXCEPT ![t] = "dump"]
        /\ UNCHANGED <<proc, exiter>>
    BY <1>1 DEF EnterHandler
  <2>4. MutualExclusion'
    BY <2>1, <2>2, <2>3, KeepLemma DEF Critical
  <2>5. QED
    BY <2>2, <2>3, <2>4 DEF ExitPlaced
<1>2. CASE DumpTables(t)
  BY <1>2, KeepLemma DEF DumpTables, Critical, ExitPlaced
<1>3. CASE DeleteWriter(t)
  <2>1. \A r \in Proc : mem'[r].flag = mem[r].flag
    BY <1>3, WriterLemma DEF DeleteWriter
  <2>2. QED
    BY <1>3, <2>1, KeepLemma DEF DeleteWriter, Critical, ExitPlaced
<1>4. CASE Exit(t)
  BY <1>4, KeepLemma DEF Exit, End, Critical, ExitPlaced
<1>5. CASE UseDeleted(t)
  BY <1>5, KeepLemma DEF UseDeleted, End, Critical, ExitPlaced
<1>6. QED
  BY <1>1, <1>2, <1>3, <1>4, <1>5 DEF ExitStep

LEMMA ApplicationStepMutex ==
  ASSUME MutexInv, NEW t \in Thread, ApplicationStep(t)
  PROVE  MutualExclusion' /\ ExitPlaced'
<1> DEFINE p == proc[t]
<1>0. /\ pc[t] # "unused" => p \in Proc /\ mem[p] \in AddressSpace
      /\ pc \in [Thread -> Where] /\ mem \in [Proc -> AddressSpace]
      /\ proc \in [Thread -> Proc \cup {None}]
      /\ exiter \in [Proc -> Thread \cup {None}]
      /\ \A u \in Thread : proc[u] = None => pc[u] \notin Critical
      /\ \A u \in Thread : pc[u] # "unused" => proc[u] \in Proc
      /\ MutualExclusion /\ ExitPlaced
  BY DEF MutexInv, TypeInv, TypeOK, Placed, Critical
<1> USE <1>0, SlotsAssumption DEF procVars, outVars, Goto
<1>1. CASE HookEnter(t)
  <2>1. /\ pc[t] \in {"idle", "exit"}
        /\ UNCHANGED <<proc, exiter>>
        /\ \/ mem' = mem /\ pc' = [pc EXCEPT ![t] = "called"]
           \/ /\ ~mem[p].flag
              /\ mem' = [mem EXCEPT ![p] = Lock(@)]
              /\ pc' = [pc EXCEPT ![t] = "create"]
    BY <1>1 DEF HookEnter
  <2>2. CASE mem' = mem /\ pc' = [pc EXCEPT ![t] = "called"]
    BY <2>1, <2>2, KeepLemma DEF Critical, ExitPlaced
  <2>3. CASE /\ ~mem[p].flag
             /\ mem' = [mem EXCEPT ![p] = Lock(@)]
             /\ pc' = [pc EXCEPT ![t] = "create"]
    <3>1. MutualExclusion'
      BY <2>1, <2>3, LockLemma, AcquireLemma
    <3>2. QED
      BY <2>1, <2>3, <3>1 DEF ExitPlaced
  <2>4. QED
    BY <2>1, <2>2, <2>3
<1>2. CASE SetCapture(t)
  <2>1. \A r \in Proc : mem'[r].flag = mem[r].flag
    BY <1>2, CaptureLemma DEF SetCapture
  <2>2. QED
    BY <1>2, <2>1, KeepLemma DEF SetCapture, Critical, ExitPlaced
<1>3. CASE Spawn(t)
  <2>1. PICK u \in Thread : /\ pc[u] = "unused"
                            /\ proc' = [proc EXCEPT ![u] = proc[t]]
                            /\ pc' = [pc EXCEPT ![u] = "idle"]
    BY <1>3 DEF Spawn
  <2>2. UNCHANGED <<mem, exiter>>
    BY <1>3 DEF Spawn
  <2>3. \A w \in Thread : pc'[w] \notin {"idle"} => w # u
    BY <2>1
  <2>4. QED
    BY <2>1, <2>2, <2>3, KeepLemma DEF Critical, ExitPlaced
<1>4. CASE BeginFork(t)
  BY <1>4, KeepLemma DEF BeginFork, Critical, ExitPlaced
<1>5. CASE BeginExit(t)
  <2>1. /\ pc' = [pc EXCEPT ![t] = "exit"]
        /\ exiter' = [exiter EXCEPT ![p] = t] /\ exiter[p] = None
        /\ UNCHANGED <<mem, proc>> /\ pc[t] = "idle" /\ p \in Proc
    BY <1>5 DEF BeginExit
  <2>2. MutualExclusion'
    BY <2>1, KeepLemma DEF Critical
  <2>3. QED
    BY <2>1, <2>2 DEF ExitPlaced
<1>6. QED
  BY <1>1, <1>2, <1>3, <1>4, <1>5 DEF ApplicationStep

LEMMA MutexInit == Init => MutexInv
BY InitTypeInv DEF Init, MutexInv, ExitPlaced, MutualExclusion, Critical

LEMMA MutexStep == MutexInv /\ [Next]_vars => MutexInv'
<1> SUFFICES ASSUME MutexInv, [Next]_vars PROVE MutexInv'
  OBVIOUS
<1>1. TypeInv'
  BY TypeInvStep DEF MutexInv
<1>2. CASE UNCHANGED vars
  BY <1>1, <1>2 DEF MutexInv, ExitPlaced, MutualExclusion, vars, procVars
<1>3. ASSUME NEW t \in Thread, LibraryStep(t) \/ ApplicationStep(t)
      PROVE  MutualExclusion' /\ ExitPlaced'
  BY <1>3, HookStepMutex, ForkStepMutex, ExitStepMutex, ApplicationStepMutex
     DEF LibraryStep
<1>4. QED
  BY <1>1, <1>2, <1>3 DEF Next, Finished, MutexInv

(* The atomic flag is a lock: until exit() is called in a process, at most *)
(* one of its threads is inside the writer, the record buffer or the       *)
(* symbol tables, and the flag is then set.                                *)
THEOREM FlagIsALock == Spec => []MutualExclusion
<1>1. MutexInv => MutualExclusion
  BY DEF MutexInv
<1>2. QED
  BY MutexInit, MutexStep, <1>1, PTL DEF Spec

-----------------------------------------------------------------------------
(* The pair of records of a realloc                                        *)
(*                                                                         *)
(* Mutual exclusion keeps other records out of the pair.  That the second  *)
(* record is written at all needs the file open while the pair is being    *)
(* written, and that a record's thread is one of the process of the file.  *)

Authors ==
  \A p \in Proc : \A i \in DOMAIN file[p] :
    pc[file[p][i].by] # "unused" /\ proc[file[p][i].by] = p

Halfway ==
  \A t \in Thread :
    pc[t] = "write" /\ exiter[proc[t]] = None =>
      mem[proc[t]].writer = "open" /\ call[t].op = REALLOC

Pairs == Authors /\ Halfway /\ ReallocPaired
PairInv == MutexInv /\ Pairs

LEMMA RecordsBy ==
  ASSUME NEW s \in Seq(Record), NEW i \in DOMAIN s
  PROVE  s[i].by \in Thread
<1>1. s[i] \in Record
  OBVIOUS
<1>2. QED
  BY <1>1 DEF Record

(* A step that writes no record, and that lets no thread leave the middle  *)
(* of a pair.                                                              *)
LEMMA PairKeepLemma ==
  ASSUME PairInv,
         \A r \in Proc : file'[r] = file[r] \/ file'[r] = <<>>,
         \A r \in Proc : exiter'[r] = None => exiter[r] = None,
         \A u \in Thread : pc[u] # "unused" => pc'[u] # "unused" /\ proc'[u] = proc[u],
         \A u \in Thread : pc'[u] = "write" => pc[u] = "write",
         \A u \in Thread : pc[u] = "write" /\ exiter[proc[u]] = None =>
           /\ exiter'[proc[u]] = None => pc'[u] = "write"
           /\ mem'[proc[u]].writer = "open"
           /\ call'[u] = call[u]
  PROVE  Pairs'
<1>0. /\ file \in [Proc -> Seq(Record)]
      /\ \A u \in Thread : pc[u] # "unused" => proc[u] \in Proc
      /\ Authors /\ Halfway /\ ReallocPaired
  BY DEF PairInv, Pairs, MutexInv, TypeInv, TypeOK, Placed
<1>1. \A p \in Proc : \A i \in DOMAIN file[p] : file[p][i].by \in Thread
  BY <1>0, RecordsBy
<1>2. Authors'
  BY <1>0, <1>1 DEF Authors
<1>3. Halfway'
  BY <1>0 DEF Halfway
<1>4. ReallocPaired'
  <2> SUFFICES ASSUME NEW p \in Proc, NEW i \in DOMAIN file'[p],
                      file'[p][i].fake, exiter'[p] = None
               PROVE  \/ i = Len(file'[p]) /\ pc'[file'[p][i].by] = "write"
                      \/ /\ i < Len(file'[p])
                         /\ file'[p][i + 1].type = REALLOC
                         /\ file'[p][i + 1].by = file'[p][i].by
    BY DEF ReallocPaired
  <2>1. file'[p] = file[p] /\ exiter[p] = None
    OBVIOUS
  <2>2. proc[file[p][i].by] = p /\ file[p][i].by \in Thread
    BY <1>0, <1>1, <2>1 DEF Authors
  <2>3. QED
    BY <1>0, <2>1, <2>2 DEF ReallocPaired
<1>5. QED
  BY <1>2, <1>3, <1>4 DEF Pairs

(* A record by t that is not the second of a pair begun by another thread. *)
LEMMA PairAppendLemma ==
  ASSUME PairInv, NEW t \in Thread, pc[t] \in {"unwind", "write"},
         NEW r \in Record, r.by = t,
         r.fake => pc'[t] = "write",
         pc[t] = "write" /\ exiter[proc[t]] = None => r.type = REALLOC /\ ~r.fake,
         pc'[t] = "write" => mem[proc[t]].writer = "open" /\ call[t].op = REALLOC,
         file' = [file EXCEPT ![proc[t]] = Append(@, r)],
         \A u \in Thread : u # t => pc'[u] = pc[u],
         pc'[t] # "unused",
         UNCHANGED <<mem, exiter, proc, call>>
  PROVE  Pairs'
<1> DEFINE p == proc[t]
<1>0. /\ file \in [Proc -> Seq(Record)]
      /\ p \in Proc /\ file[p] \in Seq(Record)
      /\ MutualExclusion /\ Authors /\ Halfway /\ ReallocPaired
  BY DEF PairInv, Pairs, MutexInv, TypeInv, TypeOK, Placed
<1>1. \A q \in Proc : \A i \in DOMAIN file[q] : file[q][i].by \in Thread
  BY <1>0, RecordsBy
<1>2. /\ Len(file'[p]) = Len(file[p]) + 1
      /\ DOMAIN file'[p] = 1 .. Len(file[p]) + 1
      /\ DOMAIN file[p] = 1 .. Len(file[p])
      /\ file'[p][Len(file[p]) + 1] = r
      /\ \A i \in DOMAIN file[p] : file'[p][i] = file[p][i]
      /\ \A q \in Proc : q # p => file'[q] = file[q]
      /\ Len(file[p]) \in Nat
  BY <1>0
<1>3. Authors'
  <2> SUFFICES ASSUME NEW q \in Proc, NEW i \in DOMAIN file'[q]
               PROVE  pc'[file'[q][i].by] # "unused" /\ proc[file'[q][i].by] = q
    BY DEF Authors
  <2>1. CASE q = p /\ i = Len(file[p]) + 1
    BY <1>2, <2>1
  <2>2. CASE ~(q = p /\ i = Len(file[p]) + 1)
    <3>1. i \in DOMAIN file[q] /\ file'[q][i] = file[q][i]
      BY <1>2, <2>2
    <3>2. QED
      BY <1>0, <1>1, <3>1 DEF Authors
  <2>3. QED
    BY <2>1, <2>2
<1>4. Halfway'
  BY <1>0 DEF Halfway
<1>5. ReallocPaired'
  <2> SUFFICES ASSUME NEW q \in Proc, NEW i \in DOMAIN file'[q],
                      file'[q][i].fake, exiter[q] = None
               PROVE  \/ i = Len(file'[q]) /\ pc'[file'[q][i].by] = "write"
                      \/ /\ i < Len(file'[q])
                         /\ file'[q][i + 1].type = REALLOC
                         /\ file'[q][i + 1].by = file'[q][i].by
    BY DEF ReallocPaired
  <2>1. CASE q # p
    <3>1. file'[q] = file[q]
      BY <1>2, <2>1
    <3>2. proc[file[q][i].by] = q /\ file[q][i].by \in Thread
      BY <1>0, <1>1, <3>1 DEF Authors
    <3>3. pc'[file[q][i].by] = pc[file[q][i].by]
      BY <2>1, <3>2
    <3>4. QED
      BY <1>0, <3>1, <3>3 DEF ReallocPaired
  <2>2. CASE q = p /\ i = Len(file[p]) + 1
    BY <1>2, <2>2
  <2>3. CASE q = p /\ i < Len(file[p])
    <3>1. /\ i \in DOMAIN file[p] /\ i + 1 \in DOMAIN file[p]
          /\ i # Len(file[p]) /\ file[p][i].fake
      BY <1>2, <2>3
    <3>2. file[p][i + 1].type = REALLOC /\ file[p][i + 1].by = file[p][i].by
      BY <1>0, <2>3, <3>1 DEF ReallocPaired
    <3>3. QED
      BY <1>2, <2>3, <3>1, <3>2
  <2>4. CASE q = p /\ i = Len(file[p])
    <3>1. i \in DOMAIN file[p] /\ file'[p][i] = file[p][i]
      BY <1>2, <2>4
    <3>2. pc[file[p][i].by] = "write"
      BY <1>0, <2>4, <3>1 DEF ReallocPaired
    <3>3. file[p][i].by = t
      BY <1>0, <1>1, <2>4, <3>1, <3>2 DEF Authors, MutualExclusion, Critical
    <3>4. QED
      BY <1>2, <2>4, <3>1, <3>2, <3>3
  <2>5. QED
    BY <1>2, <2>1, <2>2, <2>3, <2>4
<1>6. QED
  BY <1>3, <1>4, <1>5 DEF Pairs

LEMMA HookStepPairs ==
  ASSUME PairInv, NEW t \in Thread, HookStep(t) PROVE Pairs'
<1> DEFINE p == proc[t]
<1>0. /\ pc[t] # "unused" => p \in Proc
      /\ pc \in [Thread -> Where] /\ mem \in [Proc -> AddressSpace]
      /\ proc \in [Thread -> Proc \cup {None}]
      /\ call \in [Thread -> Call]
      /\ file \in [Proc -> Seq(Record)]
      /\ \A u \in Thread : pc[u] # "unused" => proc[u] \in Proc
      /\ MutualExclusion /\ Halfway
  BY DEF PairInv, Pairs, MutexInv, TypeInv, TypeOK, Placed
<1> USE <1>0 DEF procVars, outVars, Goto
<1>1. CASE CreateWriter(t)
  <2>1. \A u \in Thread : pc[u] = "write" /\ exiter[proc[u]] = None => proc[u] # p
    BY <1>1 DEF CreateWriter, MutualExclusion, Critical
  <2>2. QED
    BY <1>1, <2>1, PairKeepLemma DEF CreateWriter, Halfway
<1>2. CASE Skip(t)
  BY <1>2, PairKeepLemma DEF Skip, Resume, Halfway
<1>3. CASE Acquire(t)
  <2>1. Lock(mem[p]).writer = mem[p].writer
    BY <1>3, SameWriterLemma DEF Acquire
  <2>2. QED
    BY <1>3, <2>1, PairKeepLemma DEF Acquire, Halfway
<1>4. CASE AbortFull(t)
  <2>1. \A u \in Thread : pc[u] = "write" /\ exiter[proc[u]] = None => proc[u] # p
    BY <1>4 DEF AbortFull, MutualExclusion, Critical
  <2>2. QED
    BY <1>4, <2>1, PairKeepLemma DEF AbortFull, End, Halfway
<1>5. CASE Unwind(t)
  <2>1. \A u \in Thread : pc[u] = "write" /\ exiter[proc[u]] = None => proc[u] # p
    BY <1>5 DEF Unwind, MutualExclusion, Critical
  <2>2. \A u \in Thread : proc[u] # p => mem'[proc[u]] = mem[proc[u]] /\ call'[u] = call[u]
    BY <1>5 DEF Unwind
  <2>3. UNCHANGED <<pc, proc, exiter, file>>
    BY <1>5 DEF Unwind
  <2>4. QED
    BY <2>1, <2>2, <2>3, PairKeepLemma DEF Halfway
<1>6. CASE WriteFakeFree(t)
  <2> DEFINE r == [type |-> FREE, by |-> t, fake |-> TRUE, stack |-> <<>>, ids |-> <<>>]
  <2>1. r \in Record /\ r.by = t
    BY DEF Record
  <2>2. /\ pc[t] = "unwind" /\ pc' = [pc EXCEPT ![t] = "write"]
        /\ mem[p].writer = "open" /\ call[t].op = REALLOC
        /\ file' = [file EXCEPT ![p] = Append(@, r)]
        /\ UNCHANGED <<mem, exiter, proc, call>>
    BY <1>6 DEF WriteFakeFree, Unwound
  <2> HIDE DEF r
  <2>3. QED
    BY <2>1, <2>2, PairAppendLemma
<1>7. CASE WriteRecord(t)
  <2> DEFINE r == [type |-> call[t].op, by |-> t, fake |-> FALSE,
                   stack |-> call[t].stack, ids |-> call[t].ids]
  <2>1. r \in Record /\ r.by = t /\ ~r.fake /\ r.type = call[t].op
    BY DEF Record, Call
  <2>2. /\ pc[t] \in {"unwind", "write"} /\ pc' = [pc EXCEPT ![t] = "release"]
        /\ file' = [file EXCEPT ![p] = Append(@, r)]
        /\ UNCHANGED <<mem, exiter, proc, call>>
    BY <1>7 DEF WriteRecord, Unwound
  <2> HIDE DEF r
  <2>3. pc[t] = "write" /\ exiter[p] = None => r.type = REALLOC
    BY <2>1 DEF Halfway
  <2>4. QED
    BY <2>1, <2>2, <2>3, PairAppendLemma
<1>8. CASE Release(t)
  <2>1. Unlock(mem[p]).writer = mem[p].writer
    BY <1>8, SameWriterLemma DEF Release
  <2>2. QED
    BY <1>8, <2>1, PairKeepLemma DEF Release, Resume, Halfway
<1>9. CASE WriteThrows(t)
  <2>1. \A u \in Thread : pc[u] = "write" /\ exiter[proc[u]] = None => proc[u] # p
    BY <1>9 DEF WriteThrows, Halfway
  <2>2. QED
    BY <1>9, <2>1, PairKeepLemma DEF WriteThrows, Unwound, End, Halfway
<1>10. CASE FreeThrows(t)
  <2>1. \A u \in Thread : pc[u] = "write" /\ exiter[proc[u]] = None => proc[u] # p
    BY <1>10 DEF FreeThrows, Halfway
  <2>2. QED
    BY <1>10, <2>1, PairKeepLemma DEF FreeThrows, Unwound, Resume, End, Halfway
<1>11. QED
  BY <1>1, <1>2, <1>3, <1>4, <1>5, <1>6, <1>7, <1>8, <1>9, <1>10 DEF HookStep

LEMMA ForkStepPairs ==
  ASSUME PairInv, NEW t \in Thread, ForkStep(t) PROVE Pairs'
<1> DEFINE p == proc[t]
<1>0. /\ pc[t] # "unused" => p \in Proc
      /\ pc \in [Thread -> Where] /\ mem \in [Proc -> AddressSpace]
      /\ proc \in [Thread -> Proc \cup {None}]
      /\ file \in [Proc -> Seq(Record)]
      /\ \A u \in Thread : pc[u] # "unused" => proc[u] \in Proc
      /\ MutualExclusion /\ Halfway
  BY DEF PairInv, Pairs, MutexInv, TypeInv, TypeOK, Placed
<1> USE <1>0 DEF procVars, outVars, Goto
<1>1. ASSUME NEW from \in {"prepSpin", "parentSpin", "childSpin"},
             NEW to \in {"prep", "parent", "child"}, SpinAcquire(t, from, to)
      PROVE  Pairs'
  <2>1. Lock(mem[p]).writer = mem[p].writer
    BY <1>1, SameWriterLemma DEF SpinAcquire
  <2>2. QED
    BY <1>1, <2>1, PairKeepLemma DEF SpinAcquire, Halfway
<1>2. ASSUME pc[t] \in {"prep", "parent", "child"},
             NEW l \in {"fork", "idle", "childExit"}, pc' = [pc EXCEPT ![t] = l],
             \A r \in Proc : r # p => mem'[r] = mem[r],
             \A r \in Proc : file'[r] = file[r] \/ file'[r] = <<>>,
             UNCHANGED <<proc, exiter, call>>
      PROVE  Pairs'
  <2>1. \A u \in Thread : pc[u] = "write" /\ exiter[proc[u]] = None => proc[u] # p
    BY <1>2 DEF MutualExclusion, Critical
  <2>2. QED
    BY <1>2, <2>1, PairKeepLemma DEF Halfway
<1>3. CASE PrepClose(t)
  BY <1>2, <1>3 DEF PrepClose
<1>4. CASE Fork(t)
  <2>1. PICK q \in Proc, u \in Thread :
          /\ status[q] = "unborn"
          /\ pc[u] = "unused"
          /\ mem' = [mem EXCEPT ![q] = mem[p]]
          /\ proc' = [proc EXCEPT ![u] = q]
          /\ pc' = [pc EXCEPT ![t] = AfterForkParent(p), ![u] = AfterForkChild(p)]
    BY <1>4 DEF Fork
  <2>2. /\ AfterForkParent(p) \in {"parentSpin", "idle"}
        /\ AfterForkChild(p) \in {"childSpin", "childExit"}
    BY DEF AfterForkParent, AfterForkChild
  <2>3. \A w \in Thread : proc[w] # None => proc[w] # q
    BY <2>1 DEF PairInv, MutexInv, TypeInv, Placed
  <2>4. \A w \in Thread : pc[w] = "write" => proc[w] # None
    BY DEF PairInv, MutexInv, TypeInv, Placed
  <2>5. pc[t] = "fork" /\ UNCHANGED <<exiter, file, call>>
    BY <1>4 DEF Fork
  <2>6. QED
    BY <2>1, <2>2, <2>3, <2>4, <2>5, PairKeepLemma DEF Halfway
<1>5. CASE ForkFails(t)
  BY <1>5, PairKeepLemma DEF ForkFails, AfterForkParent, Halfway
<1>6. CASE ParentReopen(t)
  BY <1>2, <1>6 DEF ParentReopen
<1>7. CASE ChildRenew(t)
  BY <1>2, <1>7 DEF ChildRenew
<1>8. CASE ChildAtexit(t)
  <2>1. Register(mem[p]).writer = mem[p].writer
    BY <1>8, SameWriterLemma DEF ChildAtexit
  <2>2. QED
    BY <1>8, <2>1, PairKeepLemma DEF ChildAtexit, Halfway
<1>9. QED
  BY <1>1, <1>3, <1>4, <1>5, <1>6, <1>7, <1>8
     DEF ForkStep, PrepAcquire, ParentAcquire, ChildAcquire

LEMMA ExitStepPairs ==
  ASSUME PairInv, NEW t \in Thread, ExitStep(t) \/ UseDeleted(t) PROVE Pairs'
<1> DEFINE p == proc[t]
<1>0. /\ pc[t] # "unused" => p \in Proc
      /\ pc \in [Thread -> Where] /\ mem \in [Proc -> AddressSpace]
      /\ proc \in [Thread -> Proc \cup {None}]
      /\ \A u \in Thread : pc[u] # "unused" => proc[u] \in Proc
      /\ ExitPlaced /\ Halfway
  BY DEF PairInv, Pairs, MutexInv, TypeInv, TypeOK, Placed
<1> USE <1>0 DEF procVars, outVars, Goto
<1>1. ASSUME pc[t] \in {"exit", "dump", "delete"},
             \A r \in Proc : r # p => mem'[r] = mem[r],
             pc'[t] \notin {"unused", "write"},
             \A u \in Thread : proc[u] # p => pc'[u] = pc[u],
             \A u \in Thread : pc'[u] = pc[u] \/ pc'[u] \notin {"unused", "write"},
             UNCHANGED <<proc, exiter, call, file>>
      PROVE  Pairs'
  <2>1. exiter[p] # None
    BY <1>1, SlotsAssumption DEF ExitPlaced
  <2>2. QED
    BY <1>1, <2>1, PairKeepLemma DEF Halfway
<1>2. CASE EnterHandler(t)
  <2>1. /\ pc[t] = "exit" /\ (pc' = pc \/ pc' = [pc EXCEPT ![t] = "dump"])
        /\ \A r \in Proc : r # p => mem'[r] = mem[r]
        /\ UNCHANGED <<proc, exiter, call, file>>
    BY <1>2 DEF EnterHandler
  <2>2. QED
    BY <1>1, <2>1
<1>3. CASE DumpTables(t)
  BY <1>1, <1>3 DEF DumpTables
<1>4. CASE DeleteWriter(t)
  BY <1>1, <1>4 DEF DeleteWriter
<1>5. CASE Exit(t)
  BY <1>1, <1>5 DEF Exit, End
<1>6. CASE UseDeleted(t)
  <2>1. \A u \in Thread : pc[u] = "write" /\ exiter[proc[u]] = None => proc[u] # p
    BY <1>6 DEF UseDeleted, Halfway
  <2>2. QED
    BY <1>6, <2>1, PairKeepLemma DEF UseDeleted, End, Halfway
<1>7. QED
  BY <1>2, <1>3, <1>4, <1>5, <1>6 DEF ExitStep

LEMMA ApplicationStepPairs ==
  ASSUME PairInv, NEW t \in Thread, ApplicationStep(t) PROVE Pairs'
<1> DEFINE p == proc[t]
<1>0. /\ pc[t] # "unused" => p \in Proc
      /\ pc \in [Thread -> Where] /\ mem \in [Proc -> AddressSpace]
      /\ proc \in [Thread -> Proc \cup {None}]
      /\ exiter \in [Proc -> Thread \cup {None}]
      /\ \A u \in Thread : pc[u] # "unused" => proc[u] \in Proc
      /\ Halfway
  BY DEF PairInv, Pairs, MutexInv, TypeInv, TypeOK, Placed
<1> USE <1>0, SlotsAssumption DEF procVars, outVars, Goto
<1>1. CASE HookEnter(t)
  <2>1. /\ pc[t] \in {"idle", "exit"}
        /\ UNCHANGED <<proc, exiter, file>>
        /\ mem' = mem \/ mem' = [mem EXCEPT ![p] = Lock(@)]
        /\ pc' = [pc EXCEPT ![t] = "called"] \/ pc' = [pc EXCEPT ![t] = "create"]
    BY <1>1 DEF HookEnter
  <2>2. \A u \in Thread : u # t => call'[u] = call[u]
    BY <1>1 DEF HookEnter
  <2>3. \A r \in Proc : mem'[r].writer = mem[r].writer
    <3>1. Lock(mem[p]).writer = mem[p].writer
      BY <2>1, SameWriterLemma
    <3>2. QED
      BY <2>1, <3>1
  <2>4. QED
    BY <2>1, <2>2, <2>3, PairKeepLemma DEF Halfway
<1>2. CASE SetCapture(t)
  <2>1. PICK b \in BOOLEAN : mem' = [mem EXCEPT ![p] = SetCapturing(@, b)]
    BY <1>2 DEF SetCapture
  <2>2. \A r \in Proc : mem'[r].writer = mem[r].writer
    BY <2>1, SameWriterLemma
  <2>3. QED
    BY <1>2, <2>2, PairKeepLemma DEF SetCapture, Halfway
<1>3. CASE Spawn(t)
  <2>1. PICK u \in Thread : /\ pc[u] = "unused"
                            /\ proc' = [proc EXCEPT ![u] = proc[t]]
                            /\ pc' = [pc EXCEPT ![u] = "idle"]
    BY <1>3 DEF Spawn
  <2>2. UNCHANGED <<mem, exiter, call, file>>
    BY <1>3 DEF Spawn
  <2>3. QED
    BY <2>1, <2>2, PairKeepLemma DEF Halfway
<1>4. CASE BeginFork(t)
  BY <1>4, PairKeepLemma DEF BeginFork, Halfway
<1>5. CASE BeginExit(t)
  <2>1. /\ pc[t] = "idle" /\ pc' = [pc EXCEPT ![t] = "exit"]
        /\ exiter' = [exiter EXCEPT ![p] = t]
        /\ UNCHANGED <<mem, proc, call, file>>
    BY <1>5 DEF BeginExit
  <2>2. QED
    BY <2>1, PairKeepLemma DEF Halfway
<1>6. QED
  BY <1>1, <1>2, <1>3, <1>4, <1>5 DEF ApplicationStep

(* The free record of a realloc is followed in the file by the record of   *)
(* the same realloc, whatever the other threads of the process do, and     *)
(* whether or not it forks, until it calls exit().                         *)
THEOREM PairsAreKept == Spec => []ReallocPaired
<1>1. Init => PairInv
  <2> SUFFICES ASSUME Init PROVE PairInv
    OBVIOUS
  <2>1. MutexInv
    BY MutexInit
  <2>2. Pairs
    BY SlotsAssumption DEF Init, Pairs, Authors, Halfway, ReallocPaired
  <2>3. QED
    BY <2>1, <2>2 DEF PairInv
<1>2. PairInv /\ [Next]_vars => PairInv'
  <2> SUFFICES ASSUME PairInv, [Next]_vars PROVE PairInv'
    OBVIOUS
  <2>1. MutexInv'
    BY MutexStep DEF PairInv
  <2>2. CASE UNCHANGED vars
    BY <2>1, <2>2 DEF PairInv, Pairs, Authors, Halfway, ReallocPaired,
                      vars, procVars, outVars
  <2>3. ASSUME NEW t \in Thread, LibraryStep(t) \/ ApplicationStep(t)
        PROVE  Pairs'
    BY <2>3, HookStepPairs, ForkStepPairs, ExitStepPairs, ApplicationStepPairs
       DEF LibraryStep
  <2>4. QED
    BY <2>1, <2>2, <2>3 DEF Next, Finished, PairInv
<1>3. PairInv => ReallocPaired
  BY DEF PairInv, Pairs
<1>4. QED
  BY <1>1, <1>2, <1>3, PTL DEF Spec

=============================================================================
