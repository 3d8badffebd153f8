--------------------------- MODULE MallocFilesProofs ---------------------------
(***************************************************************************)
(* Theorems about the symbol tables of MallocHook, the writer and the      *)
(* output file.                                                            *)
(*                                                                         *)
(* The tables: the map and the list of names must stay inverse to one      *)
(* another while any threads unwind, fork copies both, and no index may be *)
(* truncated: the theorems ask that index_t has a value for every symbol.  *)
(*                                                                         *)
(* The files: no record leaves a file, the library ends no process, and,   *)
(* in a program without threads, no captured call is lost and the lookup   *)
(* table is complete.  One invariant carries these.  It says how the flag, *)
(* the two pointers to the writer and the writer itself go with the place  *)
(* where a thread is: until there is a writer, and in the child of a fork  *)
(* until the writer is renewed, the file is empty and the process has a    *)
(* single thread.                                                          *)
(***************************************************************************)
EXTENDS MallocHookProofs, SequenceTheorems

USE DEF FREE, MALLOC, REALLOC, CALLOC

IndexFits == Cardinality(Ip) <= IndexMax + 1

-----------------------------------------------------------------------------
(* The invariant about the tables *)

(* The symbols that the map of an address space holds.                     *)
KnownIn(m) == {i \in Ip : m.symMap[i] # None}

(* An index stands for a symbol.                                           *)
Names(m, index, ip) ==
  index < Len(m.symNames) /\ m.symNames[index + 1] = ip

(* The map holds, for each symbol it knows, the place of its name.         *)
Tabled(m) ==
  /\ Len(m.symNames) = Cardinality(KnownIn(m))
  /\ \A i \in KnownIn(m) : Names(m, m.symMap[i], i)

(* The indices of a call stand for the frames unwound so far.              *)
Shared(ids, frames, stack, m) ==
  /\ Len(stack) = Len(ids) + Len(frames)
  /\ \A k \in 1 .. Len(ids) : Names(m, ids[k], stack[k])
  /\ \A k \in 1 .. Len(frames) : frames[k] = stack[Len(ids) + k]

Indexed(c, m) == Shared(c.ids, c.frames, c.stack, m)

TablesOK == \A p \in Proc : Tabled(mem[p])

CallsOK ==
  \A t \in Thread :
    /\ proc[t] # None => Indexed(call[t], mem[proc[t]])
    /\ pc[t] = "unused" => call[t] = NoCall
    /\ pc[t] = "write" => call[t].frames = <<>>

UnbornEmpty == \A p \in Proc : status[p] = "unborn" => file[p] = <<>>

Tables == TablesOK /\ CallsOK /\ UnbornEmpty /\ RecordsResolve
TableInv == TypeInv /\ Tables

-----------------------------------------------------------------------------
(* The operations on an address space and on a call *)

(* Only Learn changes the tables.                                          *)
SameTables(m, n) == m.symNames = n.symNames /\ m.symMap = n.symMap

LEMMA SameTablesLemma ==
  ASSUME NEW m \in AddressSpace
  PROVE  /\ SameTables(m, Lock(m)) /\ SameTables(m, Unlock(m))
         /\ SameTables(m, Register(m)) /\ SameTables(m, Unregister(m))
         /\ SameTables(m, NewWriter(m)) /\ SameTables(m, DropWriter(m))
         /\ \A b \in BOOLEAN : SameTables(m, SetCapturing(m, b))
         /\ \A w \in {"open", "closed"} : SameTables(m, SetFile(m, w))
BY DEF SameTables, AddressSpace, Lock, Unlock, SetCapturing, Register, Unregister,
       NewWriter, DropWriter, SetFile

LEMMA SameTablesTwice ==
  ASSUME NEW m \in AddressSpace
  PROVE  /\ SameTables(m, Unlock(NewWriter(Register(m))))
         /\ SameTables(m, Unlock(NewWriter(m)))
         /\ \A w \in {"open", "closed"} : SameTables(m, Unlock(SetFile(m, w)))
         /\ m.atexits > 0 => SameTables(m, Lock(Unregister(m)))
<1>1. Register(m) \in AddressSpace /\ (m.atexits > 0 => Unregister(m) \in AddressSpace)
  BY RegisterLemma
<1>2. /\ NewWriter(m) \in AddressSpace /\ NewWriter(Register(m)) \in AddressSpace
      /\ \A w \in {"open", "closed"} : SetFile(m, w) \in AddressSpace
  BY <1>1, WriterLemma
<1>3. SameTables(m, Register(m)) /\ SameTables(m, Unregister(m))
  BY SameTablesLemma
<1>4. /\ SameTables(m, NewWriter(m)) /\ SameTables(Register(m), NewWriter(Register(m)))
      /\ \A w \in {"open", "closed"} : SameTables(m, SetFile(m, w))
  BY <1>1, SameTablesLemma
<1>5. /\ SameTables(NewWriter(m), Unlock(NewWriter(m)))
      /\ SameTables(NewWriter(Register(m)), Unlock(NewWriter(Register(m))))
      /\ \A w \in {"open", "closed"} : SameTables(SetFile(m, w), Unlock(SetFile(m, w)))
      /\ m.atexits > 0 => SameTables(Unregister(m), Lock(Unregister(m)))
  BY <1>1, <1>2, SameTablesLemma
<1>6. QED
  BY <1>3, <1>4, <1>5 DEF SameTables

LEMMA SmallModLemma ==
  ASSUME NEW i \in Nat, NEW n \in Nat, i <= n
  PROVE  i % (n + 1) = i
OBVIOUS

(* A symbol that is not known gets the next index and its name at the      *)
(* place that goes with it.                                                *)
LEMMA LearnNewLemma ==
  ASSUME IndexFits, NEW m \in AddressSpace, Tabled(m), NEW ip \in Ip, ip \notin KnownIn(m),
         NEW index, index = Cardinality(KnownIn(m)) % (IndexMax + 1)
  PROVE  LET n == Learn(m, ip, index, <<ip>>)
         IN  /\ Tabled(n) /\ Names(n, index, ip)
             /\ \A i \in Nat, s \in Ip : Names(m, i, s) => Names(n, i, s)
<1> DEFINE n == Learn(m, ip, index, <<ip>>)
           known == KnownIn(m)
<1>1. /\ m.symNames \in Seq(Ip) /\ m.symMap \in [Ip -> Nat \cup {None}]
      /\ Len(m.symNames) = Cardinality(known)
  BY DEF AddressSpace, Tabled
<1>2. IsFiniteSet(Ip) /\ IsFiniteSet(known) /\ known \cup {ip} \subseteq Ip
  BY CallAssumption, FS_Subset DEF KnownIn
<1>3. /\ Cardinality(known \cup {ip}) = Cardinality(known) + 1
      /\ IsFiniteSet(known \cup {ip})
  BY <1>2, FS_AddElement
<1>4. Cardinality(known) + 1 <= Cardinality(Ip)
  BY <1>2, <1>3, FS_Subset
<1>5. Cardinality(known) \in Nat /\ Cardinality(Ip) \in Nat
  BY <1>2, FS_CardinalityType
<1>6. index = Len(m.symNames) /\ index \in Nat
  <2>1. IndexMax \in Nat /\ Cardinality(known) <= IndexMax
    BY <1>4, <1>5, BoundAssumption DEF IndexFits
  <2>2. index = Cardinality(known)
    BY <1>5, <2>1, SmallModLemma
  <2>3. QED
    BY <1>1, <1>5, <2>2
<1>7. /\ n.symNames = m.symNames \o <<ip>>
      /\ n.symMap = [m.symMap EXCEPT ![ip] = index]
  BY DEF AddressSpace, Learn
<1>8. /\ Len(n.symNames) = Len(m.symNames) + 1
      /\ n.symNames[index + 1] = ip
      /\ \A k \in 1 .. Len(m.symNames) : n.symNames[k] = m.symNames[k]
  BY <1>1, <1>6, <1>7
<1>9. KnownIn(n) = known \cup {ip}
  BY <1>1, <1>6, <1>7, SlotsAssumption DEF KnownIn
<1>10. ASSUME NEW i \in Nat, NEW s \in Ip, Names(m, i, s) PROVE Names(n, i, s)
  <2>1. Len(m.symNames) \in Nat
    BY <1>1
  <2>2. i + 1 \in 1 .. Len(m.symNames) /\ m.symNames[i + 1] = s
    BY <1>10, <2>1 DEF Names
  <2>3. n.symNames[i + 1] = s /\ i < Len(n.symNames)
    BY <1>8, <2>1, <2>2
  <2>4. QED
    BY <2>3 DEF Names
<1>11. Names(n, index, ip)
  BY <1>6, <1>8 DEF Names
<1>12. \A i \in known : n.symMap[i] = m.symMap[i] /\ m.symMap[i] \in Nat
  BY <1>1, <1>7 DEF KnownIn
<1>13. \A i \in KnownIn(n) : Names(n, n.symMap[i], i)
  <2> SUFFICES ASSUME NEW i \in KnownIn(n) PROVE Names(n, n.symMap[i], i)
    OBVIOUS
  <2>1. CASE i = ip
    BY <1>1, <1>7, <1>11, <2>1
  <2>2. CASE i \in known
    BY <1>10, <1>12, <2>2 DEF Tabled, KnownIn
  <2>3. QED
    BY <1>9, <2>1, <2>2
<1>14. QED
  BY <1>1, <1>3, <1>8, <1>9, <1>10, <1>11, <1>13 DEF Tabled

(* A symbol that is known keeps its index.                                 *)
LEMMA LearnKnownLemma ==
  ASSUME NEW m \in AddressSpace, Tabled(m), NEW ip \in KnownIn(m)
  PROVE  LET n == Learn(m, ip, m.symMap[ip], <<>>)
         IN  /\ Names(n, m.symMap[ip], ip)
             /\ n.symNames = m.symNames /\ n.symMap = m.symMap
<1>1. m.symNames \in Seq(Ip) /\ m.symMap \in [Ip -> Nat \cup {None}] /\ ip \in Ip
  BY DEF AddressSpace, KnownIn
<1>2. m.symNames \o <<>> = m.symNames /\ [m.symMap EXCEPT ![ip] = m.symMap[ip]] = m.symMap
  BY <1>1, ConcatEmptySeq
<1>3. QED
  BY <1>1, <1>2 DEF AddressSpace, Learn, Tabled, Names

(* The next frame goes from the frames to the indices.                     *)
LEMMA SharedLemma ==
  ASSUME NEW ids \in Seq(Nat), NEW frames \in Seq(Ip), NEW stack \in Seq(Ip),
         frames # <<>>, NEW index \in Nat,
         NEW m, NEW n, Shared(ids, frames, stack, m), Names(n, index, Head(frames)),
         \A i \in Nat, s \in Ip : Names(m, i, s) => Names(n, i, s)
  PROVE  Shared(Append(ids, index), Tail(frames), stack, n)
<1> DEFINE more == Append(ids, index)
           rest == Tail(frames)
<1>1. /\ Len(frames) \in Nat /\ Len(frames) > 0 /\ Len(ids) \in Nat
      /\ Len(stack) = Len(ids) + Len(frames)
  BY EmptySeq DEF Shared
<1>2. /\ Len(rest) = Len(frames) - 1
      /\ \A k \in 1 .. Len(rest) : rest[k] = frames[k + 1]
      /\ Head(frames) = frames[1]
  BY <1>1
<1>3. /\ Len(more) = Len(ids) + 1
      /\ \A k \in 1 .. Len(ids) : more[k] = ids[k] /\ ids[k] \in Nat
      /\ more[Len(ids) + 1] = index
  BY <1>1
<1>4. \A k \in 1 .. Len(stack) : stack[k] \in Ip
  OBVIOUS
<1>5. frames[1] = stack[Len(ids) + 1]
  BY <1>1 DEF Shared
<1>6. ASSUME NEW k \in 1 .. Len(more) PROVE Names(n, more[k], stack[k])
  <2>1. CASE k = Len(ids) + 1
    BY <1>2, <1>3, <1>5, <2>1
  <2>2. CASE k \in 1 .. Len(ids)
    <3>1. k \in 1 .. Len(stack)
      BY <1>1, <2>2
    <3>2. more[k] = ids[k] /\ ids[k] \in Nat /\ stack[k] \in Ip
      BY <1>3, <1>4, <2>2, <3>1
    <3>3. Names(m, ids[k], stack[k])
      BY <2>2 DEF Shared
    <3>4. QED
      BY <3>2, <3>3
  <2>3. QED
    BY <1>1, <1>3, <2>1, <2>2
<1>7. ASSUME NEW k \in 1 .. Len(rest) PROVE rest[k] = stack[Len(more) + k]
  <2>1. k + 1 \in 1 .. Len(frames)
    BY <1>1, <1>2, <1>7
  <2>2. rest[k] = frames[k + 1] /\ frames[k + 1] = stack[Len(ids) + (k + 1)]
    BY <1>2, <2>1 DEF Shared
  <2>3. Len(ids) + (k + 1) = Len(more) + k
    BY <1>1, <1>3, <2>1
  <2>4. QED
    BY <2>2, <2>3
<1>8. Len(stack) = Len(more) + Len(rest)
  BY <1>1, <1>2, <1>3
<1>9. QED
  BY <1>6, <1>7, <1>8 DEF Shared

LEMMA NextIndexLemma ==
  ASSUME NEW c \in Call, c.frames # <<>>, NEW index \in Nat,
         NEW m, NEW n, Indexed(c, m), Names(n, index, Head(c.frames)),
         \A i \in Nat, s \in Ip : Names(m, i, s) => Names(n, i, s)
  PROVE  Indexed(NextFrame(c, index), n)
<1>1. /\ c.frames \in Seq(Ip) /\ c.ids \in Seq(Nat) /\ c.stack \in Seq(Ip)
  BY DEF Call
<1>2. /\ NextFrame(c, index).frames = Tail(c.frames)
      /\ NextFrame(c, index).ids = Append(c.ids, index)
      /\ NextFrame(c, index).stack = c.stack
  BY DEF Call, NextFrame
<1>3. Shared(Append(c.ids, index), Tail(c.frames), c.stack, n)
  BY <1>1, SharedLemma DEF Indexed
<1>4. QED
  BY <1>2, <1>3 DEF Indexed

(* What more names cannot undo.                                            *)
LEMMA SharedGrowsLemma ==
  ASSUME NEW ids \in Seq(Nat), NEW frames \in Seq(Ip), NEW stack \in Seq(Ip),
         NEW m, NEW n, Shared(ids, frames, stack, m),
         \A i \in Nat, s \in Ip : Names(m, i, s) => Names(n, i, s)
  PROVE  Shared(ids, frames, stack, n)
<1>1. Len(ids) \in Nat /\ Len(frames) \in Nat /\ Len(stack) = Len(ids) + Len(frames)
  BY DEF Shared
<1>2. ASSUME NEW k \in 1 .. Len(ids) PROVE Names(n, ids[k], stack[k])
  <2>1. k \in 1 .. Len(stack)
    BY <1>1
  <2>2. ids[k] \in Nat /\ stack[k] \in Ip
    BY <2>1
  <2>3. QED
    BY <2>2 DEF Shared
<1>3. QED
  BY <1>2 DEF Shared

LEMMA ResolvesLemma ==
  ASSUME NEW r \in Record, NEW m
  PROVE  Resolves(r, m.symNames) <=> Shared(r.ids, <<>>, r.stack, m)
<1>1. r.ids \in Seq(Nat) /\ r.stack \in Seq(Ip)
  BY DEF Record
<1>2. Len(r.ids) \in Nat /\ DOMAIN r.ids = 1 .. Len(r.ids)
  BY <1>1
<1>3. QED
  BY <1>2 DEF Resolves, Shared, Names

LEMMA GrowLemma ==
  ASSUME NEW m, NEW n,
         \A i \in Nat, s \in Ip : Names(m, i, s) => Names(n, i, s)
  PROVE  /\ \A c \in Call : Indexed(c, m) => Indexed(c, n)
         /\ \A r \in Record : Resolves(r, m.symNames) => Resolves(r, n.symNames)
<1>1. ASSUME NEW c \in Call, Indexed(c, m) PROVE Indexed(c, n)
  BY <1>1, SharedGrowsLemma DEF Call, Indexed
<1>2. ASSUME NEW r \in Record, Resolves(r, m.symNames)
      PROVE  Resolves(r, n.symNames)
  <2>1. r.ids \in Seq(Nat) /\ r.stack \in Seq(Ip) /\ <<>> \in Seq(Ip)
    BY DEF Record
  <2>2. Shared(r.ids, <<>>, r.stack, m)
    BY <1>2, ResolvesLemma
  <2>3. Shared(r.ids, <<>>, r.stack, n)
    BY <2>1, <2>2, SharedGrowsLemma
  <2>4. QED
    BY <2>3, ResolvesLemma
<1>3. QED
  BY <1>1, <1>2

-----------------------------------------------------------------------------
(* The steps *)

(* A call of which nothing is unwound yet.                                 *)
Fresh(c) == c.ids = <<>> /\ c.frames = c.stack

LEMMA SameTablesKeep ==
  ASSUME NEW m, NEW n, SameTables(m, n)
  PROVE  /\ Tabled(m) => Tabled(n)
         /\ \A c : Indexed(c, m) => Indexed(c, n)
<1>1. \A i, s : Names(m, i, s) <=> Names(n, i, s)
  BY DEF SameTables, Names
<1>2. KnownIn(m) = KnownIn(n)
  BY DEF SameTables, KnownIn
<1>3. Tabled(m) => Tabled(n)
  BY <1>1, <1>2 DEF SameTables, Tabled
<1>4. QED
  BY <1>1, <1>3 DEF Indexed, Shared

LEMMA FreshLemma ==
  ASSUME NEW m PROVE \A c \in Call : Fresh(c) => Indexed(c, m)
<1> SUFFICES ASSUME NEW c \in Call, Fresh(c) PROVE Indexed(c, m)
  OBVIOUS
<1>1. c.stack \in Seq(Ip) /\ c.frames = c.stack /\ c.ids = <<>>
  BY DEF Call, Fresh
<1>2. Len(c.stack) \in Nat /\ Len(c.ids) = 0
  BY <1>1
<1>3. QED
  BY <1>1, <1>2 DEF Indexed, Shared

(* A step that unwinds and writes nothing.                                 *)
LEMMA TableKeepLemma ==
  ASSUME TableInv, TypeInv',
         \A r \in Proc : \/ SameTables(mem[r], mem'[r])
                         \/ status[r] = "unborn" /\ Tabled(mem'[r]),
         \A r \in Proc : file'[r] = file[r] \/ file'[r] = <<>>,
         \A r \in Proc : status'[r] = "unborn" => status[r] = "unborn",
         \A u \in Thread : proc'[u] = proc[u] \/ pc[u] = "unused",
         \A u \in Thread : call'[u] = call[u] \/ Fresh(call'[u]),
         \A u \in Thread : pc'[u] \in {"unused", "write"} =>
           pc'[u] = pc[u] /\ call'[u] = call[u]
  PROVE  Tables'
<1>0. /\ TablesOK /\ CallsOK /\ UnbornEmpty /\ RecordsResolve
      /\ \A u \in Thread : pc[u] # "unused" => proc[u] \in Proc /\ status[proc[u]] # "unborn"
      /\ \A u \in Thread : proc'[u] # None => proc'[u] \in Proc
      /\ \A u \in Thread : proc[u] # None => proc[u] \in Proc /\ status[proc[u]] # "unborn"
      /\ call \in [Thread -> Call] /\ call' \in [Thread -> Call]
  BY DEF TableInv, Tables, TypeInv, TypeOK, Placed
<1>1. TablesOK'
  BY <1>0, SameTablesKeep DEF TablesOK
<1>2. CallsOK'
  <2>1. \A u \in Thread : pc'[u] = "unused" => call'[u] = NoCall
    BY <1>0 DEF CallsOK
  <2>2. \A u \in Thread : pc'[u] = "write" => call'[u].frames = <<>>
    BY <1>0 DEF CallsOK
  <2>3. ASSUME NEW u \in Thread, proc'[u] # None
        PROVE  Indexed(call'[u], mem'[proc'[u]])
    <3>1. CASE Fresh(call'[u])
      BY <1>0, <3>1, FreshLemma
    <3>2. CASE call'[u] = call[u] /\ pc[u] = "unused"
      <4>1. Fresh(call'[u])
        BY <1>0, <3>2 DEF CallsOK, NoCall, Fresh
      <4>2. QED
        BY <1>0, <4>1, FreshLemma
    <3>3. CASE call'[u] = call[u] /\ pc[u] # "unused"
      <4>1. proc'[u] = proc[u] /\ SameTables(mem[proc[u]], mem'[proc[u]])
        BY <1>0, <3>3
      <4>2. Indexed(call[u], mem[proc[u]])
        BY <1>0, <2>3, <4>1 DEF CallsOK
      <4>3. QED
        BY <3>3, <4>1, <4>2, SameTablesKeep
    <3>4. QED
      BY <3>1, <3>2, <3>3
  <2>4. QED
    BY <2>1, <2>2, <2>3 DEF CallsOK
<1>3. UnbornEmpty'
  BY <1>0 DEF UnbornEmpty
<1>4. RecordsResolve'
  <2> SUFFICES ASSUME NEW r \in Proc, NEW i \in DOMAIN file'[r]
               PROVE  Resolves(file'[r][i], mem'[r].symNames)
    BY DEF RecordsResolve
  <2>1. file'[r] = file[r] /\ file[r] # <<>>
    OBVIOUS
  <2>2. mem'[r].symNames = mem[r].symNames
    BY <1>0, <2>1 DEF UnbornEmpty, SameTables
  <2>3. QED
    BY <1>0, <2>1, <2>2 DEF RecordsResolve
<1>5. QED
  BY <1>1, <1>2, <1>3, <1>4 DEF Tables

(* A step that writes a record of an unwound call, or one without a stack. *)
LEMMA TableAppendLemma ==
  ASSUME TableInv, NEW t \in Thread, pc[t] # "unused", NEW r \in Record,
         Resolves(r, mem[proc[t]].symNames),
         file' = [file EXCEPT ![proc[t]] = Append(@, r)],
         \A u \in Thread : u # t => pc'[u] = pc[u],
         pc'[t] # "unused", pc'[t] = "write" => call[t].frames = <<>>,
         UNCHANGED <<mem, status, proc, call>>
  PROVE  Tables'
<1> DEFINE p == proc[t]
<1>0. /\ TablesOK /\ CallsOK /\ UnbornEmpty /\ RecordsResolve
      /\ p \in Proc /\ status[p] # "unborn" /\ file \in [Proc -> Seq(Record)]
  BY DEF TableInv, Tables, TypeInv, TypeOK, Placed
<1>1. TablesOK' /\ CallsOK' /\ UnbornEmpty'
  BY <1>0 DEF TablesOK, CallsOK, UnbornEmpty
<1>2. RecordsResolve'
  <2> SUFFICES ASSUME NEW q \in Proc, NEW i \in DOMAIN file'[q]
               PROVE  Resolves(file'[q][i], mem[q].symNames)
    BY DEF RecordsResolve
  <2>1. file[p] \in Seq(Record) /\ Len(file[p]) \in Nat /\ file'[p] = Append(file[p], r)
    BY <1>0
  <2>2. CASE q = p /\ i = Len(file[p]) + 1
    BY <2>1, <2>2
  <2>3. CASE q = p /\ i \in DOMAIN file[p]
    BY <1>0, <2>1, <2>3 DEF RecordsResolve
  <2>4. CASE q # p
    BY <1>0, <2>4 DEF RecordsResolve
  <2>5. QED
    BY <2>1, <2>2, <2>3, <2>4
<1>3. QED
  BY <1>1, <1>2 DEF Tables

LEMMA UnwindTables ==
  ASSUME IndexFits, TableInv, NEW t \in Thread, Unwind(t) PROVE Tables'
<1> DEFINE p == proc[t]
           ip == Head(call[t].frames)
           m == mem[p]
           index == IF ip \in Known(p) THEN m.symMap[ip]
                    ELSE Cardinality(Known(p)) % (IndexMax + 1)
           n == Learn(m, ip, index, IF ip \in Known(p) THEN <<>> ELSE <<ip>>)
<1>0. /\ TablesOK /\ CallsOK /\ UnbornEmpty /\ RecordsResolve
      /\ \A u \in Thread : proc[u] # None => proc[u] \in Proc /\ status[proc[u]] # "unborn"
      /\ call \in [Thread -> Call] /\ mem \in [Proc -> AddressSpace]
      /\ file \in [Proc -> Seq(Record)]
  BY DEF TableInv, Tables, TypeInv, TypeOK, Placed
<1>1. /\ p \in Proc /\ m \in AddressSpace /\ call[t] \in Call
      /\ call[t].frames # <<>> /\ pc[t] = "unwind"
  BY <1>0 DEF Unwind, TableInv, TypeInv, Placed
<1>2. ip \in Ip /\ Known(p) = KnownIn(m) /\ Tabled(m)
  BY <1>0, <1>1 DEF Call, Known, KnownIn, TablesOK
<1>3. index \in Nat
  BY <1>1, <1>2, IndexType DEF Known, AddressSpace, TableInv, TypeInv
<1>4. /\ mem' = [mem EXCEPT ![p] = n]
      /\ call' = [call EXCEPT ![t] = NextFrame(@, index)]
      /\ UNCHANGED <<status, proc, pc, file>>
  BY DEF Unwind, procVars, outVars
<1>5. /\ Tabled(n) /\ Names(n, index, ip)
      /\ \A i \in Nat, s \in Ip : Names(m, i, s) => Names(n, i, s)
  <2>1. CASE ip \in Known(p)
    <3>1. index = m.symMap[ip] /\ n = Learn(m, ip, m.symMap[ip], <<>>)
      BY <2>1
    <3>2. Names(n, index, ip) /\ SameTables(m, n)
      BY <1>1, <1>2, <2>1, <3>1, LearnKnownLemma DEF SameTables
    <3>3. QED
      BY <1>2, <3>2, SameTablesKeep DEF SameTables, Names
  <2>2. CASE ip \notin Known(p)
    <3>1. /\ index = Cardinality(KnownIn(m)) % (IndexMax + 1)
          /\ n = Learn(m, ip, index, <<ip>>)
      BY <1>2, <2>2
    <3> HIDE DEF index, n, ip
    <3>2. QED
      BY <1>1, <1>2, <2>2, <3>1, LearnNewLemma
  <2>3. QED
    BY <2>1, <2>2
<1> HIDE DEF index, n, ip
<1>6. Indexed(call'[t], n)
  <2>1. Indexed(call[t], m)
    BY <1>0, <1>1, SlotsAssumption DEF CallsOK
  <2>2. Indexed(NextFrame(call[t], index), n)
    BY <1>1, <1>3, <1>5, <2>1, NextIndexLemma DEF ip
  <2>3. QED
    BY <1>0, <1>4, <2>2
<1>7. TablesOK'
  BY <1>0, <1>4, <1>5 DEF TablesOK
<1>8. CallsOK'
  <2>1. ASSUME NEW u \in Thread, proc[u] # None
        PROVE  Indexed(call'[u], mem'[proc[u]])
    <3>1. CASE u = t
      BY <1>0, <1>1, <1>4, <1>6, <3>1
    <3>2. CASE u # t /\ proc[u] = p
      BY <1>0, <1>1, <1>4, <1>5, <2>1, <3>2, GrowLemma DEF CallsOK
    <3>3. CASE u # t /\ proc[u] # p
      BY <1>0, <1>4, <2>1, <3>3 DEF CallsOK
    <3>4. QED
      BY <3>1, <3>2, <3>3
  <2>2. QED
    BY <1>0, <1>1, <1>4, <2>1 DEF CallsOK
<1>9. UnbornEmpty'
  BY <1>0, <1>4 DEF UnbornEmpty
<1>10. RecordsResolve'
  <2> SUFFICES ASSUME NEW r \in Proc, NEW i \in DOMAIN file[r]
               PROVE  Resolves(file[r][i], mem'[r].symNames)
    BY <1>4 DEF RecordsResolve
  <2>1. file[r][i] \in Record
    BY <1>0
  <2>2. Resolves(file[r][i], mem[r].symNames)
    BY <1>0 DEF RecordsResolve
  <2>3. CASE r = p
    BY <1>0, <1>1, <1>4, <1>5, <2>1, <2>2, <2>3, GrowLemma
  <2>4. CASE r # p
    BY <1>0, <1>4, <2>2, <2>4
  <2>5. QED
    BY <2>3, <2>4
<1>11. QED
  BY <1>7, <1>8, <1>9, <1>10 DEF Tables

LEMMA HookStepTables ==
  ASSUME IndexFits, TableInv, TypeInv', NEW t \in Thread, HookStep(t) PROVE Tables'
<1> DEFINE p == proc[t]
<1>0. /\ pc[t] # "unused" => p \in Proc /\ mem[p] \in AddressSpace /\ Indexed(call[t], mem[p])
      /\ pc \in [Thread -> Where] /\ mem \in [Proc -> AddressSpace]
      /\ status \in [Proc -> {"unborn", "running", "exited", "full",
                               "terminated", "crashed"}]
      /\ call \in [Thread -> Call]
      /\ \A u \in Thread : pc[u] = "write" => call[u].frames = <<>>
  BY SlotsAssumption DEF TableInv, Tables, CallsOK, TypeInv, TypeOK, Placed
<1>f. \A c : c = NoCall => Fresh(c)
  BY DEF NoCall, Fresh
<1> USE <1>0 DEF procVars, outVars, Goto
<1>1. CASE CreateWriter(t)
  <2>1. SameTables(mem[p], Unlock(NewWriter(Register(mem[p]))))
    BY <1>1, SameTablesTwice DEF CreateWriter
  <2>2. QED
    BY <1>1, <2>1, TableKeepLemma DEF CreateWriter, SameTables
<1>2. CASE Skip(t)
  BY <1>2, <1>f, TableKeepLemma DEF Skip, Resume, SameTables
<1>3. CASE Acquire(t)
  <2>1. SameTables(mem[p], Lock(mem[p]))
    BY <1>3, SameTablesLemma DEF Acquire
  <2>2. QED
    BY <1>3, <2>1, TableKeepLemma DEF Acquire, SameTables
<1>4. CASE AbortFull(t)
  <2>1. SameTables(mem[p], Lock(mem[p]))
    BY <1>4, SameTablesLemma DEF AbortFull
  <2>2. QED
    BY <1>4, <2>1, TableKeepLemma DEF AbortFull, End, SameTables
<1>5. CASE Unwind(t)
  BY <1>5, UnwindTables
<1>6. CASE WriteFakeFree(t)
  <2> DEFINE r == [type |-> FREE, by |-> t, fake |-> TRUE, stack |-> <<>>, ids |-> <<>>]
  <2>1. r \in Record
    <3>1. <<>> \in Seq(Ip) /\ <<>> \in Seq(Nat)
      OBVIOUS
    <3>2. QED
      BY <3>1 DEF Record
  <2>2. Resolves(r, mem[p].symNames)
    BY DEF Resolves
  <2>3. /\ pc[t] = "unwind" /\ pc' = [pc EXCEPT ![t] = "write"]
        /\ call[t].frames = <<>>
        /\ file' = [file EXCEPT ![p] = Append(@, r)]
        /\ UNCHANGED <<mem, status, proc, call>>
    BY <1>6 DEF WriteFakeFree, Unwound
  <2> HIDE DEF r
  <2>4. QED
    BY <2>1, <2>2, <2>3, TableAppendLemma
<1>7. CASE WriteRecord(t)
  <2> DEFINE r == [type |-> call[t].op, by |-> t, fake |-> FALSE,
                   stack |-> call[t].stack, ids |-> call[t].ids]
  <2>1. r \in Record /\ r.ids = call[t].ids /\ r.stack = call[t].stack
    BY DEF Record, Call
  <2>2. /\ pc[t] \in {"unwind", "write"} /\ pc' = [pc EXCEPT ![t] = "release"]
        /\ call[t].frames = <<>>
        /\ file' = [file EXCEPT ![p] = Append(@, r)]
        /\ UNCHANGED <<mem, status, proc, call>>
    BY <1>7 DEF WriteRecord, Unwound
  <2> HIDE DEF r
  <2>3. Resolves(r, mem[p].symNames)
    BY <2>1, <2>2, ResolvesLemma DEF Indexed
  <2>4. QED
    BY <2>1, <2>2, <2>3, TableAppendLemma
<1>8. CASE Release(t)
  <2>1. SameTables(mem[p], Unlock(mem[p]))
    BY <1>8, SameTablesLemma DEF Release
  <2>2. QED
    BY <1>8, <1>f, <2>1, TableKeepLemma DEF Release, Resume, SameTables
<1>9. CASE WriteThrows(t)
  BY <1>9, TableKeepLemma DEF WriteThrows, Unwound, End, SameTables
<1>10. CASE FreeThrows(t)
  BY <1>10, <1>f, TableKeepLemma DEF FreeThrows, Unwound, Resume, End, SameTables
<1>11. QED
  BY <1>1, <1>2, <1>3, <1>4, <1>5, <1>6, <1>7, <1>8, <1>9, <1>10 DEF HookStep

LEMMA ForkStepTables ==
  ASSUME TableInv, TypeInv', NEW t \in Thread, ForkStep(t) PROVE Tables'
<1> DEFINE p == proc[t]
<1>0. /\ pc[t] # "unused" => p \in Proc /\ mem[p] \in AddressSpace /\ Tabled(mem[p])
      /\ pc \in [Thread -> Where] /\ mem \in [Proc -> AddressSpace]
      /\ call \in [Thread -> Call]
      /\ status \in [Proc -> {"unborn", "running", "exited", "full",
                               "terminated", "crashed"}]
  BY SlotsAssumption DEF TableInv, Tables, TablesOK, TypeInv, TypeOK, Placed
<1> USE <1>0 DEF procVars, outVars, Goto
<1>1. ASSUME NEW l \in Where \ {"unused", "write"}, pc' = [pc EXCEPT ![t] = l],
             NEW m, SameTables(mem[p], m), mem' = [mem EXCEPT ![p] = m],
             \A r \in Proc : file'[r] = file[r] \/ file'[r] = <<>>,
             UNCHANGED <<status, proc, call>>
      PROVE  Tables'
  BY <1>1, TableKeepLemma DEF SameTables
<1>2. ASSUME NEW from \in {"prepSpin", "parentSpin", "childSpin"},
             NEW to \in {"prep", "parent", "child"}, SpinAcquire(t, from, to)
      PROVE  Tables'
  <2>1. SameTables(mem[p], Lock(mem[p]))
    BY <1>2, SameTablesLemma DEF SpinAcquire
  <2>2. QED
    BY <1>1, <1>2, <2>1 DEF SpinAcquire, Where
<1>3. CASE PrepClose(t)
  <2>1. SameTables(mem[p], Unlock(SetFile(mem[p], "closed")))
    BY <1>3, SameTablesTwice DEF PrepClose
  <2>2. QED
    BY <1>1, <1>3, <2>1 DEF PrepClose, Where
<1>4. CASE Fork(t)
  <2>1. PICK q \in Proc, u \in Thread :
          /\ status[q] = "unborn"
          /\ pc[u] = "unused"
          /\ mem' = [mem EXCEPT ![q] = mem[p]]
          /\ status' = [status EXCEPT ![q] = "running"]
          /\ proc' = [proc EXCEPT ![u] = q]
          /\ pc' = [pc EXCEPT ![t] = AfterForkParent(p), ![u] = AfterForkChild(p)]
    BY <1>4 DEF Fork
  <2>2. /\ AfterForkParent(p) \in {"parentSpin", "idle"}
        /\ AfterForkChild(p) \in {"childSpin", "childExit"}
    BY DEF AfterForkParent, AfterForkChild
  <2>3. pc[t] = "fork" /\ UNCHANGED <<file, call>>
    BY <1>4 DEF Fork
  <2>4. Tabled(mem'[q])
    BY <2>1, <2>3
  <2>5. \A w \in Thread : pc'[w] \in {"unused", "write"} => pc'[w] = pc[w]
    BY <2>1, <2>2
  <2>6. QED
    BY <2>1, <2>3, <2>4, <2>5, TableKeepLemma DEF SameTables
<1>5. CASE ForkFails(t)
  BY <1>5, TableKeepLemma DEF ForkFails, AfterForkParent, SameTables
<1>6. CASE ParentReopen(t)
  <2>1. SameTables(mem[p], Unlock(SetFile(mem[p], "open")))
    BY <1>6, SameTablesTwice DEF ParentReopen
  <2>2. QED
    BY <1>1, <1>6, <2>1 DEF ParentReopen, Where
<1>7. CASE ChildRenew(t)
  <2>1. SameTables(mem[p], Unlock(NewWriter(mem[p])))
    BY <1>7, SameTablesTwice DEF ChildRenew
  <2>2. \A r \in Proc : file'[r] = file[r] \/ file'[r] = <<>>
    BY <1>7 DEF ChildRenew, TableInv, TypeInv, TypeOK
  <2>3. QED
    BY <1>1, <1>7, <2>1, <2>2 DEF ChildRenew, Where
<1>8. CASE ChildAtexit(t)
  <2>1. SameTables(mem[p], Register(mem[p]))
    BY <1>8, SameTablesLemma DEF ChildAtexit
  <2>2. QED
    BY <1>1, <1>8, <2>1 DEF ChildAtexit, Where
<1>9. QED
  BY <1>2, <1>3, <1>4, <1>5, <1>6, <1>7, <1>8
     DEF ForkStep, PrepAcquire, ParentAcquire, ChildAcquire

LEMMA ExitStepTables ==
  ASSUME TableInv, TypeInv', NEW t \in Thread, ExitStep(t) \/ UseDeleted(t) PROVE Tables'
<1> DEFINE p == proc[t]
<1>0. /\ pc[t] # "unused" => p \in Proc /\ mem[p] \in AddressSpace
      /\ pc \in [Thread -> Where] /\ mem \in [Proc -> AddressSpace]
      /\ status \in [Proc -> {"unborn", "running", "exited", "full",
                               "terminated", "crashed"}]
  BY SlotsAssumption DEF TableInv, Tables, TablesOK, TypeInv, TypeOK, Placed
<1> USE <1>0 DEF procVars, outVars, Goto
<1>1. CASE EnterHandler(t)
  <2>1. /\ SameTables(mem[p], Unregister(mem[p]))
        /\ SameTables(mem[p], Lock(Unregister(mem[p])))
    BY <1>1, SameTablesLemma, SameTablesTwice DEF EnterHandler
  <2>2. /\ \A r \in Proc : SameTables(mem[r], mem'[r])
        /\ pc' = pc \/ pc' = [pc EXCEPT ![t] = "dump"]
        /\ UNCHANGED <<status, proc, call, file>>
    BY <1>1, <2>1 DEF EnterHandler, SameTables
  <2>3. QED
    BY <2>2, TableKeepLemma
<1>2. CASE DumpTables(t)
  BY <1>2, TableKeepLemma DEF DumpTables, SameTables
<1>3. CASE DeleteWriter(t)
  <2>1. SameTables(mem[p], DropWriter(mem[p]))
    BY <1>3, SameTablesLemma DEF DeleteWriter
  <2>2. QED
    BY <1>3, <2>1, TableKeepLemma DEF DeleteWriter, SameTables
<1>4. CASE Exit(t)
  BY <1>4, TableKeepLemma DEF Exit, End, SameTables
<1>5. CASE UseDeleted(t)
  BY <1>5, TableKeepLemma DEF UseDeleted, End, SameTables
<1>6. QED
  BY <1>1, <1>2, <1>3, <1>4, <1>5 DEF ExitStep

LEMMA ApplicationStepTables ==
  ASSUME TableInv, TypeInv', NEW t \in Thread, ApplicationStep(t) PROVE Tables'
<1> DEFINE p == proc[t]
<1>0. /\ pc[t] # "unused" => p \in Proc /\ mem[p] \in AddressSpace
      /\ pc \in [Thread -> Where] /\ mem \in [Proc -> AddressSpace]
      /\ call \in [Thread -> Call]
  BY SlotsAssumption DEF TableInv, Tables, TablesOK, TypeInv, TypeOK, Placed
<1> USE <1>0 DEF procVars, outVars, Goto
<1>1. CASE HookEnter(t)
  <2>1. PICK op \in Ops, s \in Stacks \cup {<<>>} :
          call' = [call EXCEPT ![t] =
                    [op |-> op, frames |-> s, stack |-> s, ids |-> <<>>]]
    BY <1>1 DEF HookEnter, StacksOf
  <2>2. Fresh(call'[t]) /\ \A u \in Thread : u # t => call'[u] = call[u]
    BY <2>1 DEF Fresh
  <2>3. SameTables(mem[p], Lock(mem[p]))
    BY <1>1, SameTablesLemma DEF HookEnter
  <2>4. /\ \A r \in Proc : SameTables(mem[r], mem'[r])
        /\ pc' = [pc EXCEPT ![t] = "called"] \/ pc' = [pc EXCEPT ![t] = "create"]
        /\ UNCHANGED <<status, proc, file>>
    BY <1>1, <2>3 DEF HookEnter, SameTables
  <2>5. \A u \in Thread : pc'[u] \in {"unused", "write"} => u # t
    BY <2>4
  <2>6. QED
    BY <2>2, <2>4, <2>5, TableKeepLemma
<1>2. CASE SetCapture(t)
  <2>1. PICK b \in BOOLEAN : mem' = [mem EXCEPT ![p] = SetCapturing(@, b)]
    BY <1>2 DEF SetCapture
  <2>2. \A r \in Proc : SameTables(mem[r], mem'[r])
    BY <1>2, <2>1, SameTablesLemma DEF SetCapture, SameTables
  <2>3. QED
    BY <1>2, <2>2, TableKeepLemma DEF SetCapture
<1>3. CASE Spawn(t)
  BY <1>3, TableKeepLemma DEF Spawn, SameTables
<1>4. CASE BeginFork(t)
  BY <1>4, TableKeepLemma DEF BeginFork, SameTables
<1>5. CASE BeginExit(t)
  BY <1>5, TableKeepLemma DEF BeginExit, SameTables
<1>6. QED
  BY <1>1, <1>2, <1>3, <1>4, <1>5 DEF ApplicationStep

-----------------------------------------------------------------------------
(* The theorem *)

LEMMA TableInit == Init => TableInv
<1> SUFFICES ASSUME Init PROVE TableInv
  OBVIOUS
<1>1. \A p \in Proc : /\ mem[p].symNames = <<>>
                      /\ \A i \in Ip : mem[p].symMap[i] = None
  BY DEF Init
<1>2. \A p \in Proc : KnownIn(mem[p]) = {}
  BY <1>1 DEF KnownIn
<1>3. TablesOK
  <2>1. Len(<<>>) = 0 /\ Cardinality({}) = 0
    BY FS_EmptySet
  <2>2. QED
    BY <1>1, <1>2, <2>1 DEF TablesOK, Tabled
<1>4. NoCall \in Call /\ Fresh(NoCall)
  <2>1. <<>> \in Seq(Ip) /\ <<>> \in Seq(Nat)
    OBVIOUS
  <2>2. QED
    BY <2>1 DEF NoCall, Call, Fresh
<1>5. \A t \in Thread : call[t] = NoCall /\ pc[t] # "write"
  BY DEF Init
<1>6. CallsOK
  BY <1>4, <1>5, FreshLemma DEF CallsOK
<1>7. UnbornEmpty /\ RecordsResolve
  BY DEF Init, UnbornEmpty, RecordsResolve
<1>8. QED
  BY <1>3, <1>6, <1>7, InitTypeInv DEF TableInv, Tables

LEMMA TableStep == ASSUME IndexFits PROVE TableInv /\ [Next]_vars => TableInv'
<1> SUFFICES ASSUME TableInv, [Next]_vars PROVE TableInv'
  OBVIOUS
<1>1. TypeInv'
  BY TypeInvStep DEF TableInv
<1>2. CASE UNCHANGED vars
  BY <1>1, <1>2 DEF TableInv, Tables, TablesOK, CallsOK, UnbornEmpty,
                    RecordsResolve, vars, procVars, outVars
<1>3. ASSUME NEW t \in Thread, LibraryStep(t) \/ ApplicationStep(t)
      PROVE  Tables'
  BY <1>1, <1>3, IndexFits, HookStepTables, ForkStepTables, ExitStepTables,
     ApplicationStepTables DEF LibraryStep
<1>4. QED
  BY <1>1, <1>2, <1>3 DEF Next, Finished, TableInv

(* The indices of every record stand, in the tables of the process, for    *)
(* the frames of its stack trace: whatever threads unwind at once, and in  *)
(* a child for the symbols it took over from its parent too.               *)
THEOREM IndicesResolve ==
  ASSUME IndexFits PROVE Spec => []RecordsResolve
<1>1. TableInv => RecordsResolve
  BY DEF TableInv, Tables
<1>2. TableInv /\ [Next]_vars => TableInv'
  BY IndexFits, TableStep
<1>3. QED
  BY TableInit, <1>1, <1>2, PTL DEF Spec

-----------------------------------------------------------------------------
(* The invariant about the files *)

(* Both pointers to the writer, against the writer they point to.          *)
WriterOK(m) ==
  /\ m.fwriter <=> m.writer # "none"
  /\ m.wLocal <=> m.writer \in {"open", "closed"}

(* The program neither forks nor exits.                                    *)
Quiet == MaxForks = 0 /\ ~Exits

ProcAt(m, missed, ended, st) ==
  /\ WriterOK(m)
  /\ ~Threaded /\ missed => m.writer = "deleted"
  /\ Quiet => m.writer \in {"none", "open"} /\ ended = None
  /\ st \in {"terminated", "crashed"} => Threaded /\ ~Quiet

ProcsOK == \A p \in Proc : ProcAt(mem[p], lost[p], exiter[p], status[p])

Sole(t) == \A u \in Thread : proc[u] = proc[t] => u = t

(* A thread that finds no writer, or only that of the parent process.      *)
Early(l, m) == ~m.fwriter \/ l \in {"childSpin", "child"}

FirstAt(l, m, f) ==
  /\ Early(l, m) => f = <<>>
  /\ l = "create" => ~m.fwriter
  /\ l \in {"prepSpin", "prep", "parentSpin", "parent", "childSpin", "child"}
       => m.fwriter
  /\ l \in {"dump", "delete"} => m.wLocal

(* Where the only thread of a process is tells what the writer and the     *)
(* flag are.                                                               *)
SoloAt(l, m) ==
  /\ l = "create" => m.writer = "none"
  /\ l \in {"idle", "childExit"} => m.writer \in {"none", "open"}
  /\ l = "exit" => m.writer \in {"none", "open", "deleted"}
  /\ l = "called" => m.writer \in {"open", "deleted"}
  /\ l \in {"unwind", "write", "release", "prepSpin", "prep", "dump", "delete"}
       => m.writer = "open"
  /\ l = "fork" => m.writer \in {"none", "closed"}
  /\ l \in {"parentSpin", "parent", "childSpin", "child"} => m.writer = "closed"
  /\ l # "gone" => (m.flag <=> l \in Critical \/ m.writer = "deleted")

(* Only exit() deletes the writer and writes the lookup table.             *)
ExitAt(t, l, m, table, ended) ==
  /\ m.writer = "deleted" => ended = t
  /\ table # None => l \in {"delete", "gone"} \/ m.writer = "deleted"

QuietAt(l) ==
  l \in {"unused", "idle", "create", "called", "unwind", "write", "release", "gone"}

ThreadAt(t, l, m, f, table, ended) ==
  /\ FirstAt(l, m, f)
  /\ ~Threaded => SoloAt(l, m) /\ ExitAt(t, l, m, table, ended)
  /\ Quiet => QuietAt(l)

ThreadsOK ==
  \A t \in Thread : proc[t] # None =>
    /\ LET p == proc[t]
       IN  ThreadAt(t, pc[t], mem[p], file[p], names[p], exiter[p])
    /\ ~Threaded \/ Early(pc[t], mem[proc[t]]) => Sole(t)

UnbornClean ==
  \A p \in Proc : status[p] = "unborn" =>
    file[p] = <<>> /\ names[p] = None /\ ~lost[p]

Files == ProcsOK /\ ThreadsOK /\ UnbornClean
FileInv == MutexInv /\ Files

-----------------------------------------------------------------------------
(* The operations on an address space *)

SameWriter(m, n) ==
  n.fwriter = m.fwriter /\ n.wLocal = m.wLocal /\ n.writer = m.writer

Opened(m, n) == n.fwriter /\ n.wLocal /\ n.writer = "open"

Filed(m, n, w) == n.fwriter = m.fwriter /\ n.wLocal = m.wLocal /\ n.writer = w

LEMMA WriterKept ==
  ASSUME NEW m \in AddressSpace
  PROVE  /\ SameWriter(m, Lock(m)) /\ SameWriter(m, Unlock(m))
         /\ SameWriter(m, Register(m)) /\ SameWriter(m, Unregister(m))
         /\ \A b \in BOOLEAN : SameWriter(m, SetCapturing(m, b))
         /\ \A ip, index, name : SameWriter(m, Learn(m, ip, index, name))
BY DEF SameWriter, AddressSpace, Lock, Unlock, SetCapturing, Register, Unregister,
       Learn

LEMMA WriterChanged ==
  ASSUME NEW m \in AddressSpace
  PROVE  /\ Opened(m, NewWriter(m))
         /\ \A w \in {"open", "closed"} : Filed(m, SetFile(m, w), w)
         /\ LET n == DropWriter(m)
            IN  n.fwriter = m.fwriter /\ ~n.wLocal /\ n.writer = "deleted"
BY DEF Opened, Filed, AddressSpace, NewWriter, SetFile, DropWriter

LEMMA WriterChangedTwice ==
  ASSUME NEW m \in AddressSpace
  PROVE  /\ Opened(m, Unlock(NewWriter(Register(m))))
         /\ ~Unlock(NewWriter(Register(m))).flag
         /\ Opened(m, Unlock(NewWriter(m))) /\ ~Unlock(NewWriter(m)).flag
         /\ \A w \in {"open", "closed"} :
              Filed(m, Unlock(SetFile(m, w)), w) /\ ~Unlock(SetFile(m, w)).flag
         /\ m.atexits > 0 =>
              SameWriter(m, Lock(Unregister(m))) /\ Lock(Unregister(m)).flag
<1>1. Register(m) \in AddressSpace /\ (m.atexits > 0 => Unregister(m) \in AddressSpace)
  BY RegisterLemma
<1>2. /\ NewWriter(m) \in AddressSpace /\ NewWriter(Register(m)) \in AddressSpace
      /\ \A w \in {"open", "closed"} : SetFile(m, w) \in AddressSpace
  BY <1>1, WriterLemma
<1>3. Opened(Register(m), NewWriter(Register(m)))
  BY <1>1, WriterChanged
<1>4. Opened(m, NewWriter(m)) /\ \A w \in {"open", "closed"} : Filed(m, SetFile(m, w), w)
  BY WriterChanged
<1>5. /\ SameWriter(NewWriter(m), Unlock(NewWriter(m)))
      /\ SameWriter(NewWriter(Register(m)), Unlock(NewWriter(Register(m))))
      /\ \A w \in {"open", "closed"} : SameWriter(SetFile(m, w), Unlock(SetFile(m, w)))
      /\ m.atexits > 0 => /\ SameWriter(m, Unregister(m))
                          /\ SameWriter(Unregister(m), Lock(Unregister(m)))
  BY <1>1, <1>2, WriterKept
<1>6. /\ ~Unlock(NewWriter(Register(m))).flag /\ ~Unlock(NewWriter(m)).flag
      /\ \A w \in {"open", "closed"} : ~Unlock(SetFile(m, w)).flag
      /\ m.atexits > 0 => Lock(Unregister(m)).flag
  BY <1>1, <1>2, LockLemma
<1>7. QED
  BY <1>3, <1>4, <1>5, <1>6 DEF Opened, Filed, SameWriter

-----------------------------------------------------------------------------
(* The steps *)

(* A step of one thread that neither starts nor ends a process.            *)
LEMMA MoveLemma ==
  ASSUME FileInv, NEW t \in Thread, pc[t] # "unused",
         NEW l, pc' = [pc EXCEPT ![t] = l],
         NEW n, mem' = [mem EXCEPT ![proc[t]] = n],
         UNCHANGED <<proc, status>>,
         \A r \in Proc : r # proc[t] =>
           /\ file'[r] = file[r] /\ names'[r] = names[r]
           /\ lost'[r] = lost[r] /\ exiter'[r] = exiter[r],
         ProcAt(n, lost'[proc[t]], exiter'[proc[t]], status[proc[t]]),
         ThreadAt(t, l, n, file'[proc[t]], names'[proc[t]], exiter'[proc[t]]),
         Early(l, n) => Early(pc[t], mem[proc[t]]),
         mem[proc[t]].fwriter => n.fwriter,
         mem[proc[t]].wLocal => n.wLocal \/ pc[t] = "delete"
  PROVE  Files'
<1> DEFINE p == proc[t]
<1>0. /\ p \in Proc /\ mem \in [Proc -> AddressSpace] /\ pc \in [Thread -> Where]
      /\ status[p] # "unborn" /\ exiter \in [Proc -> Thread \cup {None}]
      /\ \A u \in Thread : proc[u] # None => proc[u] \in Proc
      /\ ProcsOK /\ ThreadsOK /\ UnbornClean /\ ExitPlaced
  BY DEF FileInv, Files, MutexInv, TypeInv, TypeOK, Placed
<1>1. ProcsOK'
  BY <1>0 DEF ProcsOK
<1>2. ThreadsOK'
  <2> SUFFICES ASSUME NEW u \in Thread, proc[u] # None
               PROVE  /\ LET q == proc[u]
                         IN  ThreadAt(u, pc'[u], mem'[q], file'[q], names'[q], exiter'[q])
                      /\ ~Threaded \/ Early(pc'[u], mem'[proc[u]]) => Sole(u)
    BY DEF ThreadsOK, Sole
  <2>1. CASE u = t
    <3>1. pc'[t] = l /\ mem'[p] = n
      BY <1>0
    <3>2. ~Threaded \/ Early(l, n) => Sole(t)
      BY <1>0, SlotsAssumption DEF ThreadsOK
    <3>3. QED
      BY <2>1, <3>1, <3>2
  <2>2. CASE u # t /\ proc[u] # p
    BY <1>0, <2>2 DEF ThreadsOK
  <2>3. CASE u # t /\ proc[u] = p
    <3>1. ~Sole(u)
      BY <2>3 DEF Sole
    <3>2. Threaded /\ ~Early(pc[u], mem[p])
      BY <1>0, <2>3, <3>1, SlotsAssumption DEF ThreadsOK
    <3>3. mem'[p] = n /\ pc'[u] = pc[u]
      BY <1>0, <2>3
    <3>4. ThreadAt(u, pc[u], mem[p], file[p], names[p], exiter[p])
      BY <1>0, <2>3, SlotsAssumption DEF ThreadsOK
    <3>5. ~Early(pc[u], n)
      BY <3>2 DEF Early
    <3>6. pc[u] \in {"dump", "delete"} => n.wLocal
      <4>1. pc[u] \in {"dump", "delete"} => exiter[p] = u /\ mem[p].wLocal
        BY <1>0, <2>3, <3>4 DEF ExitPlaced, ThreadAt, FirstAt
      <4>2. pc[t] = "delete" => exiter[p] = t
        BY <1>0 DEF ExitPlaced
      <4>3. QED
        BY <2>3, <4>1, <4>2
    <3>7. FirstAt(pc[u], n, file'[p])
      BY <3>2, <3>4, <3>5, <3>6 DEF ThreadAt, FirstAt, Early
    <3>8. QED
      BY <2>3, <3>2, <3>3, <3>4, <3>5, <3>7 DEF ThreadAt
  <2>4. QED
    BY <2>1, <2>2, <2>3
<1>3. UnbornClean'
  BY <1>0 DEF UnbornClean
<1>4. QED
  BY <1>1, <1>2, <1>3 DEF Files

(* A step that ends a process.                                             *)
LEMMA EndLemma ==
  ASSUME FileInv, NEW t \in Thread, pc[t] # "unused",
         NEW how \in {"exited", "full", "terminated", "crashed"}, End(proc[t], how),
         how \in {"terminated", "crashed"} => Threaded /\ ~Quiet,
         \A r \in Proc : SameWriter(mem[r], mem'[r]),
         \A r \in Proc : r # proc[t] => mem'[r] = mem[r],
         UNCHANGED <<proc, exiter, lost, file, names>>
  PROVE  Files'
<1> DEFINE p == proc[t]
<1>0. /\ p \in Proc /\ pc \in [Thread -> Where]
      /\ status \in [Proc -> {"unborn", "running", "exited", "full",
                               "terminated", "crashed"}]
      /\ \A u \in Thread : proc[u] # None => proc[u] \in Proc
      /\ ProcsOK /\ ThreadsOK /\ UnbornClean
  BY DEF FileInv, Files, MutexInv, TypeInv, TypeOK, Placed
<1>1. ProcsOK'
  BY <1>0 DEF ProcsOK, ProcAt, WriterOK, SameWriter, End
<1>2. ThreadsOK'
  <2> SUFFICES ASSUME NEW u \in Thread, proc[u] # None
               PROVE  /\ LET q == proc[u]
                         IN  ThreadAt(u, pc'[u], mem'[q], file[q], names[q], exiter[q])
                      /\ ~Threaded \/ Early(pc'[u], mem'[proc[u]]) => Sole(u)
    BY DEF ThreadsOK, Sole
  <2>1. CASE proc[u] # p
    BY <1>0, <2>1 DEF ThreadsOK, End
  <2>2. CASE proc[u] = p
    <3>1. pc'[u] = "gone" /\ SameWriter(mem[p], mem'[p])
      BY <1>0, <2>2 DEF End
    <3>2. /\ ThreadAt(u, pc[u], mem[p], file[p], names[p], exiter[p])
          /\ ~Threaded \/ Early(pc[u], mem[p]) => Sole(u)
      BY <1>0, <2>2, SlotsAssumption DEF ThreadsOK
    <3>3. Early("gone", mem'[p]) => Early(pc[u], mem[p])
      BY <3>1 DEF Early, SameWriter
    <3>4. ThreadAt(u, "gone", mem'[p], file[p], names[p], exiter[p])
      BY <3>1, <3>2, <3>3
         DEF ThreadAt, FirstAt, SoloAt, ExitAt, QuietAt, SameWriter
    <3>5. QED
      BY <2>2, <3>1, <3>2, <3>3, <3>4
  <2>3. QED
    BY <2>1, <2>2
<1>3. UnbornClean'
  BY <1>0 DEF UnbornClean, End
<1>4. QED
  BY <1>1, <1>2, <1>3 DEF Files

(* What the invariant says of a thread that is about to move.              *)
LEMMA HereLemma ==
  ASSUME FileInv, NEW t \in Thread, pc[t] # "unused"
  PROVE  /\ proc[t] \in Proc /\ mem[proc[t]] \in AddressSpace
         /\ ProcAt(mem[proc[t]], lost[proc[t]], exiter[proc[t]], status[proc[t]])
         /\ ThreadAt(t, pc[t], mem[proc[t]], file[proc[t]], names[proc[t]], exiter[proc[t]])
         /\ pc[t] \in {"exit", "dump", "delete"} => exiter[proc[t]] = t
         /\ pc \in [Thread -> Where] /\ mem \in [Proc -> AddressSpace]
         /\ status[proc[t]] # "unborn"
         /\ file \in [Proc -> Seq(Record)] /\ names \in [Proc -> Seq(Ip) \cup {None}]
         /\ lost \in [Proc -> BOOLEAN] /\ exiter \in [Proc -> Thread \cup {None}]
BY SlotsAssumption DEF FileInv, Files, ProcsOK, ThreadsOK, MutexInv, TypeInv, TypeOK,
                       Placed, ExitPlaced

LEMMA HookStepFiles ==
  ASSUME FileInv, NEW t \in Thread, HookStep(t) PROVE Files'
<1> DEFINE p == proc[t]
<1>0. /\ pc[t] # "unused" /\ t \in Thread
      /\ p \in Proc /\ mem[p] \in AddressSpace
      /\ ProcAt(mem[p], lost[p], exiter[p], status[p])
      /\ ThreadAt(t, pc[t], mem[p], file[p], names[p], exiter[p])
      /\ mem \in [Proc -> AddressSpace] /\ file \in [Proc -> Seq(Record)]
      /\ lost \in [Proc -> BOOLEAN] /\ status[p] # "unborn"
  <2>1. pc[t] # "unused"
    BY DEF HookStep, CreateWriter, Skip, Acquire, AbortFull, Unwind, WriteFakeFree,
           WriteRecord, Release, WriteThrows, FreeThrows, Unwound
  <2>2. QED
    BY <2>1, HereLemma
<1>r. Resume(t) = IF exiter[p] = t THEN "exit" ELSE "idle"
  BY DEF Resume
<1> USE <1>0 DEF procVars, outVars, Goto
<1>1. CASE CreateWriter(t)
  <2> DEFINE n == Unlock(NewWriter(Register(mem[p])))
  <2>1. Opened(mem[p], n) /\ ~n.flag
    BY WriterChangedTwice
  <2>2. /\ pc[t] = "create" /\ pc' = [pc EXCEPT ![t] = "called"]
        /\ mem' = [mem EXCEPT ![p] = n] /\ file' = [file EXCEPT ![p] = <<>>]
        /\ UNCHANGED <<proc, status, exiter, lost, names>>
    BY <1>1 DEF CreateWriter
  <2> HIDE DEF n
  <2>3. ProcAt(n, lost[p], exiter[p], status[p])
    BY <2>1, <2>2 DEF Opened, ProcAt, WriterOK, ThreadAt, SoloAt
  <2>4. ThreadAt(t, "called", n, file'[p], names[p], exiter[p])
    BY <2>1, <2>2 DEF Opened, ThreadAt, FirstAt, SoloAt, ExitAt, QuietAt, Early, Critical
  <2>5. QED
    BY <2>1, <2>2, <2>3, <2>4, MoveLemma DEF Opened, Early
<1>2. CASE Skip(t)
  <2> DEFINE l == Resume(t)
  <2>1. /\ pc[t] = "called" /\ pc' = [pc EXCEPT ![t] = l]
        /\ mem' = mem /\ (~Captured(p) \/ mem[p].flag)
        /\ lost' = [lost EXCEPT ![p] = @ \/ Captured(p)]
        /\ UNCHANGED <<proc, status, exiter, file, names>>
    BY <1>2 DEF Skip
  <2>2. mem' = [mem EXCEPT ![p] = mem[p]]
    BY <2>1
  <2>3. \A r \in Proc : r # p => lost'[r] = lost[r]
    BY <2>1, Zenon
  <2>4. ~Threaded /\ mem[p].flag => mem[p].writer = "deleted"
    BY <2>1 DEF ThreadAt, SoloAt, Critical
  <2>5. ProcAt(mem[p], lost'[p], exiter[p], status[p])
    <3>1. lost'[p] => lost[p] \/ Captured(p)
      BY <2>1, Zenon
    <3>2. ~Threaded /\ lost'[p] => mem[p].writer = "deleted"
      BY <2>1, <2>4, <3>1 DEF ProcAt
    <3>3. QED
      BY <3>2 DEF ProcAt
  <2>6. ThreadAt(t, l, mem[p], file[p], names[p], exiter[p])
    BY <1>r, <2>1, SlotsAssumption
       DEF ThreadAt, FirstAt, SoloAt, ExitAt, QuietAt, ProcAt, Early, Critical
  <2>7. Early(l, mem[p]) => Early(pc[t], mem[p])
    BY <1>r DEF Early
  <2>8. /\ pc' = [pc EXCEPT ![t] = l] /\ UNCHANGED <<proc, status>>
        /\ exiter'[p] = exiter[p]
        /\ file'[p] = file[p] /\ names'[p] = names[p]
        /\ \A r \in Proc : r # p =>
             /\ file'[r] = file[r] /\ names'[r] = names[r]
             /\ lost'[r] = lost[r] /\ exiter'[r] = exiter[r]
    BY <2>1, <2>3
  <2> HIDE DEF l
  <2>9. QED
    BY <2>2, <2>5, <2>6, <2>7, <2>8, MoveLemma
<1>3. CASE Acquire(t)
  <2> DEFINE n == Lock(mem[p])
  <2>1. SameWriter(mem[p], n) /\ n.flag
    BY WriterKept, LockLemma
  <2>2. /\ pc[t] = "called" /\ pc' = [pc EXCEPT ![t] = "unwind"]
        /\ mem' = [mem EXCEPT ![p] = n] /\ ~mem[p].flag
        /\ UNCHANGED <<proc, status, exiter, lost, file, names>>
    BY <1>3 DEF Acquire
  <2> HIDE DEF n
  <2>3. ProcAt(n, lost[p], exiter[p], status[p])
    BY <2>1 DEF SameWriter, ProcAt, WriterOK
  <2>4. ThreadAt(t, "unwind", n, file[p], names[p], exiter[p])
    BY <2>1, <2>2
       DEF SameWriter, ThreadAt, FirstAt, SoloAt, ExitAt, QuietAt, Early, Critical
  <2>5. QED
    BY <2>1, <2>2, <2>3, <2>4, MoveLemma DEF SameWriter, Early
<1>4. CASE AbortFull(t)
  <2>1. SameWriter(mem[p], Lock(mem[p]))
    BY WriterKept
  <2>2. /\ \A r \in Proc : SameWriter(mem[r], mem'[r])
        /\ \A r \in Proc : r # p => mem'[r] = mem[r]
        /\ End(p, "full") /\ UNCHANGED <<proc, exiter, lost, file, names>>
    BY <1>4, <2>1 DEF AbortFull, SameWriter
  <2>3. QED
    BY <2>2, EndLemma
<1>5. CASE Unwind(t)
  <2>1. PICK ip, index, name : mem' = [mem EXCEPT ![p] = Learn(@, ip, index, name)]
    BY <1>5 DEF Unwind
  <2> DEFINE n == Learn(mem[p], ip, index, name)
  <2>2. SameWriter(mem[p], n)
    BY WriterKept
  <2>3. /\ pc[t] = "unwind" /\ mem' = [mem EXCEPT ![p] = n]
        /\ UNCHANGED <<pc, proc, status, exiter, lost, file, names>>
    BY <1>5, <2>1 DEF Unwind
  <2>4. n.flag = mem[p].flag
    <3>1. PICK m \in AddressSpace :
            mem' = [mem EXCEPT ![p] = m] /\ m.flag = mem[p].flag
      BY <1>5, UnwindLemma DEF FileInv, MutexInv
    <3>2. QED
      BY <2>3, <3>1
  <2> HIDE DEF n
  <2>5. pc' = [pc EXCEPT ![t] = "unwind"]
    BY <2>3 DEF FileInv, MutexInv, TypeInv, TypeOK
  <2>6. ProcAt(n, lost[p], exiter[p], status[p])
    BY <2>2 DEF SameWriter, ProcAt, WriterOK
  <2>7. ThreadAt(t, "unwind", n, file[p], names[p], exiter[p])
    BY <2>2, <2>3, <2>4 DEF SameWriter, ThreadAt, FirstAt, SoloAt, ExitAt, QuietAt, Early
  <2>8. QED
    BY <2>2, <2>3, <2>5, <2>6, <2>7, MoveLemma DEF SameWriter, Early
<1>6. ASSUME NEW l \in {"write", "release"}, pc' = [pc EXCEPT ![t] = l],
             pc[t] \in {"unwind", "write"}, mem[p].writer = "open",
             NEW r \in Record, file' = [file EXCEPT ![p] = Append(@, r)],
             UNCHANGED <<mem, proc, status, exiter, lost, names>>
      PROVE  Files'
  <2>1. mem' = [mem EXCEPT ![p] = mem[p]] /\ ~Early(pc[t], mem[p]) /\ ~Early(l, mem[p])
    BY <1>6 DEF ProcAt, WriterOK, Early
  <2>2. ThreadAt(t, l, mem[p], file'[p], names[p], exiter[p])
    BY <1>6, <2>1 DEF ThreadAt, FirstAt, SoloAt, ExitAt, QuietAt, Critical
  <2>3. QED
    BY <1>6, <2>1, <2>2, MoveLemma
<1>7. CASE WriteFakeFree(t)
  <2>1. [type |-> FREE, by |-> t, fake |-> TRUE, stack |-> <<>>, ids |-> <<>>] \in Record
    <3>1. <<>> \in Seq(Ip) /\ <<>> \in Seq(Nat)
      OBVIOUS
    <3>2. QED
      BY <3>1 DEF Record
  <2>2. QED
    BY <1>6, <1>7, <2>1 DEF WriteFakeFree, Unwound
<1>8. CASE WriteRecord(t)
  <2>1. [type |-> call[t].op, by |-> t, fake |-> FALSE,
         stack |-> call[t].stack, ids |-> call[t].ids] \in Record
    BY DEF FileInv, MutexInv, TypeInv, TypeOK, Record, Call
  <2>2. QED
    BY <1>6, <1>8, <2>1 DEF WriteRecord, Unwound
<1>9. CASE Release(t)
  <2> DEFINE n == Unlock(mem[p])
             l == Resume(t)
  <2>1. SameWriter(mem[p], n) /\ ~n.flag
    BY WriterKept, LockLemma
  <2>2. /\ pc[t] = "release" /\ pc' = [pc EXCEPT ![t] = l]
        /\ mem' = [mem EXCEPT ![p] = n]
        /\ UNCHANGED <<proc, status, exiter, lost, file, names>>
    BY <1>9 DEF Release
  <2> HIDE DEF n
  <2>3. ProcAt(n, lost[p], exiter[p], status[p])
    BY <2>1 DEF SameWriter, ProcAt, WriterOK
  <2>4. ThreadAt(t, l, n, file[p], names[p], exiter[p])
    BY <1>r, <2>1, <2>2, SlotsAssumption
       DEF SameWriter, ThreadAt, FirstAt, SoloAt, ExitAt, QuietAt, ProcAt, Early, Critical
  <2>5. QED
    BY <1>r, <2>1, <2>2, <2>3, <2>4, MoveLemma DEF SameWriter, Early
<1>10. CASE WriteThrows(t)
  <2>1. Threaded /\ ~Quiet
    BY <1>10 DEF WriteThrows, Unwound, ThreadAt, SoloAt, ProcAt
  <2>2. /\ End(p, "terminated") /\ UNCHANGED <<mem, proc, exiter, lost, file, names>>
    BY <1>10 DEF WriteThrows
  <2>3. QED
    BY <2>1, <2>2, EndLemma DEF SameWriter
<1>11. CASE FreeThrows(t)
  <2> DEFINE l == Resume(t)
  <2>1. Threaded /\ ~Quiet
    BY <1>11 DEF FreeThrows, Unwound, ThreadAt, SoloAt, ProcAt
  <2>2. CASE End(p, "terminated") /\ lost' = lost
    BY <1>11, <2>1, <2>2, EndLemma DEF FreeThrows, SameWriter
  <2>3. CASE /\ pc' = [pc EXCEPT ![t] = l] /\ lost' = [lost EXCEPT ![p] = TRUE]
             /\ status' = status
    <3>1. /\ mem' = [mem EXCEPT ![p] = mem[p]] /\ pc[t] = "unwind"
          /\ UNCHANGED <<proc, status, exiter, file, names>>
      BY <1>11, <2>3 DEF FreeThrows, Unwound
    <3>2. ProcAt(mem[p], TRUE, exiter[p], status[p])
      BY <2>1 DEF ProcAt, WriterOK
    <3>3. ThreadAt(t, l, mem[p], file[p], names[p], exiter[p])
      BY <1>r, <2>1, <3>1, SlotsAssumption
         DEF ThreadAt, FirstAt, SoloAt, ExitAt, QuietAt, ProcAt, Early, Critical
    <3>4. Early(l, mem[p]) => Early(pc[t], mem[p])
      BY <1>r DEF Early
    <3>5. /\ lost'[p] = TRUE
          /\ \A r \in Proc : r # p => lost'[r] = lost[r]
      BY <2>3
    <3> HIDE DEF l
    <3>6. QED
      BY <2>3, <3>1, <3>2, <3>3, <3>4, <3>5, MoveLemma
  <2>4. QED
    BY <1>11, <2>2, <2>3 DEF FreeThrows
<1>12. QED
  BY <1>1, <1>2, <1>3, <1>4, <1>5, <1>7, <1>8, <1>9, <1>10, <1>11 DEF HookStep

(* A fork gives the child the address space of its parent, no thread but   *)
(* one, an empty file and no table.                                        *)
LEMMA ForkFiles ==
  ASSUME FileInv, NEW t \in Thread, Fork(t) PROVE Files'
<1> DEFINE p == proc[t]
<1>1. PICK q \in Proc, u \in Thread :
        /\ status[q] = "unborn"
        /\ pc[u] = "unused"
        /\ mem' = [mem EXCEPT ![q] = mem[p]]
        /\ status' = [status EXCEPT ![q] = "running"]
        /\ proc' = [proc EXCEPT ![u] = q]
        /\ pc' = [pc EXCEPT ![t] = AfterForkParent(p), ![u] = AfterForkChild(p)]
  BY DEF Fork
<1>2. pc[t] = "fork" /\ UNCHANGED <<exiter, lost, file, names>>
  BY DEF Fork, procVars, outVars
<1>3. /\ p \in Proc /\ p # q /\ u # t
      /\ ThreadAt(t, "fork", mem[p], file[p], names[p], exiter[p])
      /\ ProcAt(mem[p], lost[p], exiter[p], status[p])
  BY <1>1, <1>2, HereLemma
<1>4. /\ mem \in [Proc -> AddressSpace] /\ pc \in [Thread -> Where]
      /\ proc \in [Thread -> Proc \cup {None}]
      /\ status \in [Proc -> {"unborn", "running", "exited", "full",
                               "terminated", "crashed"}]
      /\ \A w \in Thread : proc[w] # None => proc[w] \in Proc /\ proc[w] # q
      /\ ProcsOK /\ ThreadsOK /\ UnbornClean
  BY <1>1 DEF FileInv, Files, MutexInv, TypeInv, TypeOK, Placed
<1>5. ~Quiet
  BY <1>3 DEF ThreadAt, QuietAt
<1>6. ~Threaded => mem[p].writer \in {"none", "closed"} /\ ~mem[p].flag
  BY <1>3 DEF ThreadAt, SoloAt, Critical
<1>7. ProcsOK'
  BY <1>1, <1>2, <1>3, <1>4, <1>5, <1>6 DEF ProcsOK, ProcAt, UnbornClean
<1>8. /\ mem'[p] = mem[p] /\ mem'[q] = mem[p]
      /\ pc'[t] = AfterForkParent(p) /\ pc'[u] = AfterForkChild(p)
      /\ proc'[t] = p /\ proc'[u] = q
      /\ \A w \in Thread : w # u => proc'[w] = proc[w]
      /\ \A w \in Thread : w # t /\ w # u => pc'[w] = pc[w]
      /\ \A r \in Proc : r # q => mem'[r] = mem[r]
  BY <1>1, <1>3, <1>4
<1>9. WriterOK(mem[p])
  BY <1>3 DEF ProcAt
<1>10. \A w \in Thread : w # u /\ proc[w] # None /\ Sole(w) => Sole(w)'
  BY <1>4, <1>8 DEF Sole
<1>11. Sole(u)'
  BY <1>4, <1>8, SlotsAssumption DEF Sole
<1>12. ThreadsOK'
  <2> SUFFICES ASSUME NEW w \in Thread, proc'[w] # None
               PROVE  /\ LET r == proc'[w]
                         IN  ThreadAt(w, pc'[w], mem'[r], file[r], names[r], exiter[r])
                      /\ ~Threaded \/ Early(pc'[w], mem'[proc'[w]]) => Sole(w)'
    BY <1>2 DEF ThreadsOK, Sole
  <2>1. CASE w = t
    <3>1. ThreadAt(t, AfterForkParent(p), mem[p], file[p], names[p], exiter[p])
      BY <1>3, <1>5, <1>6, <1>9
         DEF ThreadAt, FirstAt, SoloAt, ExitAt, AfterForkParent, WriterOK, Early, Critical
    <3>2. Early(AfterForkParent(p), mem[p]) => Early("fork", mem[p])
      BY DEF AfterForkParent, Early
    <3>3. ~Threaded \/ Early("fork", mem[p]) => Sole(t)
      BY <1>2, <1>3, <1>4, SlotsAssumption DEF ThreadsOK
    <3>4. QED
      BY <1>3, <1>8, <1>10, <2>1, <3>1, <3>2, <3>3, SlotsAssumption
  <2>2. CASE w = u
    <3>1. file[q] = <<>> /\ names[q] = None
      BY <1>1, <1>4 DEF UnbornClean
    <3>2. ThreadAt(u, AfterForkChild(p), mem[p], file[q], names[q], exiter[q])
      BY <1>5, <1>6, <1>9, <3>1
         DEF ThreadAt, FirstAt, SoloAt, ExitAt, AfterForkChild, WriterOK, Early, Critical
    <3>3. QED
      BY <1>8, <1>11, <2>2, <3>2
  <2>3. CASE w # t /\ w # u
    <3>1. proc'[w] = proc[w] /\ pc'[w] = pc[w] /\ mem'[proc[w]] = mem[proc[w]]
      BY <1>4, <1>8, <2>3
    <3>2. /\ ThreadAt(w, pc[w], mem[proc[w]], file[proc[w]], names[proc[w]], exiter[proc[w]])
          /\ ~Threaded \/ Early(pc[w], mem[proc[w]]) => Sole(w)
      BY <1>4, <3>1 DEF ThreadsOK
    <3>3. QED
      BY <1>10, <2>3, <3>1, <3>2
  <2>4. QED
    BY <2>1, <2>2, <2>3
<1>13. UnbornClean'
  BY <1>1, <1>2, <1>4 DEF UnbornClean
<1>14. QED
  BY <1>7, <1>12, <1>13 DEF Files

LEMMA ForkStepFiles ==
  ASSUME FileInv, NEW t \in Thread, ForkStep(t) PROVE Files'
<1> DEFINE p == proc[t]
<1>0. /\ pc[t] # "unused" /\ t \in Thread
      /\ p \in Proc /\ mem[p] \in AddressSpace
      /\ ProcAt(mem[p], lost[p], exiter[p], status[p])
      /\ ThreadAt(t, pc[t], mem[p], file[p], names[p], exiter[p])
      /\ mem \in [Proc -> AddressSpace] /\ file \in [Proc -> Seq(Record)]
  <2>1. pc[t] # "unused"
    BY DEF ForkStep, PrepAcquire, ParentAcquire, ChildAcquire, SpinAcquire, PrepClose,
           Fork, ForkFails, ParentReopen, ChildRenew, ChildAtexit
  <2>2. QED
    BY <2>1, HereLemma
<1> USE <1>0 DEF procVars, outVars, Goto
<1>1. ASSUME NEW from, NEW to,
             <<from, to>> \in {<<"prepSpin", "prep">>, <<"parentSpin", "parent">>,
                               <<"childSpin", "child">>},
             SpinAcquire(t, from, to)
      PROVE  Files'
  <2> DEFINE n == Lock(mem[p])
  <2>1. SameWriter(mem[p], n) /\ n.flag
    BY WriterKept, LockLemma
  <2>2. /\ pc[t] = from /\ pc' = [pc EXCEPT ![t] = to] /\ mem' = [mem EXCEPT ![p] = n]
        /\ UNCHANGED <<proc, status, exiter, lost, file, names>>
    BY <1>1 DEF SpinAcquire
  <2> HIDE DEF n
  <2>3. ProcAt(n, lost[p], exiter[p], status[p])
    BY <2>1 DEF SameWriter, ProcAt, WriterOK
  <2>4. ThreadAt(t, to, n, file[p], names[p], exiter[p])
    BY <1>1, <2>1, <2>2
       DEF SameWriter, ThreadAt, FirstAt, SoloAt, ExitAt, QuietAt, Early, Critical
  <2>5. QED
    BY <1>1, <2>1, <2>2, <2>3, <2>4, MoveLemma DEF SameWriter, Early
<1>2. CASE PrepClose(t)
  <2> DEFINE n == Unlock(SetFile(mem[p], "closed"))
  <2>1. Filed(mem[p], n, "closed") /\ ~n.flag
    BY WriterChangedTwice
  <2>2. /\ pc[t] = "prep" /\ pc' = [pc EXCEPT ![t] = "fork"]
        /\ mem' = [mem EXCEPT ![p] = n] /\ mem[p].writer # "deleted"
        /\ UNCHANGED <<proc, status, exiter, lost, file, names>>
    BY <1>2 DEF PrepClose
  <2> HIDE DEF n
  <2>3. ProcAt(n, lost[p], exiter[p], status[p])
    BY <2>1, <2>2
       DEF Filed, ProcAt, WriterOK, ThreadAt, FirstAt, SoloAt, QuietAt, AddressSpace
  <2>4. ThreadAt(t, "fork", n, file[p], names[p], exiter[p])
    BY <2>1, <2>2
       DEF Filed, ThreadAt, FirstAt, SoloAt, ExitAt, QuietAt, Early, Critical
  <2>5. QED
    BY <2>1, <2>2, <2>3, <2>4, MoveLemma DEF Filed, Early
<1>3. CASE ForkFails(t)
  <2> DEFINE l == AfterForkParent(p)
  <2>1. /\ pc[t] = "fork" /\ pc' = [pc EXCEPT ![t] = l]
        /\ mem' = [mem EXCEPT ![p] = mem[p]]
        /\ UNCHANGED <<proc, status, exiter, lost, file, names>>
    BY <1>3 DEF ForkFails
  <2>2. ThreadAt(t, l, mem[p], file[p], names[p], exiter[p])
    BY <2>1 DEF AfterForkParent, ThreadAt, FirstAt, SoloAt, ExitAt, QuietAt, Early,
                Critical, ProcAt, WriterOK
  <2>3. QED
    BY <2>1, <2>2, MoveLemma DEF AfterForkParent, Early
<1>4. CASE ParentReopen(t)
  <2> DEFINE n == Unlock(SetFile(mem[p], "open"))
  <2>1. Filed(mem[p], n, "open") /\ ~n.flag
    BY WriterChangedTwice
  <2>2. /\ pc[t] = "parent" /\ pc' = [pc EXCEPT ![t] = "idle"]
        /\ mem' = [mem EXCEPT ![p] = n] /\ mem[p].writer # "deleted"
        /\ UNCHANGED <<proc, status, exiter, lost, file, names>>
    BY <1>4 DEF ParentReopen
  <2> HIDE DEF n
  <2>3. ProcAt(n, lost[p], exiter[p], status[p])
    BY <2>1, <2>2
       DEF Filed, ProcAt, WriterOK, ThreadAt, FirstAt, SoloAt, AddressSpace
  <2>4. ThreadAt(t, "idle", n, file[p], names[p], exiter[p])
    BY <2>1, <2>2
       DEF Filed, ThreadAt, FirstAt, SoloAt, ExitAt, QuietAt, Early, Critical
  <2>5. QED
    BY <2>1, <2>2, <2>3, <2>4, MoveLemma DEF Filed, Early
<1>5. CASE ChildRenew(t)
  <2> DEFINE n == Unlock(NewWriter(mem[p]))
  <2>1. Opened(mem[p], n) /\ ~n.flag
    BY WriterChangedTwice
  <2>2. /\ pc[t] = "child" /\ pc' = [pc EXCEPT ![t] = "childExit"]
        /\ mem' = [mem EXCEPT ![p] = n] /\ file' = [file EXCEPT ![p] = <<>>]
        /\ mem[p].writer # "deleted"
        /\ UNCHANGED <<proc, status, exiter, lost, names>>
    BY <1>5 DEF ChildRenew
  <2> HIDE DEF n
  <2>3. ProcAt(n, lost[p], exiter[p], status[p])
    BY <2>1, <2>2 DEF Opened, ProcAt, WriterOK, ThreadAt, SoloAt
  <2>4. ThreadAt(t, "childExit", n, file'[p], names[p], exiter[p])
    BY <2>1, <2>2 DEF Opened, ThreadAt, FirstAt, SoloAt, ExitAt, QuietAt, Early, Critical
  <2>5. QED
    BY <2>1, <2>2, <2>3, <2>4, MoveLemma DEF Opened, Early
<1>6. CASE ChildAtexit(t)
  <2> DEFINE n == Register(mem[p])
  <2>1. SameWriter(mem[p], n) /\ n.flag = mem[p].flag
    BY WriterKept, RegisterLemma
  <2>2. /\ pc[t] = "childExit" /\ pc' = [pc EXCEPT ![t] = "idle"]
        /\ mem' = [mem EXCEPT ![p] = n]
        /\ UNCHANGED <<proc, status, exiter, lost, file, names>>
    BY <1>6 DEF ChildAtexit
  <2> HIDE DEF n
  <2>3. ProcAt(n, lost[p], exiter[p], status[p])
    BY <2>1 DEF SameWriter, ProcAt, WriterOK
  <2>4. ThreadAt(t, "idle", n, file[p], names[p], exiter[p])
    BY <2>1, <2>2
       DEF SameWriter, ThreadAt, FirstAt, SoloAt, ExitAt, QuietAt, Early, Critical
  <2>5. QED
    BY <2>1, <2>2, <2>3, <2>4, MoveLemma DEF SameWriter, Early
<1>7. QED
  BY <1>1, <1>2, <1>3, <1>4, <1>5, <1>6, ForkFiles
     DEF ForkStep, PrepAcquire, ParentAcquire, ChildAcquire

LEMMA ExitStepFiles ==
  ASSUME FileInv, NEW t \in Thread, ExitStep(t) \/ UseDeleted(t) PROVE Files'
<1> DEFINE p == proc[t]
<1>0. /\ pc[t] # "unused" /\ t \in Thread
      /\ p \in Proc /\ mem[p] \in AddressSpace
      /\ ProcAt(mem[p], lost[p], exiter[p], status[p])
      /\ ThreadAt(t, pc[t], mem[p], file[p], names[p], exiter[p])
      /\ mem \in [Proc -> AddressSpace] /\ pc \in [Thread -> Where]
      /\ names \in [Proc -> Seq(Ip) \cup {None}]
      /\ pc[t] \in {"exit", "dump", "delete"} => exiter[p] = t
  <2>1. pc[t] # "unused"
    BY DEF ExitStep, EnterHandler, DumpTables, DeleteWriter, Exit, UseDeleted
  <2>2. QED
    BY <2>1, HereLemma
<1> USE <1>0 DEF procVars, outVars, Goto
<1>1. CASE EnterHandler(t)
  <2>1. /\ SameWriter(mem[p], Unregister(mem[p])) /\ Unregister(mem[p]).flag = mem[p].flag
        /\ SameWriter(mem[p], Lock(Unregister(mem[p]))) /\ Lock(Unregister(mem[p])).flag
    BY <1>1, WriterKept, WriterChangedTwice, RegisterLemma DEF EnterHandler
  <2>2. /\ pc[t] = "exit" /\ UNCHANGED <<proc, status, exiter, lost, file, names>>
    BY <1>1 DEF EnterHandler
  <2>3. PICK l, n : /\ pc' = [pc EXCEPT ![t] = l] /\ mem' = [mem EXCEPT ![p] = n]
                    /\ SameWriter(mem[p], n)
                    /\ \/ l = "exit" /\ ~mem[p].wLocal /\ n.flag = mem[p].flag
                       \/ l = "dump" /\ mem[p].wLocal /\ n.flag
    <3>1. CASE ~mem[p].wLocal
      <4>1. mem' = [mem EXCEPT ![p] = Unregister(mem[p])] /\ pc' = pc
        BY <1>1, <3>1 DEF EnterHandler
      <4>2. pc' = [pc EXCEPT ![t] = "exit"]
        BY <2>2, <4>1
      <4>3. QED
        BY <2>1, <3>1, <4>1, <4>2
    <3>2. CASE mem[p].wLocal
      <4>1. /\ mem' = [mem EXCEPT ![p] = Lock(Unregister(mem[p]))]
            /\ pc' = [pc EXCEPT ![t] = "dump"]
        BY <1>1, <3>2 DEF EnterHandler
      <4>2. QED
        BY <2>1, <3>2, <4>1
    <3>3. QED
      BY <3>1, <3>2
  <2>4. ProcAt(n, lost[p], exiter[p], status[p])
    BY <2>3 DEF SameWriter, ProcAt, WriterOK
  <2>5. ThreadAt(t, l, n, file[p], names[p], exiter[p])
    BY <2>2, <2>3 DEF SameWriter, ThreadAt, FirstAt, SoloAt, ExitAt, QuietAt, Early,
                      Critical, ProcAt, WriterOK
  <2>6. QED
    BY <2>2, <2>3, <2>4, <2>5, MoveLemma DEF SameWriter, Early
<1>2. CASE DumpTables(t)
  <2>1. /\ pc[t] = "dump" /\ pc' = [pc EXCEPT ![t] = "delete"]
        /\ names' = [names EXCEPT ![p] = mem[p].symNames]
        /\ mem' = [mem EXCEPT ![p] = mem[p]]
        /\ UNCHANGED <<proc, status, exiter, lost, file>>
    BY <1>2 DEF DumpTables
  <2>2. ThreadAt(t, "delete", mem[p], file[p], names'[p], exiter[p])
    BY <2>1 DEF ThreadAt, FirstAt, SoloAt, ExitAt, QuietAt, Early, Critical
  <2>3. QED
    BY <2>1, <2>2, MoveLemma DEF Early
<1>3. CASE DeleteWriter(t)
  <2> DEFINE n == DropWriter(mem[p])
  <2>1. /\ n.fwriter = mem[p].fwriter /\ ~n.wLocal /\ n.writer = "deleted"
        /\ n.flag = mem[p].flag
    BY WriterChanged, WriterLemma
  <2>2. /\ pc[t] = "delete" /\ pc' = [pc EXCEPT ![t] = "exit"]
        /\ mem' = [mem EXCEPT ![p] = n]
        /\ UNCHANGED <<proc, status, exiter, lost, file, names>>
    BY <1>3 DEF DeleteWriter
  <2> HIDE DEF n
  <2>3. mem[p].fwriter
    BY <2>2 DEF ThreadAt, FirstAt, ProcAt, WriterOK
  <2>4. ProcAt(n, lost[p], exiter[p], status[p])
    BY <2>1, <2>2, <2>3 DEF ProcAt, WriterOK, ThreadAt, QuietAt
  <2>5. ThreadAt(t, "exit", n, file[p], names[p], exiter[p])
    BY <2>1, <2>2, <2>3
       DEF ThreadAt, FirstAt, SoloAt, ExitAt, QuietAt, Early, Critical
  <2>6. QED
    BY <2>1, <2>2, <2>3, <2>4, <2>5, MoveLemma DEF Early
<1>4. CASE Exit(t)
  <2>1. End(p, "exited") /\ UNCHANGED <<mem, proc, exiter, lost, file, names>>
    BY <1>4 DEF Exit
  <2>2. pc[t] # "unused"
    OBVIOUS
  <2>3. QED
    BY <2>1, <2>2, EndLemma DEF SameWriter
<1>5. CASE UseDeleted(t)
  <2>1. Threaded /\ ~Quiet
    BY <1>5 DEF UseDeleted, ThreadAt, SoloAt, ProcAt
  <2>2. End(p, "crashed") /\ UNCHANGED <<mem, proc, exiter, lost, file, names>>
    BY <1>5 DEF UseDeleted
  <2>3. QED
    BY <2>1, <2>2, EndLemma DEF SameWriter
<1>6. QED
  BY <1>1, <1>2, <1>3, <1>4, <1>5 DEF ExitStep

(* A new thread is of a process that has its writer and is not alone.      *)
LEMMA SpawnFiles ==
  ASSUME FileInv, NEW t \in Thread, Spawn(t) PROVE Files'
<1> DEFINE p == proc[t]
<1>1. PICK u \in Thread : /\ pc[u] = "unused"
                          /\ proc' = [proc EXCEPT ![u] = p]
                          /\ pc' = [pc EXCEPT ![u] = "idle"]
  BY DEF Spawn, Goto
<1>2. /\ Threaded /\ pc[t] = "idle" /\ mem[p].fwriter
      /\ UNCHANGED <<mem, status, exiter, lost, file, names>>
  BY DEF Spawn, procVars, outVars
<1>3. /\ p \in Proc /\ proc[t] # None
      /\ proc \in [Thread -> Proc \cup {None}] /\ pc \in [Thread -> Where]
      /\ ProcsOK /\ ThreadsOK /\ UnbornClean
  BY <1>2, HereLemma, SlotsAssumption DEF FileInv, Files, MutexInv, TypeInv, TypeOK
<1>4. ThreadsOK'
  <2> SUFFICES ASSUME NEW w \in Thread, proc'[w] # None
               PROVE  /\ LET r == proc'[w]
                         IN  ThreadAt(w, pc'[w], mem[r], file[r], names[r], exiter[r])
                      /\ Early(pc'[w], mem[proc'[w]]) => Sole(w)'
    BY <1>2 DEF ThreadsOK, Sole
  <2>1. CASE w = u
    <3>1. ThreadAt(u, "idle", mem[p], file[p], names[p], exiter[p])
      BY <1>2 DEF ThreadAt, FirstAt, QuietAt, Early
    <3>2. ~Early("idle", mem[p])
      BY <1>2 DEF Early
    <3>3. QED
      BY <1>1, <1>3, <2>1, <3>1, <3>2
  <2>2. CASE w # u
    <3>1. proc'[w] = proc[w] /\ pc'[w] = pc[w]
      BY <1>1, <1>3, <2>2
    <3>2. /\ ThreadAt(w, pc[w], mem[proc[w]], file[proc[w]], names[proc[w]], exiter[proc[w]])
          /\ Early(pc[w], mem[proc[w]]) => Sole(w)
      BY <1>3, <3>1 DEF ThreadsOK
    <3>3. CASE proc[w] = p
      <4>1. Early(pc[w], mem[p]) => w = t
        BY <1>3, <3>2, <3>3 DEF Sole
      <4>2. ~Early(pc[t], mem[p])
        BY <1>2 DEF Early
      <4>3. QED
        BY <3>1, <3>2, <3>3, <4>1, <4>2
    <3>4. CASE proc[w] # p
      <4>1. Sole(w) => Sole(w)'
        BY <1>1, <1>3, <3>1, <3>4 DEF Sole
      <4>2. QED
        BY <3>1, <3>2, <4>1
    <3>5. QED
      BY <3>3, <3>4
  <2>3. QED
    BY <2>1, <2>2
<1>5. ProcsOK' /\ UnbornClean'
  BY <1>2, <1>3 DEF ProcsOK, UnbornClean
<1>6. QED
  BY <1>4, <1>5 DEF Files

LEMMA ApplicationStepFiles ==
  ASSUME FileInv, NEW t \in Thread, ApplicationStep(t) PROVE Files'
<1> DEFINE p == proc[t]
<1>0. /\ pc[t] # "unused" /\ t \in Thread
      /\ p \in Proc /\ mem[p] \in AddressSpace
      /\ ProcAt(mem[p], lost[p], exiter[p], status[p])
      /\ ThreadAt(t, pc[t], mem[p], file[p], names[p], exiter[p])
      /\ mem \in [Proc -> AddressSpace] /\ pc \in [Thread -> Where]
      /\ exiter \in [Proc -> Thread \cup {None}]
  <2>1. pc[t] # "unused"
    BY DEF ApplicationStep, HookEnter, SetCapture, Spawn, BeginFork, BeginExit
  <2>2. QED
    BY <2>1, HereLemma
<1> USE <1>0 DEF procVars, outVars, Goto
<1>1. CASE HookEnter(t)
  <2>1. SameWriter(mem[p], Lock(mem[p])) /\ Lock(mem[p]).flag
    BY WriterKept, LockLemma
  <2>2. pc[t] \in {"idle", "exit"} /\ UNCHANGED <<proc, status, exiter, lost, file, names>>
    BY <1>1 DEF HookEnter
  <2>3. PICK l, n : /\ pc' = [pc EXCEPT ![t] = l] /\ mem' = [mem EXCEPT ![p] = n]
                    /\ SameWriter(mem[p], n)
                    /\ \/ l = "called" /\ mem[p].fwriter /\ n.flag = mem[p].flag
                       \/ l = "create" /\ ~mem[p].fwriter /\ n.flag
    <3>1. CASE mem[p].fwriter
      <4>1. mem' = [mem EXCEPT ![p] = mem[p]] /\ pc' = [pc EXCEPT ![t] = "called"]
        BY <1>1, <3>1 DEF HookEnter
      <4>2. QED
        BY <3>1, <4>1 DEF SameWriter
    <3>2. CASE ~mem[p].fwriter
      <4>1. /\ mem' = [mem EXCEPT ![p] = Lock(mem[p])]
            /\ pc' = [pc EXCEPT ![t] = "create"]
        BY <1>1, <3>2 DEF HookEnter
      <4>2. QED
        BY <2>1, <3>2, <4>1
    <3>3. QED
      BY <3>1, <3>2
  <2>4. ProcAt(n, lost[p], exiter[p], status[p])
    BY <2>3 DEF SameWriter, ProcAt, WriterOK
  <2>5. ThreadAt(t, l, n, file[p], names[p], exiter[p])
    BY <2>2, <2>3 DEF SameWriter, ThreadAt, FirstAt, SoloAt, ExitAt, QuietAt, Early,
                      Critical, ProcAt, WriterOK
  <2>6. QED
    BY <2>2, <2>3, <2>4, <2>5, MoveLemma DEF SameWriter, Early
<1>2. CASE SetCapture(t)
  <2>1. PICK b \in BOOLEAN : mem' = [mem EXCEPT ![p] = SetCapturing(@, b)]
    BY <1>2 DEF SetCapture
  <2> DEFINE n == SetCapturing(mem[p], b)
  <2>2. SameWriter(mem[p], n) /\ n.flag = mem[p].flag
    BY WriterKept, CaptureLemma
  <2>3. /\ pc[t] = "idle" /\ mem' = [mem EXCEPT ![p] = n]
        /\ UNCHANGED <<pc, proc, status, exiter, lost, file, names>>
    BY <1>2, <2>1 DEF SetCapture
  <2> HIDE DEF n
  <2>4. pc' = [pc EXCEPT ![t] = "idle"]
    BY <2>3
  <2>5. ProcAt(n, lost[p], exiter[p], status[p])
    BY <2>2 DEF SameWriter, ProcAt, WriterOK
  <2>6. ThreadAt(t, "idle", n, file[p], names[p], exiter[p])
    BY <2>2, <2>3 DEF SameWriter, ThreadAt, FirstAt, SoloAt, ExitAt, QuietAt, Early
  <2>7. QED
    BY <2>2, <2>3, <2>4, <2>5, <2>6, MoveLemma DEF SameWriter, Early
<1>3. CASE Spawn(t)
  BY <1>3, SpawnFiles
<1>4. CASE BeginFork(t)
  <2> DEFINE l == IF mem[p].fwriter THEN "prepSpin" ELSE "fork"
  <2>1. /\ pc[t] = "idle" /\ pc' = [pc EXCEPT ![t] = l] /\ forks[p] < MaxForks
        /\ mem' = [mem EXCEPT ![p] = mem[p]]
        /\ UNCHANGED <<proc, status, exiter, lost, file, names>>
    BY <1>4 DEF BeginFork
  <2>2. ~Quiet
    BY <2>1, BoundAssumption DEF Quiet, FileInv, MutexInv, TypeInv, TypeOK
  <2>3. ThreadAt(t, l, mem[p], file[p], names[p], exiter[p])
    BY <2>1, <2>2 DEF ThreadAt, FirstAt, SoloAt, ExitAt, Early, Critical, ProcAt, WriterOK
  <2>4. Early(l, mem[p]) => Early(pc[t], mem[p])
    BY DEF Early
  <2> HIDE DEF l
  <2>5. QED
    BY <2>1, <2>3, <2>4, MoveLemma
<1>5. CASE BeginExit(t)
  <2>1. /\ pc[t] = "idle" /\ pc' = [pc EXCEPT ![t] = "exit"] /\ Exits
        /\ exiter' = [exiter EXCEPT ![p] = t]
        /\ mem' = [mem EXCEPT ![p] = mem[p]]
        /\ UNCHANGED <<proc, status, lost, file, names>>
    BY <1>5 DEF BeginExit
  <2>2. ~Quiet
    BY <2>1 DEF Quiet
  <2>3. ProcAt(mem[p], lost[p], exiter'[p], status[p])
    BY <2>2 DEF ProcAt
  <2>4. ThreadAt(t, "exit", mem[p], file[p], names[p], exiter'[p])
    BY <2>1, <2>2 DEF ThreadAt, FirstAt, SoloAt, ExitAt, Early, Critical
  <2>5. QED
    BY <2>1, <2>3, <2>4, MoveLemma DEF Early
<1>6. QED
  BY <1>1, <1>2, <1>3, <1>4, <1>5 DEF ApplicationStep

-----------------------------------------------------------------------------
(* The theorems *)

LEMMA FileInit == Init => FileInv
<1> SUFFICES ASSUME Init PROVE FileInv
  OBVIOUS
<1>1. \A p \in Proc :
        /\ ~mem[p].flag /\ ~mem[p].fwriter /\ ~mem[p].wLocal /\ mem[p].writer = "none"
        /\ exiter[p] = None /\ ~lost[p] /\ file[p] = <<>> /\ names[p] = None
        /\ status[p] \in {"running", "unborn"}
  BY DEF Init
<1>2. ProcsOK /\ UnbornClean
  BY <1>1 DEF ProcsOK, ProcAt, WriterOK, UnbornClean
<1>3. \A t \in Thread : proc[t] # None => proc[t] \in Proc /\ t = RootThread /\ pc[t] = "idle"
  BY SlotsAssumption DEF Init
<1>4. ThreadsOK
  BY <1>1, <1>3 DEF ThreadsOK, ThreadAt, FirstAt, SoloAt, ExitAt, QuietAt, Early, Sole,
                    Critical
<1>5. QED
  BY <1>2, <1>4, MutexInit DEF FileInv, Files

LEMMA FileStep == FileInv /\ [Next]_vars => FileInv'
<1> SUFFICES ASSUME FileInv, [Next]_vars PROVE FileInv'
  OBVIOUS
<1>1. MutexInv'
  BY MutexStep DEF FileInv
<1>2. CASE UNCHANGED vars
  BY <1>1, <1>2 DEF FileInv, Files, ProcsOK, ThreadsOK, UnbornClean, Sole,
                    vars, procVars, outVars
<1>3. ASSUME NEW t \in Thread, LibraryStep(t) \/ ApplicationStep(t)
      PROVE  Files'
  BY <1>3, HookStepFiles, ForkStepFiles, ExitStepFiles, ApplicationStepFiles
     DEF LibraryStep
<1>4. QED
  BY <1>1, <1>2, <1>3 DEF Next, Finished, FileInv

LEMMA FileInvariant == Spec => []FileInv
BY FileInit, FileStep, PTL DEF Spec

(* The library ends no process by writing to a closed file or by using or  *)
(* deleting a deleted writer, unless the program has threads and also      *)
(* forks or exits; and the exit handler never deletes the writer twice.    *)
THEOREM NoneIsKilled == Spec => []Survives
<1>1. FileInv => Survives
  <2> SUFFICES ASSUME FileInv PROVE Survives
    OBVIOUS
  <2>1. ASSUME NEW p \in Proc, status[p] \in {"terminated", "crashed"}
        PROVE  Threaded /\ (MaxForks > 0 \/ Exits)
    BY <2>1, BoundAssumption DEF FileInv, Files, ProcsOK, ProcAt, Quiet
  <2>2. ASSUME NEW t \in Thread, pc[t] = "delete"
        PROVE  mem[proc[t]].writer # "deleted"
    BY <2>2, HereLemma DEF ThreadAt, FirstAt, ProcAt, WriterOK
  <2>3. QED
    BY <2>1, <2>2 DEF Survives
<1>2. QED
  BY FileInvariant, <1>1, PTL

(* In a program without threads every captured call is recorded, across    *)
(* any forks, until the exit handler has deleted the writer.               *)
THEOREM CallsAreRecorded == Spec => []NothingLost
<1>1. FileInv => NothingLost
  BY DEF FileInv, Files, ProcsOK, ProcAt, WriterOK, NothingLost
<1>2. QED
  BY FileInvariant, <1>1, PTL

(* What a step may do to the output file of a process.                     *)
Extends(f, g) == Len(f) <= Len(g) /\ \A i \in DOMAIN f : g[i] = f[i]

LEMMA ExtendsLemma ==
  ASSUME NEW f \in Seq(Record)
  PROVE  /\ Extends(f, f) /\ (f = <<>> => Extends(f, <<>>))
         /\ \A r \in Record : Extends(f, Append(f, r))
BY DEF Extends

LEMMA FileStepExtends ==
  ASSUME FileInv, NEW t \in Thread, LibraryStep(t) \/ ApplicationStep(t)
  PROVE  \A p \in Proc : Extends(file[p], file'[p])
<1> DEFINE p == proc[t]
<1>0. /\ file \in [Proc -> Seq(Record)]
      /\ call \in [Thread -> Call]
      /\ pc[t] # "unused" =>
           p \in Proc /\ ThreadAt(t, pc[t], mem[p], file[p], names[p], exiter[p])
  BY HereLemma DEF FileInv, MutexInv, TypeInv, TypeOK
<1> USE <1>0 DEF procVars, outVars
<1>1. ASSUME UNCHANGED file PROVE \A q \in Proc : Extends(file[q], file'[q])
  BY <1>1, ExtendsLemma
<1>2. ASSUME pc[t] \in {"create", "child"}, file' = [file EXCEPT ![p] = <<>>]
      PROVE  \A q \in Proc : Extends(file[q], file'[q])
  <2>1. p \in Proc /\ file[p] = <<>>
    BY <1>2 DEF ThreadAt, FirstAt, Early
  <2>2. \A q \in Proc : file'[q] = file[q] \/ (file[q] = <<>> /\ file'[q] = <<>>)
    BY <1>2, <2>1
  <2>3. QED
    BY <2>2, ExtendsLemma
<1>3. ASSUME NEW r \in Record, file' = [file EXCEPT ![p] = Append(@, r)]
      PROVE  \A q \in Proc : Extends(file[q], file'[q])
  <2>1. \A q \in Proc : file'[q] = file[q] \/ file'[q] = Append(file[q], r)
    BY <1>3
  <2>2. QED
    BY <2>1, ExtendsLemma
<1>4. CASE CreateWriter(t)
  BY <1>2, <1>4 DEF CreateWriter
<1>5. CASE ChildRenew(t)
  BY <1>2, <1>5 DEF ChildRenew
<1>6. CASE WriteFakeFree(t)
  <2>1. [type |-> FREE, by |-> t, fake |-> TRUE, stack |-> <<>>, ids |-> <<>>] \in Record
    <3>1. <<>> \in Seq(Ip) /\ <<>> \in Seq(Nat)
      OBVIOUS
    <3>2. QED
      BY <3>1 DEF Record
  <2>2. QED
    BY <1>3, <1>6, <2>1 DEF WriteFakeFree
<1>7. CASE WriteRecord(t)
  <2>1. [type |-> call[t].op, by |-> t, fake |-> FALSE,
         stack |-> call[t].stack, ids |-> call[t].ids] \in Record
    BY DEF Record, Call
  <2>2. QED
    BY <1>3, <1>7, <2>1 DEF WriteRecord
<1>8. \/ CreateWriter(t) \/ ChildRenew(t) \/ WriteFakeFree(t) \/ WriteRecord(t)
      \/ UNCHANGED file
  BY DEF LibraryStep, HookStep, ForkStep, ExitStep, ApplicationStep,
         Skip, Acquire, AbortFull, Unwind, Release, WriteThrows, FreeThrows,
         PrepAcquire, ParentAcquire, ChildAcquire, SpinAcquire, PrepClose, Fork,
         ForkFails, ParentReopen, ChildAtexit, EnterHandler, DumpTables, DeleteWriter,
         Exit, UseDeleted, HookEnter, SetCapture, Spawn, BeginFork, BeginExit
<1>9. QED
  BY <1>1, <1>4, <1>5, <1>6, <1>7, <1>8

(* No step takes a record out of an output file: the writer of a process   *)
(* is created, and that of a child renewed, while its file is empty, and   *)
(* reopening the file in the parent and exiting keep what was written.  In *)
(* a program without threads the writer that a child deletes is closed.    *)
THEOREM NoRecordLeaves == Spec => FileGrows
<1> DEFINE Grows ==
      /\ \A p \in Proc :
           /\ Len(file[p]) <= Len(file'[p])
           /\ \A i \in DOMAIN file[p] : file'[p][i] = file[p][i]
      /\ ~Threaded => \A t \in Thread : pc[t] = "child" => mem[proc[t]].writer = "closed"
<1>1. FileInv /\ [Next]_vars => [Grows]_vars
  <2> SUFFICES ASSUME FileInv, [Next]_vars, ~UNCHANGED vars PROVE Grows
    OBVIOUS
  <2>1. \A p \in Proc : Extends(file[p], file'[p])
    BY FileStepExtends DEF Next, Finished
  <2>2. ASSUME ~Threaded, NEW t \in Thread, pc[t] = "child"
        PROVE  mem[proc[t]].writer = "closed"
    BY <2>2, HereLemma DEF ThreadAt, SoloAt
  <2>3. QED
    BY <2>1, <2>2 DEF Extends
<1> HIDE DEF Grows
<1>2. Spec => [][Grows]_vars
  BY FileInvariant, <1>1, PTL DEF Spec
<1>3. QED
  BY <1>2 DEF FileGrows, Grows

-----------------------------------------------------------------------------
(* The lookup table *)

DumpInv == TableInv /\ FileInv /\ TableComplete

(* A step of a program without threads writes to no file that has a table. *)
LEMMA DumpStep ==
  ASSUME DumpInv, NEW t \in Thread, LibraryStep(t) \/ ApplicationStep(t)
  PROVE  TableComplete'
<1> SUFFICES ASSUME ~Threaded, NEW q \in Proc, names'[q] # None, NEW i \in DOMAIN file'[q]
             PROVE  Resolves(file'[q][i], names'[q])
  BY DEF TableComplete
<1> DEFINE p == proc[t]
<1>0. /\ file \in [Proc -> Seq(Record)] /\ names \in [Proc -> Seq(Ip) \cup {None}]
      /\ pc[t] # "unused" =>
           p \in Proc /\ ThreadAt(t, pc[t], mem[p], file[p], names[p], exiter[p])
  BY HereLemma DEF DumpInv, FileInv, MutexInv, TypeInv, TypeOK
<1> USE <1>0 DEF procVars, outVars
<1>1. CASE DumpTables(t)
  <2>1. p \in Proc /\ file' = file /\ names' = [names EXCEPT ![p] = mem[p].symNames]
    BY <1>1 DEF DumpTables
  <2>2. CASE q = p
    BY <2>1, <2>2 DEF DumpInv, TableInv, Tables, RecordsResolve
  <2>3. CASE q # p
    BY <2>1, <2>3 DEF DumpInv, TableComplete
  <2>4. QED
    BY <2>2, <2>3
<1>2. CASE file' = file /\ names' = names
  BY <1>2 DEF DumpInv, TableComplete
<1>3. CASE (CreateWriter(t) \/ ChildRenew(t)) /\ names' = names
  <2>1. p \in Proc /\ file' = [file EXCEPT ![p] = <<>>]
    BY <1>3 DEF CreateWriter, ChildRenew
  <2>2. q # p
    BY <2>1
  <2>3. QED
    BY <1>3, <2>1, <2>2 DEF DumpInv, TableComplete
<1>4. CASE WriteFakeFree(t) \/ WriteRecord(t)
  <2>1. /\ pc[t] \in {"unwind", "write"} /\ mem[p].writer = "open"
        /\ \A r \in Proc : r # p => file'[r] = file[r]
        /\ names' = names
    BY <1>4 DEF WriteFakeFree, WriteRecord, Unwound
  <2>2. names[p] = None
    BY <2>1 DEF ThreadAt, ExitAt
  <2>3. QED
    BY <2>1, <2>2 DEF DumpInv, TableComplete
<1>5. \/ DumpTables(t)
      \/ file' = file /\ names' = names
      \/ (CreateWriter(t) \/ ChildRenew(t)) /\ names' = names
      \/ WriteFakeFree(t) \/ WriteRecord(t)
  BY DEF LibraryStep, HookStep, ForkStep, ExitStep, ApplicationStep, CreateWriter,
         Skip, Acquire, AbortFull, Unwind, Release, WriteThrows, FreeThrows, ChildRenew,
         PrepAcquire, ParentAcquire, ChildAcquire, SpinAcquire, PrepClose, Fork,
         ForkFails, ParentReopen, ChildAtexit, EnterHandler, DeleteWriter,
         Exit, UseDeleted, HookEnter, SetCapture, Spawn, BeginFork, BeginExit
<1>6. QED
  BY <1>1, <1>2, <1>3, <1>4, <1>5

(* In a program without threads the lookup table that the exit handler     *)
(* writes resolves every record of the output file beside it: the handler  *)
(* copies the names when the last record is written.                       *)
THEOREM TablesAreComplete ==
  ASSUME IndexFits PROVE Spec => []TableComplete
<1>1. Init => DumpInv
  <2>1. Init => TableComplete
    BY DEF Init, TableComplete
  <2>2. QED
    BY <2>1, TableInit, FileInit DEF DumpInv
<1>2. DumpInv /\ [Next]_vars => DumpInv'
  <2> SUFFICES ASSUME DumpInv, [Next]_vars PROVE DumpInv'
    OBVIOUS
  <2>1. TableInv' /\ FileInv'
    BY IndexFits, TableStep, FileStep DEF DumpInv
  <2>2. CASE UNCHANGED vars
    BY <2>1, <2>2 DEF DumpInv, TableComplete, vars, procVars, outVars
  <2>3. CASE ~UNCHANGED vars
    BY <2>1, <2>3, DumpStep DEF Next, Finished, DumpInv
  <2>4. QED
    BY <2>2, <2>3
<1>3. DumpInv => TableComplete
  BY DEF DumpInv
<1>4. QED
  BY <1>1, <1>2, <1>3, PTL DEF Spec

================================================================================
