---------------------------- MODULE MonitorProofs ----------------------------
(***************************************************************************)
(* Monitor, proved for heaps of any size, any number of snapshots and any  *)
(* depth to which signals nest them.                                       *)
(***************************************************************************)
EXTENDS Monitor, NaturalsInduction, WellFoundedInduction, FiniteSetTheorems,
        SequenceTheorems, TLAPS

-----------------------------------------------------------------------------
(* Sequences *)

LEMMA ReplaceLemma ==
  ASSUME NEW S, NEW f \in Seq(S), NEW k \in 1 .. Len(f), NEW r \in S
  PROVE  LET g == [f EXCEPT ![k] = r]
         IN /\ g \in Seq(S) /\ Len(g) = Len(f) /\ g[k] = r
            /\ \A j \in 1 .. Len(f) : j # k => g[j] = f[j]
OBVIOUS

LEMMA AppendLemma ==
  ASSUME NEW S, NEW f \in Seq(S), NEW r \in S
  PROVE  LET g == Append(f, r)
         IN /\ g \in Seq(S) /\ Len(g) = Len(f) + 1 /\ g[Len(f) + 1] = r
            /\ \A j \in 1 .. Len(f) : g[j] = f[j]
OBVIOUS

LEMMA FrontLemma ==
  ASSUME NEW S, NEW f \in Seq(S), f # <<>>
  PROVE  /\ Front(f) \in Seq(S) /\ Len(Front(f)) = Len(f) - 1
         /\ \A j \in 1 .. Len(f) - 1 : Front(f)[j] = f[j]
<1>1. Len(f) \in Nat /\ Len(f) > 0
  OBVIOUS
<1>2. Front(f) = SubSeq(f, 1, Len(f) - 1)
  BY DEF Front
<1> DEFINE n == Len(f) - 1
<1>3. n \in Nat /\ \A j \in 1 .. n : f[j] \in S
  BY <1>1
<1>4. /\ SubSeq(f, 1, n) \in Seq(S) /\ Len(SubSeq(f, 1, n)) = n
      /\ \A j \in 1 .. n : SubSeq(f, 1, n)[j] = f[j]
  <2> HIDE DEF n
  <2>1. /\ SubSeq(f, 1, n) \in Seq(S)
        /\ Len(SubSeq(f, 1, n)) = IF 1 <= n THEN n - 1 + 1 ELSE 0
        /\ \A j \in 1 .. n - 1 + 1 : SubSeq(f, 1, n)[j] = f[1 + j - 1]
    <3>1. 1 \in Int /\ n \in Int
      BY <1>3
    <3>2. QED
      BY <1>3, <3>1, SubSeqProperties
  <2>2. n - 1 + 1 = n /\ \A j \in 1 .. n : 1 + j - 1 = j
    BY <1>3
  <2>3. Len(SubSeq(f, 1, n)) = n
    BY <1>3, <2>1, <2>2
  <2>4. QED
    BY <2>1, <2>2, <2>3
<1>5. QED
  BY <1>2, <1>4

\* A prefix that grows by the next element stays a prefix.
LEMMA PrefixLemma ==
  ASSUME NEW S, NEW h \in Seq(S), NEW r \in Seq(S),
         r = SubSeq(h, 1, Len(r)), Len(r) + 1 <= Len(h)
  PROVE  /\ Append(r, h[Len(r) + 1]) = SubSeq(h, 1, Len(Append(r, h[Len(r) + 1])))
<1>1. Append(r, h[Len(r) + 1]) = SubSeq(h, 1, Len(r) + 1)
  OBVIOUS
<1>2. Len(Append(r, h[Len(r) + 1])) = Len(r) + 1
  OBVIOUS
<1>3. QED
  BY <1>1, <1>2

-----------------------------------------------------------------------------
(* The invariant *)

Frame ==
  [pc : {"freeze", "maps", "pages", "thaw"}, echo : {"none", "FROZEN", "THAWED"},
   late : BOOLEAN, killSwitch : BOOLEAN, file : Int, pages : Nat, alone : BOOLEAN]

MonitorType ==
  /\ heap \in Seq(Statuses)
  /\ frames \in Seq(Frame)
  /\ iteration \in Int
  /\ files \in [DOMAIN files -> Seq(Statuses)]
  /\ \A d \in 1 .. Len(frames) :
       frames[d].pc = "pages" => frames[d].file \in DOMAIN files

Lone == Len(frames) = 1 /\ Top.alone

Held == freezer = "FROZEN" /\ Top.echo = "none"

\* A call that no handler has interrupted has the program frozen from when it
\* has seen that until it has read the pages; while it does that, the script
\* can be ended by an exception only.
Snapshots ==
  /\ \A d \in 1 .. Len(frames) - 1 : ~frames[d].alone
  /\ Lone /\ Top.pc = "maps" /\ monitor = "running" => Held
  /\ Lone /\ Top.pc = "pages" =>
       /\ Held /\ monitor \in {"running", "crashed"}
       /\ files[Top.file] = SubSeq(heap, 1, Len(files[Top.file]))

Upto(n) == [k \in 1 .. n |-> k]

\* At an interval snapshots do not nest.  The one in progress has the number
\* of the iteration, and a file of that number once it has found a heap.
Counts ==
  interval =>
    /\ Len(frames) <= 1
    /\ iteration \in Nat
    /\ frames = <<>> => outputFiles = Upto(iteration) /\ DOMAIN files = 1 .. iteration
    /\ frames # <<>> =>
         /\ iteration > 0
         /\ outputFiles = Upto(iteration - 1)
         /\ Top.file = 0 => DOMAIN files = 1 .. iteration - 1
         /\ Top.file # 0 => Top.file = iteration /\ DOMAIN files = 1 .. iteration
         /\ Top.pc \in {"freeze", "maps"} => Top.file = 0
         /\ Top.pc = "pages" => Top.file # 0

MonitorInv == MonitorType /\ Snapshots /\ Counts

LEMMA InitInv == Init => MonitorInv
<1> SUFFICES ASSUME Init PROVE MonitorInv
  OBVIOUS
<1>1. heap \in Seq(Statuses)
  <2>1. PICK n \in 0 .. MaxPages : heap \in [1 .. n -> Statuses]
    BY DEF Init, Heaps
  <2>2. n \in Nat
    BY MonitorAssumption
  <2> HIDE DEF Statuses
  <2>3. QED
    BY <2>1, <2>2
<1>2. /\ frames = <<>> /\ frames \in Seq(Frame) /\ Len(frames) = 0
      /\ iteration = 0 /\ DOMAIN files = {}
      /\ files \in [DOMAIN files -> Seq(Statuses)]
  BY DEF Init
<1>3. MonitorType
  BY <1>1, <1>2 DEF MonitorType
<1>4. Snapshots
  BY <1>2 DEF Snapshots, Lone
<1>5. Counts
  <2>1. outputFiles = Upto(0) /\ 1 .. 0 = {}
    BY DEF Init, Upto
  <2>2. QED
    BY <1>2, <2>1 DEF Counts
<1>6. QED
  BY <1>3, <1>4, <1>5 DEF MonitorInv

-----------------------------------------------------------------------------
(* The innermost frame *)

LEMMA TopLemma ==
  ASSUME MonitorType, frames # <<>>
  PROVE  /\ Len(frames) \in Nat /\ Len(frames) > 0 /\ Len(frames) \in 1 .. Len(frames)
         /\ Top = frames[Len(frames)] /\ Top \in Frame
<1>1. frames \in Seq(Frame)
  BY DEF MonitorType
<1> HIDE DEF Frame
<1>2. QED
  BY <1>1 DEF Top

\* What a change of the innermost frame leaves.
Changed(r) == frames' = [frames EXCEPT ![Len(frames)] = r]

LEMMA ChangedLemma ==
  ASSUME MonitorType, frames # <<>>, NEW r \in Frame, Changed(r)
  PROVE  /\ frames' \in Seq(Frame) /\ Len(frames') = Len(frames) /\ frames' # <<>>
         /\ Top' = r
         /\ \A j \in 1 .. Len(frames) : j # Len(frames) => frames'[j] = frames[j]
<1>1. frames \in Seq(Frame) /\ Len(frames) \in 1 .. Len(frames) /\ Len(frames) > 0
  BY TopLemma DEF MonitorType
<1> HIDE DEF Frame
<1>2. QED
  BY <1>1, ReplaceLemma DEF Changed, Top

Went(pc) == [Top EXCEPT !.pc = pc]
Called(pc, echo, retried) ==
  [Top EXCEPT !.pc = pc, !.echo = echo, !.killSwitch = retried]

LEMMA GotoLemma ==
  ASSUME MonitorType, frames # <<>>, NEW pc \in {"freeze", "maps", "pages", "thaw"}
  PROVE  /\ Went(pc) \in Frame /\ Went(pc).pc = pc
         /\ Went(pc).echo = Top.echo /\ Went(pc).file = Top.file
         /\ Went(pc).alone = Top.alone
         /\ Goto(pc) => Changed(Went(pc))
<1>1. Top \in Frame
  BY TopLemma
<1>2. Goto(pc) => Changed(Went(pc))
  BY TopLemma DEF Goto, Changed, Went, Top, MonitorType
<1>3. /\ Went(pc) \in Frame /\ Went(pc).pc = pc
      /\ Went(pc).echo = Top.echo /\ Went(pc).file = Top.file
  BY <1>1 DEF Went, Frame
<1>4. Went(pc).alone = Top.alone
  BY <1>1 DEF Went, Frame
<1>5. QED
  BY <1>2, <1>3, <1>4

LEMMA CallLemma ==
  ASSUME MonitorType, frames # <<>>, NEW pc \in {"freeze", "maps", "pages", "thaw"},
         NEW echo \in {"none", "FROZEN", "THAWED"}, NEW retried \in BOOLEAN
  PROVE  /\ Called(pc, echo, retried) \in Frame /\ Called(pc, echo, retried).pc = pc
         /\ Called(pc, echo, retried).file = Top.file
         /\ Called(pc, echo, retried).alone = Top.alone
         /\ Call(pc, echo, retried) => Changed(Called(pc, echo, retried))
<1>1. Top \in Frame
  BY TopLemma
<1>2. Call(pc, echo, retried) => Changed(Called(pc, echo, retried))
  BY TopLemma DEF Call, Changed, Called, Top, MonitorType
<1>3. /\ Called(pc, echo, retried) \in Frame /\ Called(pc, echo, retried).pc = pc
      /\ Called(pc, echo, retried).file = Top.file
  BY <1>1 DEF Called, Frame
<1>4. Called(pc, echo, retried).alone = Top.alone
  BY <1>1 DEF Called, Frame
<1>5. QED
  BY <1>2, <1>3, <1>4

-----------------------------------------------------------------------------
(* The shells, the kernel and the program *)

\* A shell writes only while its call waits; time passes for a call.  Neither
\* changes anything else of a frame.
LEMMA OtherFieldsLemma ==
  ASSUME MonitorType, NEW d \in DOMAIN frames, Echo(d) \/ TimePasses(d)
  PROVE  /\ frames' \in Seq(Frame) /\ Len(frames') = Len(frames)
         /\ \A k \in 1 .. Len(frames) :
              /\ frames'[k].pc = frames[k].pc /\ frames'[k].file = frames[k].file
              /\ frames'[k].alone = frames[k].alone
              /\ TimePasses(d) => frames'[k].echo = frames[k].echo
<1>1. frames \in Seq(Frame) /\ d \in 1 .. Len(frames)
  BY DEF MonitorType
<1>2. \A k \in 1 .. Len(frames) : frames[k] \in Frame
  BY <1>1
<1>3. CASE Echo(d)
  <2> DEFINE r == [frames[d] EXCEPT !.echo = "none"]
  <2>1. /\ r \in Frame /\ r.pc = frames[d].pc /\ r.file = frames[d].file
    BY <1>1, <1>2 DEF Frame
  <2>2. r.alone = frames[d].alone
    BY <1>1, <1>2 DEF Frame
  <2>3. frames' = [frames EXCEPT ![d] = r] /\ frames[d].echo # "none"
    BY <1>1, <1>3 DEF Echo
  <2> HIDE DEF r, Frame
  <2>4. /\ frames' \in Seq(Frame) /\ Len(frames') = Len(frames) /\ frames'[d] = r
        /\ \A j \in 1 .. Len(frames) : j # d => frames'[j] = frames[j]
    BY <1>1, <2>1, <2>3, ReplaceLemma
  <2>5. ~TimePasses(d)
    <3>1. ASSUME TimePasses(d) PROVE FALSE
      <4>1. frames' = [k \in DOMAIN frames |-> [frames[k] EXCEPT !.late = @ \/ k <= d]]
        BY <3>1 DEF TimePasses
      <4>2. [frames[d] EXCEPT !.late = @ \/ d <= d].echo = frames[d].echo
        BY <1>1, <1>2 DEF Frame
      <4>3. frames'[d].echo = frames[d].echo
        BY <1>1, <4>1, <4>2
      <4>4. r.echo = "none"
        BY <1>1, <1>2 DEF r, Frame
      <4>5. QED
        BY <2>3, <2>4, <4>3, <4>4
    <3>2. QED
      BY <3>1
  <2>6. QED
    BY <2>1, <2>2, <2>4, <2>5
<1>4. CASE TimePasses(d)
  <2>1. frames' = [k \in DOMAIN frames |-> [frames[k] EXCEPT !.late = @ \/ k <= d]]
    BY <1>4 DEF TimePasses
  <2>2. DOMAIN frames = 1 .. Len(frames)
    BY <1>1
  <2>3. ASSUME NEW k \in 1 .. Len(frames)
        PROVE  /\ frames'[k] \in Frame /\ frames'[k].pc = frames[k].pc
               /\ frames'[k].file = frames[k].file /\ frames'[k].echo = frames[k].echo
    <3>1. frames'[k] = [frames[k] EXCEPT !.late = frames[k].late \/ k <= d]
      BY <2>1, <2>2
    <3>2. (frames[k].late \/ k <= d) \in BOOLEAN
      OBVIOUS
    <3> DEFINE v == frames[k].late \/ k <= d
    <3> HIDE DEF v
    <3>3. v \in BOOLEAN /\ frames'[k] = [frames[k] EXCEPT !.late = v]
      BY <3>1, <3>2 DEF v
    <3>4. QED
      BY <1>2, <3>3 DEF Frame
  <2>4. ASSUME NEW k \in 1 .. Len(frames) PROVE frames'[k].alone = frames[k].alone
    <3>1. frames'[k] = [frames[k] EXCEPT !.late = frames[k].late \/ k <= d]
      BY <2>1, <2>2
    <3> DEFINE v == frames[k].late \/ k <= d
    <3>2. frames'[k] = [frames[k] EXCEPT !.late = v]
      BY <3>1
    <3> HIDE DEF v
    <3>3. QED
      BY <1>2, <3>2 DEF Frame
  <2>5. frames' \in Seq(Frame) /\ Len(frames') = Len(frames)
    <3>1. DOMAIN frames' = 1 .. Len(frames) /\ Len(frames) \in Nat
      BY <1>1, <2>1, <2>2
    <3>2. frames' = [k \in 1 .. Len(frames) |-> frames'[k]]
      BY <2>1, <2>2
    <3> HIDE DEF Frame
    <3>3. frames' \in [1 .. Len(frames) -> Frame]
      BY <2>3, <3>2
    <3>4. QED
      BY <3>1, <3>3
  <2>6. QED
    BY <2>3, <2>4, <2>5
<1>5. QED
  BY <1>3, <1>4

LEMMA OthersInv ==
  ASSUME MonitorInv, NEW d \in DOMAIN frames, Echo(d) \/ TimePasses(d)
  PROVE  MonitorInv'
<1>1. /\ frames' \in Seq(Frame) /\ Len(frames') = Len(frames)
      /\ \A k \in 1 .. Len(frames) :
           /\ frames'[k].pc = frames[k].pc /\ frames'[k].file = frames[k].file
           /\ frames'[k].alone = frames[k].alone
           /\ TimePasses(d) => frames'[k].echo = frames[k].echo
  BY OtherFieldsLemma DEF MonitorInv
<1>2. /\ frames \in Seq(Frame) /\ d \in 1 .. Len(frames) /\ frames # <<>> /\ frames' # <<>>
      /\ Len(frames) \in Nat /\ Len(frames) > 0
  <2> HIDE DEF Frame
  <2>1. QED
    BY <1>1 DEF MonitorInv, MonitorType
<1>3. /\ Top = frames[Len(frames)] /\ Top' = frames'[Len(frames)]
      /\ Len(frames) \in 1 .. Len(frames)
  BY <1>1, <1>2 DEF Top
<1>4. /\ Top'.pc = Top.pc /\ Top'.file = Top.file /\ Top'.alone = Top.alone
      /\ TimePasses(d) => Top'.echo = Top.echo
  BY <1>1, <1>3
<1>5. /\ heap' = heap /\ interval' = interval /\ iteration' = iteration
      /\ files' = files /\ outputFiles' = outputFiles /\ monitor' = monitor
      /\ TimePasses(d) => freezer' = freezer
  BY DEF Echo, TimePasses, environment
<1>6. MonitorType'
  BY <1>1, <1>2, <1>5 DEF MonitorInv, MonitorType
<1>7. Counts'
  BY <1>1, <1>2, <1>4, <1>5 DEF MonitorInv, Counts
<1>8. Snapshots'
  <2>1. \A k \in 1 .. Len(frames') - 1 : ~frames'[k].alone
    BY <1>1, <1>2 DEF MonitorInv, Snapshots
  <2>2. Lone' => Lone
    BY <1>1, <1>4 DEF Lone
  <2>3. CASE TimePasses(d)
    BY <1>4, <1>5, <2>1, <2>2, <2>3 DEF MonitorInv, Snapshots, Held
  <2>4. CASE Echo(d)
    <3>1. ASSUME Lone PROVE Top.echo # "none"
      BY <1>2, <1>3, <2>4, <3>1 DEF Lone, Echo
    <3>2. QED
      BY <1>4, <1>5, <2>1, <2>2, <3>1 DEF MonitorInv, Snapshots, Held
  <2>5. QED
    BY <2>3, <2>4
<1>9. QED
  BY <1>6, <1>7, <1>8 DEF MonitorInv

\* The kernel and the program leave the script alone; a frozen program does
\* not change.
LEMMA EnvironmentInv ==
  ASSUME MonitorInv, Freeze \/ Touch \/ End
  PROVE  MonitorInv'
<1>1. /\ frames' = frames /\ iteration' = iteration /\ files' = files
      /\ outputFiles' = outputFiles /\ monitor' = monitor /\ interval' = interval
      /\ Top' = Top
  BY DEF Freeze, Touch, End, environment, Top
<1>2. heap' \in Seq(Statuses)
  <2>1. heap \in Seq(Statuses)
    BY DEF MonitorInv, MonitorType
  <2>2. CASE Freeze
    BY <2>1, <2>2 DEF Freeze, environment
  <2>3. CASE End
    BY <2>3 DEF End
  <2>4. CASE Touch
    <3> HIDE DEF Statuses
    <3>1. PICK s \in Statuses :
            \/ \E k \in DOMAIN heap : heap' = [heap EXCEPT ![k] = s]
            \/ heap' = Append(heap, s)
      BY <2>4 DEF Touch
    <3>2. CASE heap' = Append(heap, s)
      BY <2>1, <3>2
    <3>3. CASE \E k \in DOMAIN heap : heap' = [heap EXCEPT ![k] = s]
      <4>1. PICK k \in DOMAIN heap : heap' = [heap EXCEPT ![k] = s]
        BY <3>3
      <4>2. k \in 1 .. Len(heap)
        BY <2>1
      <4>3. QED
        BY <2>1, <4>1, <4>2, ReplaceLemma
    <3>4. QED
      BY <3>1, <3>2, <3>3
  <2>5. QED
    BY <2>2, <2>3, <2>4
<1>3. MonitorType' /\ Counts'
  BY <1>1, <1>2 DEF MonitorInv, MonitorType, Counts
<1>4. \/ freezer # "FROZEN"
      \/ freezer' = freezer /\ heap' = heap
  BY DEF Freeze, Touch, End
<1>5. Snapshots'
  BY <1>1, <1>4 DEF MonitorInv, Snapshots, Lone, Held
<1>6. QED
  BY <1>3, <1>5 DEF MonitorInv

-----------------------------------------------------------------------------
(* The calls of getSnapshot *)

NewFrame ==
  [pc |-> "freeze", echo |-> "FROZEN", late |-> FALSE, killSwitch |-> FALSE,
   file |-> 0, pages |-> 0, alone |-> TRUE]

LEMMA GetSnapshotInv ==
  ASSUME MonitorInv, GetSnapshot, interval => frames = <<>>
  PROVE  MonitorInv'
<1> DEFINE lower == [d \in DOMAIN frames |-> [frames[d] EXCEPT !.alone = FALSE]]
           n == Len(frames)
<1>1. frames \in Seq(Frame) /\ n \in Nat /\ DOMAIN frames = 1 .. n
      /\ \A k \in 1 .. n : frames[k] \in Frame
  <2>1. frames \in Seq(Frame)
    BY DEF MonitorInv, MonitorType
  <2> HIDE DEF Frame
  <2>2. QED
    BY <2>1
<1>2. ASSUME NEW k \in 1 .. n
      PROVE  /\ lower[k] \in Frame /\ lower[k].pc = frames[k].pc
             /\ lower[k].file = frames[k].file /\ lower[k].alone = FALSE
  <2>1. lower[k] = [frames[k] EXCEPT !.alone = FALSE]
    BY <1>1
  <2>2. /\ [frames[k] EXCEPT !.alone = FALSE] \in Frame
        /\ [frames[k] EXCEPT !.alone = FALSE].pc = frames[k].pc
        /\ [frames[k] EXCEPT !.alone = FALSE].file = frames[k].file
    BY <1>1 DEF Frame
  <2>3. [frames[k] EXCEPT !.alone = FALSE].alone = FALSE
    BY <1>1 DEF Frame
  <2>4. QED
    BY <2>1, <2>2, <2>3
<1>3. lower \in Seq(Frame) /\ Len(lower) = n
  <2>1. lower = [k \in 1 .. n |-> lower[k]]
    BY <1>1
  <2> HIDE DEF Frame, lower
  <2>2. lower \in [1 .. n -> Frame]
    BY <1>2, <2>1
  <2>3. QED
    BY <1>1, <2>2
<1>4. /\ NewFrame \in Frame /\ NewFrame.pc = "freeze" /\ NewFrame.file = 0
  BY DEF NewFrame, Frame
<1>5. frames' = Append(lower, NewFrame)
  BY DEF GetSnapshot, NewFrame
<1> HIDE DEF lower, Frame, NewFrame
<1>6. /\ frames' \in Seq(Frame) /\ Len(frames') = n + 1 /\ frames'[n + 1] = NewFrame
      /\ \A k \in 1 .. n : frames'[k] = lower[k]
  BY <1>3, <1>4, <1>5, AppendLemma
<1>7. Top' = NewFrame /\ frames' # <<>>
  BY <1>1, <1>6 DEF Top
<1>8. /\ heap' = heap /\ interval' = interval /\ iteration' = iteration + 1
      /\ files' = files /\ outputFiles' = outputFiles
  BY DEF GetSnapshot
<1>9. MonitorType'
  <2>1. ASSUME NEW k \in 1 .. n + 1, frames'[k].pc = "pages"
        PROVE  frames'[k].file \in DOMAIN files
    <3>1. k # n + 1
      BY <1>4, <1>6, <2>1
    <3>2. k \in 1 .. n
      BY <1>1, <3>1
    <3>3. frames[k].pc = "pages" /\ frames'[k].file = frames[k].file
      BY <1>2, <1>6, <2>1, <3>2
    <3>4. QED
      BY <3>2, <3>3 DEF MonitorInv, MonitorType
  <2>2. QED
    BY <1>6, <1>8, <2>1 DEF MonitorInv, MonitorType
<1>10. Snapshots'
  <2>1. \A k \in 1 .. Len(frames') - 1 : ~frames'[k].alone
    <3>1. Len(frames') - 1 = n
      BY <1>1, <1>6
    <3>2. QED
      BY <1>2, <1>6, <3>1
  <2>2. QED
    BY <1>4, <1>7, <2>1 DEF Snapshots
<1>11. Counts'
  <2>1. CASE ~interval
    BY <1>8, <2>1 DEF Counts
  <2>2. CASE interval
    <3>1. /\ frames = <<>> /\ n = 0 /\ iteration \in Nat
          /\ outputFiles = Upto(iteration) /\ DOMAIN files = 1 .. iteration
      BY <2>2 DEF MonitorInv, Counts
    <3>2. /\ iteration' \in Nat /\ iteration' > 0 /\ iteration' - 1 = iteration
          /\ Len(frames') <= 1
      BY <1>6, <1>8, <3>1
    <3>3. outputFiles' = Upto(iteration' - 1) /\ DOMAIN files' = 1 .. iteration' - 1
      BY <1>8, <3>1, <3>2
    <3>4. QED
      BY <1>4, <1>7, <3>2, <3>3 DEF Counts
  <2>3. QED
    BY <2>1, <2>2
<1>12. QED
  BY <1>9, <1>10, <1>11 DEF MonitorInv

\* The innermost frame goes on to a state in which nothing is read.
LEMMA TopInv ==
  ASSUME MonitorInv, frames # <<>>, NEW r \in Frame, Changed(r),
         r.file = Top.file, r.alone = Top.alone, r.pc # "pages",
         r.pc = "maps" => freezer' = "FROZEN" /\ r.echo = "none",
         r.pc \in {"freeze", "maps"} => Top.pc \in {"freeze", "maps"},
         UNCHANGED <<heap, interval, iteration, files, outputFiles>>
  PROVE  MonitorInv'
<1>1. /\ frames' \in Seq(Frame) /\ Len(frames') = Len(frames) /\ frames' # <<>>
      /\ Top' = r
      /\ \A j \in 1 .. Len(frames) : j # Len(frames) => frames'[j] = frames[j]
  BY ChangedLemma DEF MonitorInv
<1>2. /\ Len(frames) \in Nat /\ Len(frames) > 0 /\ Len(frames) \in 1 .. Len(frames)
      /\ frames'[Len(frames)] = r
  <2>1. Len(frames) \in Nat /\ Len(frames) > 0 /\ Len(frames) \in 1 .. Len(frames)
    BY TopLemma DEF MonitorInv
  <2>2. QED
    BY <1>1, <2>1 DEF Top
<1>3. MonitorType'
  <2>1. ASSUME NEW k \in 1 .. Len(frames), frames'[k].pc = "pages"
        PROVE  frames'[k].file \in DOMAIN files
    <3>1. frames'[k] = frames[k]
      BY <1>1, <1>2, <2>1
    <3>2. QED
      BY <2>1, <3>1 DEF MonitorInv, MonitorType
  <2>2. QED
    BY <1>1, <2>1 DEF MonitorInv, MonitorType
<1>4. Snapshots'
  <2>1. \A k \in 1 .. Len(frames') - 1 : ~frames'[k].alone
    <3>1. ASSUME NEW k \in 1 .. Len(frames) - 1 PROVE ~frames'[k].alone
      <4>1. k \in 1 .. Len(frames) /\ k # Len(frames)
        BY <1>2
      <4>2. QED
        BY <1>1, <4>1 DEF MonitorInv, Snapshots
    <3>2. QED
      BY <1>1, <3>1
  <2>2. QED
    BY <1>1, <2>1 DEF Snapshots, Held
<1>5. Counts'
  BY <1>1 DEF MonitorInv, Counts
<1>6. QED
  BY <1>3, <1>4, <1>5 DEF MonitorInv

LEMMA AwaitFrozenInv ==
  ASSUME MonitorInv, AwaitFrozen
  PROVE  MonitorInv'
<1>1. /\ frames # <<>> /\ Top.pc = "freeze" /\ Top.echo = "none" /\ monitor = "running"
      /\ freezer' = freezer /\ UNCHANGED <<heap, interval>>
  BY DEF AwaitFrozen, Running, environment
<1>2. CASE Frozen
  BY <1>1, <1>2, TopInv, GotoLemma DEF Frozen, MonitorInv
<1>3. CASE Retry("freeze", "FROZEN")
  BY <1>1, <1>3, TopInv, CallLemma DEF Retry, MonitorInv
<1>4. CASE NoStateFile \/ GiveUp
  <2>1. frames' = frames /\ Top' = Top /\ UNCHANGED <<iteration, files, outputFiles>>
    BY <1>4 DEF NoStateFile, GiveUp, Top
  <2>2. MonitorType' /\ Counts'
    BY <1>1, <2>1 DEF MonitorInv, MonitorType, Counts
  <2>3. Snapshots'
    BY <1>1, <2>1 DEF MonitorInv, Snapshots
  <2>4. QED
    BY <2>2, <2>3 DEF MonitorInv
<1>5. QED
  BY <1>2, <1>3, <1>4 DEF AwaitFrozen

\* The frame of a call that has found a heap.
Reading ==
  [Top EXCEPT !.pc = "pages", !.file = iteration, !.pages = Len(heap)]

LEMMA ReadMapsInv ==
  ASSUME MonitorInv, ReadMaps
  PROVE  MonitorInv'
<1>1. /\ frames # <<>> /\ Top.pc = "maps" /\ Top.echo = "none" /\ monitor = "running"
      /\ UNCHANGED <<heap, interval, freezer, iteration, outputFiles, monitor>>
      /\ MonitorType
  BY DEF ReadMaps, Running, environment, MonitorInv
<1>2. Top \in Frame
  BY <1>1, TopLemma
<1>3. CASE heap = <<>>
  <2>1. Call("thaw", "THAWED", Top.killSwitch) /\ files' = files
    BY <1>3 DEF ReadMaps
  <2>2. Top.killSwitch \in BOOLEAN
    BY <1>2 DEF Frame
  <2>3. QED
    BY <1>1, <2>1, <2>2, TopInv, CallLemma
<1>4. CASE heap # <<>>
  <2>1. /\ files' = [n \in DOMAIN files \cup {iteration} |->
                       IF n = iteration THEN <<>> ELSE files[n]]
        /\ frames' = [frames EXCEPT ![Len(frames)].pc = "pages",
                                    ![Len(frames)].file = iteration,
                                    ![Len(frames)].pages = Len(heap)]
    BY <1>4 DEF ReadMaps
  <2>2. iteration \in Int /\ heap \in Seq(Statuses) /\ Len(heap) \in Nat
    <3> HIDE DEF Statuses
    <3>1. QED
      BY <1>1 DEF MonitorType
  <2>3. /\ Reading \in Frame /\ Reading.pc = "pages" /\ Reading.echo = "none"
        /\ Reading.file = iteration
    BY <1>1, <1>2, <2>2 DEF Reading, Frame
  <2>4. Reading.alone = Top.alone
    BY <1>2, <2>2 DEF Reading, Frame
  <2>5. Changed(Reading)
    BY <1>1, <2>1, TopLemma DEF Changed, Reading, Top, MonitorType
  <2>6. /\ frames' \in Seq(Frame) /\ Len(frames') = Len(frames) /\ frames' # <<>>
        /\ Top' = Reading
        /\ \A j \in 1 .. Len(frames) : j # Len(frames) => frames'[j] = frames[j]
    BY <1>1, <2>3, <2>5, ChangedLemma
  <2>7. /\ Len(frames) \in Nat /\ Len(frames) > 0 /\ Len(frames) \in 1 .. Len(frames)
        /\ frames'[Len(frames)] = Reading
    <3>1. Len(frames) \in Nat /\ Len(frames) > 0 /\ Len(frames) \in 1 .. Len(frames)
      BY <1>1, TopLemma
    <3>2. QED
      BY <2>6, <3>1 DEF Top
  <2>8. /\ DOMAIN files' = DOMAIN files \cup {iteration} /\ files'[iteration] = <<>>
        /\ files' \in [DOMAIN files' -> Seq(Statuses)]
    <3> HIDE DEF Statuses
    <3>1. \A n \in DOMAIN files : files[n] \in Seq(Statuses)
      BY <1>1 DEF MonitorType
    <3>2. QED
      BY <2>1, <3>1
  <2>9. MonitorType'
    <3>1. ASSUME NEW k \in 1 .. Len(frames), frames'[k].pc = "pages"
          PROVE  frames'[k].file \in DOMAIN files'
      <4>1. CASE k = Len(frames)
        BY <2>3, <2>7, <2>8, <4>1
      <4>2. CASE k # Len(frames)
        BY <1>1, <2>6, <2>8, <3>1, <4>2 DEF MonitorType
      <4>3. QED
        BY <4>1, <4>2
    <3>2. QED
      BY <1>1, <2>2, <2>6, <2>8, <3>1 DEF MonitorType
  <2>10. Snapshots'
    <3>1. \A k \in 1 .. Len(frames') - 1 : ~frames'[k].alone
      <4>1. ASSUME NEW k \in 1 .. Len(frames) - 1 PROVE ~frames'[k].alone
        <5>1. k \in 1 .. Len(frames) /\ k # Len(frames)
          BY <2>7
        <5>2. QED
          BY <2>6, <5>1 DEF MonitorInv, Snapshots
      <4>2. QED
        BY <2>6, <4>1
    <3>2. Lone' => freezer' = "FROZEN"
      <4>1. Lone' => Lone
        BY <2>4, <2>6 DEF Lone
      <4>2. Lone => freezer = "FROZEN"
        BY <1>1 DEF MonitorInv, Snapshots, Held
      <4>3. QED
        BY <1>1, <4>1, <4>2
    <3>3. files'[Top'.file] = SubSeq(heap', 1, Len(files'[Top'.file]))
      <4>1. files'[Top'.file] = <<>> /\ Len(files'[Top'.file]) = 0
        BY <2>3, <2>6, <2>8
      <4>2. SubSeq(heap', 1, 0) = <<>>
        BY SubSeqEmpty
      <4>3. QED
        BY <4>1, <4>2
    <3>4. QED
      BY <1>1, <2>3, <2>6, <3>1, <3>2, <3>3 DEF Snapshots, Held
  <2>11. Counts'
    <3>1. CASE ~interval
      BY <1>1, <3>1 DEF Counts
    <3>2. CASE interval
      <4>1. /\ Len(frames) <= 1 /\ iteration \in Nat /\ iteration > 0
            /\ outputFiles = Upto(iteration - 1)
            /\ DOMAIN files = 1 .. iteration - 1
        BY <1>1, <3>2 DEF MonitorInv, Counts
      <4>2. DOMAIN files' = 1 .. iteration
        BY <2>8, <4>1
      <4>3. QED
        BY <1>1, <2>3, <2>6, <4>1, <4>2 DEF Counts
    <3>3. QED
      BY <3>1, <3>2
  <2>12. QED
    BY <2>9, <2>10, <2>11 DEF MonitorInv
<1>5. QED
  BY <1>3, <1>4

LEMMA AnalyzeInv ==
  ASSUME MonitorInv, Analyze
  PROVE  MonitorInv'
<1> DEFINE read == files[Top.file]
           k == Len(read) + 1
<1>1. /\ frames # <<>> /\ Top.pc = "pages" /\ Top.echo = "none" /\ monitor = "running"
      /\ UNCHANGED <<heap, interval, freezer, iteration, outputFiles>>
      /\ MonitorType
  BY DEF Analyze, Running, environment, MonitorInv
<1>2. Top \in Frame /\ Top = frames[Len(frames)] /\ Len(frames) \in 1 .. Len(frames)
  BY <1>1, TopLemma
<1>3. Top.file \in DOMAIN files /\ heap \in Seq(Statuses)
  BY <1>1, <1>2 DEF MonitorType
<1>4. read \in Seq(Statuses)
  <2> HIDE DEF Statuses
  <2>1. QED
    BY <1>1, <1>3 DEF MonitorType
<1>5. CASE /\ k <= Len(heap)
           /\ files' = [files EXCEPT ![Top.file] = Append(read, heap[k])]
           /\ UNCHANGED <<frames, monitor>>
  <2> DEFINE more == Append(read, heap[k])
  <2>1. more \in Seq(Statuses)
    <3> HIDE DEF Statuses
    <3>1. k \in 1 .. Len(heap)
      <4> HIDE DEF read
      <4>1. QED
        BY <1>3, <1>4, <1>5
    <3>2. QED
      BY <1>3, <1>4, <3>1
  <2>2. Top' = Top /\ frames' = frames
    BY <1>5 DEF Top
  <2> HIDE DEF Statuses
  <2>3. /\ DOMAIN files' = DOMAIN files /\ files'[Top.file] = more
        /\ files' \in [DOMAIN files' -> Seq(Statuses)]
    <3> HIDE DEF more
    <3>1. files' = [files EXCEPT ![Top.file] = more]
      BY <1>5 DEF more
    <3>2. QED
      BY <1>1, <1>3, <2>1, <3>1 DEF MonitorType
  <2>4. MonitorType' /\ Counts'
    BY <1>1, <2>2, <2>3 DEF MonitorInv, MonitorType, Counts
  <2>5. read = SubSeq(heap, 1, Len(read)) => more = SubSeq(heap, 1, Len(more))
    <3> HIDE DEF read
    <3>1. Len(read) + 1 <= Len(heap)
      BY <1>5
    <3>2. QED
      BY <1>3, <1>4, <3>1, PrefixLemma
  <2>6. Snapshots'
    <3> HIDE DEF more
    <3>1. Lone' => Lone
      BY <2>2 DEF Lone
    <3>2. QED
      BY <1>1, <1>5, <2>2, <2>3, <2>5, <3>1 DEF MonitorInv, Snapshots, Held
  <2>7. QED
    BY <2>4, <2>6 DEF MonitorInv
<1>6. CASE monitor' = "crashed" /\ UNCHANGED <<frames, files>>
  <2>1. Top' = Top
    BY <1>6 DEF Top
  <2>2. MonitorType' /\ Counts'
    BY <1>1, <1>6, <2>1 DEF MonitorInv, MonitorType, Counts
  <2>3. Snapshots'
    BY <1>1, <1>6, <2>1 DEF MonitorInv, Snapshots, Lone, Held
  <2>4. QED
    BY <2>2, <2>3 DEF MonitorInv
<1>7. CASE Call("thaw", "THAWED", Top.killSwitch) /\ files' = files
  <2>1. Top.killSwitch \in BOOLEAN
    BY <1>2 DEF Frame
  <2>2. QED
    BY <1>1, <1>7, <2>1, TopInv, CallLemma
<1>8. QED
  BY <1>5, <1>6, <1>7 DEF Analyze

\* The innermost call ends.
LEMMA AwaitThawedInv ==
  ASSUME MonitorInv, AwaitThawed
  PROVE  MonitorInv'
<1>1. /\ frames # <<>> /\ Top.pc = "thaw" /\ Top.echo = "none" /\ monitor = "running"
      /\ UNCHANGED <<heap, interval, freezer>>
      /\ MonitorType
  BY DEF AwaitThawed, Running, environment, MonitorInv
<1>2. CASE Retry("thaw", "THAWED")
  BY <1>1, <1>2, TopInv, CallLemma DEF Retry
<1>3. CASE GiveUp
  <2>1. frames' = frames /\ Top' = Top /\ UNCHANGED <<iteration, files, outputFiles>>
    BY <1>3 DEF GiveUp, Top
  <2>2. MonitorType' /\ Counts'
    BY <1>1, <2>1 DEF MonitorInv, MonitorType, Counts
  <2>3. Snapshots'
    BY <1>1, <2>1 DEF MonitorInv, Snapshots
  <2>4. QED
    BY <2>2, <2>3 DEF MonitorInv
<1>4. CASE frames' = Front(frames) /\ Count /\ UNCHANGED <<files, monitor>>
  <2>1. /\ frames \in Seq(Frame) /\ Top = frames[Len(frames)]
        /\ Len(frames) \in Nat /\ Len(frames) > 0
    BY <1>1, TopLemma DEF MonitorType
  <2>2. /\ frames' \in Seq(Frame) /\ Len(frames') = Len(frames) - 1
        /\ \A j \in 1 .. Len(frames) - 1 : frames'[j] = frames[j]
    <3> HIDE DEF Frame
    <3>1. QED
      BY <1>1, <1>4, <2>1, FrontLemma
  <2>3. MonitorType'
    <3>1. iteration' \in Int
      BY <1>1, <1>4 DEF Count, MonitorType
    <3>2. ASSUME NEW j \in 1 .. Len(frames) - 1, frames'[j].pc = "pages"
          PROVE  frames'[j].file \in DOMAIN files
      <4>1. j \in 1 .. Len(frames)
        BY <2>1
      <4>2. QED
        BY <1>1, <2>2, <3>2, <4>1 DEF MonitorType
    <3>3. QED
      BY <1>1, <1>4, <2>2, <3>1, <3>2 DEF MonitorType
  <2>4. \A j \in 1 .. Len(frames) - 1 : ~frames'[j].alone
    BY <2>2 DEF MonitorInv, Snapshots
  <2>5. Snapshots'
    <3>1. \A j \in 1 .. Len(frames') - 1 : ~frames'[j].alone
      BY <2>1, <2>2, <2>4
    <3>2. ~Lone'
      <4>1. ASSUME Len(frames') = 1 PROVE ~Top'.alone
        <5>1. Top' = frames'[1]
          BY <4>1 DEF Top
        <5>2. 1 \in 1 .. Len(frames) - 1
          BY <2>1, <2>2, <4>1
        <5>3. QED
          BY <2>4, <5>1, <5>2
      <4>2. QED
        BY <4>1 DEF Lone
    <3>3. QED
      BY <3>1, <3>2 DEF Snapshots
  <2>6. Counts'
    <3>1. CASE ~interval
      BY <1>1, <3>1 DEF Counts
    <3>2. CASE interval
      <4>1. /\ Len(frames) = 1 /\ iteration \in Nat /\ iteration > 0
            /\ outputFiles = Upto(iteration - 1)
            /\ Top.file = 0 => DOMAIN files = 1 .. iteration - 1
            /\ Top.file # 0 => DOMAIN files = 1 .. iteration
        <5>1. Len(frames) = 1
          <6>1. Len(frames) <= 1
            BY <3>2 DEF MonitorInv, Counts
          <6>2. Len(frames) \in Nat /\ Len(frames) > 0
            BY <2>1
          <6>3. QED
            BY <6>1, <6>2
        <5>2. QED
          BY <1>1, <3>2, <5>1 DEF MonitorInv, Counts
      <4>2. Len(frames') = 0 /\ frames' = <<>>
        <5>1. Len(frames') = 0
          BY <2>2, <4>1
        <5> HIDE DEF Frame
        <5>2. QED
          BY <2>2, <5>1, EmptySeq
      <4>3. CASE Top.file = 0
        <5>1. iteration' = iteration - 1 /\ outputFiles' = outputFiles
          BY <1>4, <4>3 DEF Count
        <5>2. QED
          BY <1>4, <4>1, <4>2, <4>3, <5>1 DEF Counts
      <4>4. CASE Top.file # 0
        <5>1. iteration' = iteration /\ outputFiles' = Append(outputFiles, iteration)
          BY <1>4, <4>4 DEF Count
        <5>2. outputFiles' = Upto(iteration)
          <6>1. /\ Append(Upto(iteration - 1), iteration) = Upto(iteration)
            BY <4>1 DEF Upto
          <6>2. QED
            BY <4>1, <5>1, <6>1
        <5>3. QED
          BY <1>4, <4>1, <4>2, <4>4, <5>1, <5>2 DEF Counts
      <4>5. QED
        BY <4>3, <4>4
    <3>3. QED
      BY <3>1, <3>2
  <2>7. QED
    BY <2>3, <2>5, <2>6 DEF MonitorInv
<1>5. QED
  BY <1>2, <1>3, <1>4 DEF AwaitThawed

-----------------------------------------------------------------------------
(* The loops and the handlers *)

\* No handler runs while the pages are read.
LEMMA HandlersInv ==
  ASSUME MonitorInv,
         \/ LoopEnds \/ Summary \/ SignalHandlerSIGINT
         \/ (SignalSIGUSR /\ ~GetSnapshot)
         \/ SignalSIGINT
  PROVE  MonitorInv'
<1>1. /\ frames' = frames /\ Top' = Top /\ interval' = interval /\ heap' = heap
      /\ files' = files /\ outputFiles' = outputFiles
      /\ iteration' = iteration \/ (~interval /\ iteration' = iteration + 1)
  BY DEF LoopEnds, Summary, SignalHandlerSIGINT, SignalSIGUSR, SignalSIGINT,
         environment, Top
<1>2. \/ frames = <<>>
      \/ monitor # "running" /\ monitor' # "running" /\ monitor # "crashed"
      \/ Top.pc # "pages" /\ monitor' # "running"
  BY DEF LoopEnds, Summary, SignalHandlerSIGINT, SignalSIGUSR, SignalSIGINT,
         Interruptible
<1>3. MonitorType'
  BY <1>1 DEF MonitorInv, MonitorType
<1>4. Counts'
  BY <1>1 DEF MonitorInv, Counts
<1>5. Snapshots'
  BY <1>1, <1>2 DEF MonitorInv, Snapshots, Lone, Held
<1>6. QED
  BY <1>3, <1>4, <1>5 DEF MonitorInv

LEMMA StepInv == MonitorInv /\ [Next]_vars => MonitorInv'
<1> SUFFICES ASSUME MonitorInv, [Next]_vars PROVE MonitorInv'
  OBVIOUS
<1>1. ASSUME NEW d \in DOMAIN frames, Echo(d) \/ TimePasses(d) PROVE MonitorInv'
  BY <1>1, OthersInv
<1>2. CASE Freeze \/ Touch \/ End
  BY <1>2, EnvironmentInv
<1>3. CASE AwaitFrozen \/ ReadMaps \/ Analyze \/ AwaitThawed
  BY <1>3, AwaitFrozenInv, ReadMapsInv, AnalyzeInv, AwaitThawedInv
<1>4. CASE NextSnapshot \/ (SignalSIGUSR /\ GetSnapshot)
  BY <1>4, GetSnapshotInv DEF NextSnapshot, SignalSIGUSR
<1>5. CASE LoopEnds \/ Summary \/ SignalHandlerSIGINT \/ (SignalSIGUSR /\ ~GetSnapshot)
             \/ SignalSIGINT
  BY <1>5, HandlersInv
<1>6. CASE UNCHANGED vars
  <2>1. Top' = Top
    BY <1>6 DEF vars, Top
  <2>2. MonitorType' /\ Counts'
    BY <1>6, <2>1 DEF vars, MonitorInv, MonitorType, Counts
  <2>3. Snapshots'
    BY <1>6, <2>1 DEF vars, MonitorInv, Snapshots, Lone, Held
  <2>4. QED
    BY <2>2, <2>3 DEF MonitorInv
<1>7. QED
  BY <1>1, <1>2, <1>3, <1>4, <1>5, <1>6 DEF Next, Script

LEMMA InvHolds == Spec => []MonitorInv
BY InitInv, StepInv, PTL DEF Spec

-----------------------------------------------------------------------------
(* Counting in an order *)

\* R puts the set S in a total order.
InOrder(S, R) ==
  /\ \A k \in S : <<k, k>> \in R
  /\ \A j, k \in S : <<j, k>> \in R \/ <<k, j>> \in R
  /\ \A j, k \in S : <<j, k>> \in R /\ <<k, j>> \in R => j = k
  /\ \A j, k, l \in S : <<j, k>> \in R /\ <<k, l>> \in R => <<j, l>> \in R

\* The places of the elements in that order.
Ranked(S, R, rank) ==
  /\ rank \in [S -> 1 .. Cardinality(S)]
  /\ \A k \in S : rank[k] = Cardinality({j \in S : <<j, k>> \in R})
  /\ \A j, k \in S : j # k /\ <<j, k>> \in R => rank[j] < rank[k]
  /\ \A j, k \in S : rank[j] = rank[k] => j = k
  /\ \A n \in 1 .. Cardinality(S) : \E k \in S : rank[k] = n

LEMMA Ranks ==
  ASSUME NEW S, IsFiniteSet(S), NEW R, InOrder(S, R)
  PROVE  \E rank : Ranked(S, R, rank)
<1>0. PICK rank : rank = [k \in S |-> Cardinality({j \in S : <<j, k>> \in R})]
  OBVIOUS
<1> DEFINE upto(k) == {j \in S : <<j, k>> \in R}
<1>1. \A k \in S : rank[k] = Cardinality(upto(k))
  BY <1>0
<1>2. \A k \in S : upto(k) \subseteq S /\ k \in upto(k)
  BY DEF InOrder
<1>3. ASSUME NEW j \in S, NEW k \in S, j # k, <<j, k>> \in R
      PROVE  upto(j) \subseteq upto(k) \ {k}
  <2>1. SUFFICES ASSUME NEW l \in upto(j) PROVE l \in upto(k) \ {k}
    OBVIOUS
  <2>2. l \in S /\ <<l, j>> \in R
    OBVIOUS
  <2>3. <<l, k>> \in R /\ l # k
    BY <1>3, <2>2 DEF InOrder
  <2>4. QED
    BY <2>2, <2>3
<1> HIDE DEF upto
<1>4. Cardinality(S) \in Nat
  BY FS_CardinalityType
<1>5. \A k \in S : /\ IsFiniteSet(upto(k)) /\ Cardinality(upto(k)) \in Nat
                   /\ Cardinality(upto(k)) <= Cardinality(S)
                   /\ Cardinality(upto(k)) # 0
  BY <1>2, FS_Subset, FS_CardinalityType, FS_EmptySet
<1>6. rank \in [S -> 1 .. Cardinality(S)]
  <2>1. \A k \in S : rank[k] \in 1 .. Cardinality(S)
    BY <1>1, <1>4, <1>5
  <2>2. rank = [k \in S |-> rank[k]]
    BY <1>0
  <2>3. QED
    BY <2>1, <2>2
<1>7. ASSUME NEW j \in S, NEW k \in S, j # k, <<j, k>> \in R
      PROVE  rank[j] < rank[k]
  <2>1. IsFiniteSet(upto(k) \ {k}) /\ Cardinality(upto(k) \ {k}) = Cardinality(upto(k)) - 1
    BY <1>2, <1>5, FS_RemoveElement
  <2>2. Cardinality(upto(j)) <= Cardinality(upto(k) \ {k})
    BY <1>3, <1>7, <2>1, FS_Subset
  <2>3. QED
    BY <1>1, <1>5, <2>1, <2>2
<1>8. \A j, k \in S : rank[j] = rank[k] => j = k
  <2>1. SUFFICES ASSUME NEW j \in S, NEW k \in S, rank[j] = rank[k], j # k PROVE FALSE
    OBVIOUS
  <2>2. rank[j] \in Nat /\ rank[k] \in Nat
    BY <1>4, <1>6
  <2>3. rank[j] < rank[k] \/ rank[k] < rank[j]
    BY <1>7, <2>1 DEF InOrder
  <2>4. QED
    BY <2>1, <2>2, <2>3
<1>9. \A n \in 1 .. Cardinality(S) : \E k \in S : rank[k] = n
  <2>1. PICK N \in Nat : N = Cardinality(S)
    BY <1>4
  <2>2. IsFiniteSet(1 .. N) /\ Cardinality(1 .. N) = N
    BY FS_Interval
  <2>3. rank \in Injection(S, 1 .. N)
    BY <1>6, <1>8, <2>1 DEF Injection, IsInjective
  <2>4. rank \in Surjection(S, 1 .. N)
    BY <2>1, <2>2, <2>3, FS_Injection
  <2>5. QED
    BY <2>1, <2>4 DEF Surjection
<1>10. \A k \in S : rank[k] = Cardinality({j \in S : <<j, k>> \in R})
  BY <1>0
<1>11. QED
  BY <1>6, <1>7, <1>8, <1>9, <1>10 DEF Ranked

\* Nth counts the elements of a set in their order.
LEMMA NthLemma ==
  ASSUME NEW S, S \subseteq Nat, IsFiniteSet(S)
  PROVE  /\ Cardinality(S) \in Nat
         /\ \A n \in 1 .. Cardinality(S) :
              Nth(S, n) \in S /\ Cardinality({j \in S : j <= Nth(S, n)}) = n
         /\ \A k \in S : \E n \in 1 .. Cardinality(S) : Nth(S, n) = k
         /\ \A m, n \in 1 .. Cardinality(S) : m < n => Nth(S, m) < Nth(S, n)
<1>1. PICK R : R = {p \in S \X S : p[1] <= p[2]}
  OBVIOUS
<1>2. \A j, k \in S : <<j, k>> \in R <=> j <= k
  BY <1>1
<1>3. Cardinality(S) \in Nat
  BY FS_CardinalityType
<1>4. \A j, k \in S : j \in Nat /\ k \in Nat
  OBVIOUS
<1>5. InOrder(S, R)
  BY <1>2, <1>4 DEF InOrder
<1>6. PICK rank : Ranked(S, R, rank)
  BY <1>5, Ranks
<1>7. \A k \in S : rank[k] = Cardinality({j \in S : j <= k})
  <2>1. SUFFICES ASSUME NEW k \in S PROVE rank[k] = Cardinality({j \in S : j <= k})
    OBVIOUS
  <2>2. {j \in S : <<j, k>> \in R} = {j \in S : j <= k}
    BY <1>2
  <2>3. QED
    BY <1>6, <2>2 DEF Ranked
<1>8. ASSUME NEW k \in S PROVE Nth(S, rank[k]) = k
  <2>1. Nth(S, rank[k]) = CHOOSE l \in S : rank[l] = rank[k]
    BY <1>7 DEF Nth
  <2>2. QED
    BY <1>6, <2>1 DEF Ranked
<1>9. ASSUME NEW n \in 1 .. Cardinality(S)
      PROVE  Nth(S, n) \in S /\ rank[Nth(S, n)] = n
  <2>1. PICK k \in S : rank[k] = n
    BY <1>6 DEF Ranked
  <2>2. QED
    BY <1>8, <2>1
<1>10. ASSUME NEW m \in 1 .. Cardinality(S), NEW n \in 1 .. Cardinality(S), m < n
       PROVE  Nth(S, m) < Nth(S, n)
  <2>1. PICK a \in S, b \in S : a = Nth(S, m) /\ b = Nth(S, n)
    BY <1>9
  <2>2. rank[a] = m /\ rank[b] = n
    BY <1>9, <2>1
  <2>3. a # b /\ ~(b <= a)
    <3>1. a # b
      BY <1>10, <2>2
    <3>2. ASSUME b <= a PROVE FALSE
      <4>1. rank[b] < rank[a]
        BY <1>2, <1>6, <3>1, <3>2 DEF Ranked
      <4>2. QED
        BY <1>3, <1>10, <2>2, <4>1
    <3>3. QED
      BY <3>1, <3>2
  <2>4. QED
    BY <1>4, <2>1, <2>3
<1>11. \A k \in S : rank[k] \in 1 .. Cardinality(S)
  BY <1>6 DEF Ranked
<1>12. QED
  BY <1>3, <1>7, <1>8, <1>9, <1>10, <1>11

\* Of an interval it is the number that is as far from its begin.
LEMMA NthOfInterval ==
  ASSUME NEW a \in Nat, NEW b \in Nat, a <= b, NEW S, S = a + 1 .. b
  PROVE  /\ Cardinality(S) = b - a
         /\ \A n \in 1 .. b - a : Nth(S, n) = a + n
<1>1. S \subseteq Nat
  OBVIOUS
<1>2. IsFiniteSet(S) /\ Cardinality(S) = b - a
  <2>1. a + 1 \in Int /\ b \in Int
    OBVIOUS
  <2>2. /\ IsFiniteSet(S)
        /\ Cardinality(S) = IF a + 1 > b THEN 0 ELSE b - (a + 1) + 1
    BY <2>1, FS_Interval
  <2>3. QED
    BY <2>2
<1>3. ASSUME NEW n \in 1 .. b - a PROVE Nth(S, n) = a + n
  <2>1. PICK k \in S : k = Nth(S, n) /\ Cardinality({j \in S : j <= k}) = n
    BY <1>1, <1>2, <1>3, NthLemma
  <2>2. {j \in S : j <= k} = a + 1 .. k
    OBVIOUS
  <2>3. Cardinality(a + 1 .. k) = k - a
    <3>1. k \in Int /\ a + 1 \in Int /\ ~(a + 1 > k)
      OBVIOUS
    <3>2. Cardinality(a + 1 .. k) = k - (a + 1) + 1
      BY <3>1, FS_Interval
    <3>3. QED
      BY <3>1, <3>2
  <2>4. n = k - a
    BY <2>1, <2>2, <2>3
  <2>5. k \in Nat /\ n \in Nat
    BY <1>1
  <2>6. QED
    BY <2>1, <2>4, <2>5
<1>4. QED
  BY <1>2, <1>3

-----------------------------------------------------------------------------
(* The slices of a page list *)

LEMMA SlicesRight ==
  ASSUME NEW T, NEW pages \in Seq(T)
  PROVE  SlicesPages(pages)
<1>1. SUFFICES ASSUME NEW begin \in 0 .. Len(pages) + 2, NEW end \in 0 .. Len(pages) + 2,
                      begin <= end
               PROVE  LET a == ParseOutputFiles(pages, begin, end)
                          hi == IF end < Len(pages) THEN end ELSE Len(pages)
                      IN /\ Len(a.filled) = a.allocated
                         /\ a.filled = [n \in 1 .. Len(SubSeq(pages, begin + 1, hi)) |->
                                          <<begin + n, pages[begin + n]>>]
  BY DEF SlicesPages
<1>2. PICK N \in Nat : N = Len(pages) /\ DOMAIN pages = 1 .. N
  OBVIOUS
<1>3. begin \in Nat /\ end \in Nat /\ All \notin {begin, end}
  BY DEF All
<1> DEFINE hi == IF end < Len(pages) THEN end ELSE Len(pages)
           read == CASE All \in {begin, end} -> DOMAIN pages
                     [] All \notin {begin, end} /\ begin >= Len(pages) -> {}
                     [] OTHER -> {k \in DOMAIN pages : k - 1 >= begin /\ k - 1 < end}
<1>4. PICK a : a = ParseOutputFiles(pages, begin, end)
  OBVIOUS
<1>5. PICK S : S = read
  OBVIOUS
<1>6. /\ a.allocated = Rows(pages, begin, end)
      /\ a.filled = [n \in 1 .. Cardinality(S) |-> <<Nth(S, n), pages[Nth(S, n)]>>]
  BY <1>4, <1>5 DEF ParseOutputFiles
<1>7. CASE begin >= N
  <2>1. S = {}
    BY <1>2, <1>3, <1>5, <1>7
  <2>2. Cardinality(S) = 0
    BY <2>1, FS_EmptySet
  <2>3. a.filled = <<>> /\ Len(a.filled) = 0
    BY <1>6, <2>2
  <2>4. a.allocated = 0
    BY <1>2, <1>3, <1>6, <1>7 DEF Rows
  <2>5. hi = N
    BY <1>1, <1>2, <1>3, <1>7
  <2>6. Len(SubSeq(pages, begin + 1, N)) = 0
    BY <1>2, <1>3, <1>7
  <2>7. a.filled = [n \in 1 .. Len(SubSeq(pages, begin + 1, hi)) |->
                      <<begin + n, pages[begin + n]>>]
    <3> HIDE DEF hi
    <3>1. QED
      BY <2>3, <2>5, <2>6
  <2>8. QED
    BY <1>4, <2>3, <2>4, <2>7
<1>8. CASE begin < N
  <2>1. PICK h \in Nat : h = hi
    BY <1>2, <1>3
  <2>2. begin <= h /\ h <= N
    BY <1>1, <1>2, <1>3, <1>8, <2>1
  <2>3. S = begin + 1 .. h
    <3>1. S = {k \in 1 .. N : k - 1 >= begin /\ k - 1 < end}
      BY <1>2, <1>3, <1>5, <1>8
    <3>2. h = IF end < N THEN end ELSE N
      BY <1>2, <2>1
    <3>3. QED
      BY <1>3, <3>1, <3>2
  <2>4. Cardinality(S) = h - begin /\ \A n \in 1 .. h - begin : Nth(S, n) = begin + n
    BY <1>3, <2>2, <2>3, NthOfInterval
  <2>5. h - begin \in Nat
    BY <1>3, <2>2
  <2>6. a.filled = [n \in 1 .. h - begin |-> <<begin + n, pages[begin + n]>>]
    BY <1>6, <2>4
  <2>7. Len(a.filled) = h - begin
    BY <2>5, <2>6
  <2>8. a.allocated = h - begin
    <3>1. Rows(pages, begin, end) = IF end <= N THEN end - begin ELSE N - begin
      BY <1>2, <1>3, <1>8 DEF Rows
    <3>2. QED
      BY <1>2, <1>3, <1>6, <2>1, <3>1
  <2>9. Len(SubSeq(pages, begin + 1, h)) = h - begin
    BY <1>2, <1>3, <2>2
  <2>10. a.filled = [n \in 1 .. Len(SubSeq(pages, begin + 1, hi)) |->
                       <<begin + n, pages[begin + n]>>]
    <3> HIDE DEF hi
    <3>1. QED
      BY <2>1, <2>6, <2>9
  <2>11. QED
    BY <1>4, <2>7, <2>8, <2>10
<1>9. QED
  BY <1>2, <1>3, <1>7, <1>8

-----------------------------------------------------------------------------
(* The regions of a page list *)

\* The least of a set of numbers, for the inductions below.
LEMMA LeastNat ==
  ASSUME NEW S, S \subseteq Nat, S # {}
  PROVE  \E x \in S : \A y \in S : x <= y
<1> DEFINE R == OpToRel(<, Nat)
<1>1. PICK x \in S : \A y \in S : ~(<<y, x>> \in R)
  <2>1. IsWellFoundedOn(R, Nat)
    BY NatLessThanWellFounded
  <2> HIDE DEF R
  <2>2. QED
    BY <2>1, WFMin
<1>2. ASSUME NEW y \in S PROVE x <= y
  <2>1. x \in Nat /\ y \in Nat
    OBVIOUS
  <2>2. y < x => <<y, x>> \in R
    BY <2>1 DEF OpToRel
  <2> HIDE DEF R
  <2>3. ~(y < x)
    BY <1>1, <2>2
  <2>4. QED
    BY <2>1, <2>3
<1>3. QED
  BY <1>2

-----------------------------------------------------------------------------
(* The loop of MergePages *)

Reg == [pBegin : Nat, pEnd : Nat, size : Nat, flags : Statuses]

\* The regions up to page k: one after the other, each of one status and the
\* next of another, the first with address 0.
Chain(all, pages, k) ==
  /\ all \in Seq(Reg) /\ all # <<>>
  /\ all[1].pBegin = 0 /\ all[1].flags = NotLoaded /\ all[Len(all)].pEnd = k
  /\ \A n \in 1 .. Len(all) :
       /\ all[n].pBegin <= all[n].pEnd
       /\ n > 1 => all[n].pBegin > 0 /\ all[n].size = all[n].pEnd - all[n].pBegin + 1
       /\ \A j \in 1 .. k :
            all[n].pBegin <= j /\ j <= all[n].pEnd => pages[j] = all[n].flags
  /\ \A n \in 1 .. Len(all) - 1 :
       all[n + 1].pBegin = all[n].pEnd + 1 /\ all[n + 1].flags # all[n].flags
  /\ \A m, n \in 1 .. Len(all) : m < n => all[m].pEnd < all[n].pBegin
  /\ \A j \in 1 .. k : \E n \in 1 .. Len(all) : all[n].pBegin <= j /\ j <= all[n].pEnd

LEMMA ChainBegins ==
  ASSUME NEW pages
  PROVE  Chain(<<NoRegion>>, pages, 0)
<1>1. NoRegion \in Reg /\ NoRegion.pBegin = 0 /\ NoRegion.pEnd = 0
      /\ NoRegion.flags = NotLoaded
  BY DEF NoRegion, Region, Reg, Statuses
<1> HIDE DEF NoRegion
<1>2. <<NoRegion>> \in Seq(Reg) /\ Len(<<NoRegion>>) = 1 /\ <<NoRegion>>[1] = NoRegion
  BY <1>1
<1>3. QED
  BY <1>1, <1>2 DEF Chain

\* A line with another status.
LEMMA ChainOpens ==
  ASSUME NEW pages \in Seq(Statuses), NEW k \in Nat, k + 1 <= Len(pages),
         NEW all, Chain(all, pages, k), pages[k + 1] # all[Len(all)].flags
  PROVE  Chain(Append(all, Region(k + 1, k + 1, 1, pages[k + 1])), pages, k + 1)
<1>1. PICK L \in Nat \ {0} : L = Len(all) /\ all \in Seq(Reg)
  BY DEF Chain
<1>2. PICK r : r = Region(k + 1, k + 1, 1, pages[k + 1])
  OBVIOUS
<1>3. /\ r \in Reg /\ r.pBegin = k + 1 /\ r.pEnd = k + 1 /\ r.size = 1
      /\ r.flags = pages[k + 1]
  <2>1. pages[k + 1] \in Statuses
    <3> HIDE DEF Statuses
    <3>1. QED
      OBVIOUS
  <2>2. QED
    BY <1>2, <2>1 DEF Region, Reg
<1>4. PICK b : b = Append(all, r)
  OBVIOUS
<1>5. /\ b \in Seq(Reg) /\ Len(b) = L + 1 /\ b[L + 1] = r
      /\ \A n \in 1 .. L : b[n] = all[n]
  <2> HIDE DEF Reg
  <2>1. QED
    BY <1>1, <1>3, <1>4
<1>6. /\ \A n \in 1 .. L : /\ all[n].pBegin \in Nat /\ all[n].pEnd \in Nat
                           /\ all[n].pEnd <= k
      /\ all[L].pEnd = k
  <2>1. \A n \in 1 .. L : all[n] \in Reg
    <3> HIDE DEF Reg
    <3>1. QED
      BY <1>1
  <2>2. \A n \in 1 .. L : all[n].pBegin \in Nat /\ all[n].pEnd \in Nat
    BY <2>1 DEF Reg
  <2>3. all[L].pEnd = k
    BY <1>1 DEF Chain
  <2>4. ASSUME NEW n \in 1 .. L PROVE all[n].pEnd <= k
    <3>1. CASE n = L
      BY <2>3, <3>1
    <3>2. CASE n # L
      <4>1. all[n].pEnd < all[L].pBegin /\ all[L].pBegin <= all[L].pEnd
        BY <1>1, <3>2 DEF Chain
      <4>2. QED
        BY <1>1, <2>2, <2>3, <4>1
    <3>3. QED
      BY <3>1, <3>2
  <2>5. QED
    BY <2>2, <2>3, <2>4
<1>7. b[1].pBegin = 0 /\ b[1].flags = NotLoaded /\ b[Len(b)].pEnd = k + 1
  BY <1>1, <1>3, <1>5 DEF Chain
<1>8. ASSUME NEW n \in 1 .. Len(b)
      PROVE  /\ b[n].pBegin <= b[n].pEnd
             /\ n > 1 => b[n].pBegin > 0 /\ b[n].size = b[n].pEnd - b[n].pBegin + 1
             /\ \A j \in 1 .. k + 1 :
                  b[n].pBegin <= j /\ j <= b[n].pEnd => pages[j] = b[n].flags
  <2>1. CASE n = L + 1
    <3>1. b[n] = r
      BY <1>5, <2>1
    <3>2. \A j \in 1 .. k + 1 : k + 1 <= j => j = k + 1
      OBVIOUS
    <3>3. b[n].pBegin <= b[n].pEnd /\ b[n].size = b[n].pEnd - b[n].pBegin + 1
      BY <1>3, <3>1
    <3>4. b[n].pBegin > 0
      BY <1>3, <3>1
    <3>5. \A j \in 1 .. k + 1 : b[n].pBegin <= j => pages[j] = b[n].flags
      BY <1>3, <3>1, <3>2
    <3>6. QED
      BY <3>3, <3>4, <3>5
  <2>2. CASE n # L + 1
    <3>1. n \in 1 .. L /\ b[n] = all[n]
      BY <1>5, <2>2
    <3>2. ASSUME NEW j \in 1 .. k + 1, all[n].pBegin <= j, j <= all[n].pEnd
          PROVE  pages[j] = all[n].flags
      <4>1. j \in 1 .. k
        BY <1>6, <3>1, <3>2
      <4>2. QED
        BY <1>1, <3>1, <3>2, <4>1 DEF Chain
    <3>3. QED
      BY <1>1, <3>1, <3>2 DEF Chain
  <2>3. QED
    BY <2>1, <2>2
<1>9. ASSUME NEW n \in 1 .. Len(b) - 1
      PROVE  b[n + 1].pBegin = b[n].pEnd + 1 /\ b[n + 1].flags # b[n].flags
  <2>1. CASE n = L
    BY <1>1, <1>3, <1>5, <1>6, <2>1
  <2>2. CASE n # L
    <3>1. n \in 1 .. Len(all) - 1 /\ b[n] = all[n] /\ b[n + 1] = all[n + 1]
      BY <1>1, <1>5, <2>2
    <3>2. QED
      BY <3>1 DEF Chain
  <2>3. QED
    BY <2>1, <2>2
<1>10. ASSUME NEW m \in 1 .. Len(b), NEW n \in 1 .. Len(b), m < n
       PROVE  b[m].pEnd < b[n].pBegin
  <2>1. m \in 1 .. L
    BY <1>5, <1>10
  <2>2. CASE n = L + 1
    BY <1>3, <1>5, <1>6, <2>1, <2>2
  <2>3. CASE n # L + 1
    <3>1. n \in 1 .. L /\ b[n] = all[n] /\ b[m] = all[m]
      BY <1>5, <2>1, <2>3
    <3>2. QED
      BY <1>1, <1>10, <2>1, <3>1 DEF Chain
  <2>4. QED
    BY <2>2, <2>3
<1>11. ASSUME NEW j \in 1 .. k + 1
       PROVE  \E n \in 1 .. Len(b) : b[n].pBegin <= j /\ j <= b[n].pEnd
  <2>1. CASE j = k + 1
    BY <1>3, <1>5, <2>1
  <2>2. CASE j # k + 1
    <3>1. j \in 1 .. k
      BY <2>2
    <3>2. PICK n \in 1 .. L : all[n].pBegin <= j /\ j <= all[n].pEnd
      BY <1>1, <3>1 DEF Chain
    <3>3. n \in 1 .. Len(b) /\ b[n] = all[n]
      BY <1>5
    <3>4. QED
      BY <3>2, <3>3
  <2>3. QED
    BY <2>1, <2>2
<1>12. b # <<>>
  BY <1>5
<1>13. Chain(b, pages, k + 1)
  BY <1>5, <1>7, <1>8, <1>9, <1>10, <1>11, <1>12 DEF Chain
<1>14. QED
  BY <1>2, <1>4, <1>13

\* A line with the status of the open region.
LEMMA ChainGoesOn ==
  ASSUME NEW pages \in Seq(Statuses), NEW k \in Nat, k + 1 <= Len(pages),
         NEW all, Chain(all, pages, k), pages[k + 1] = all[Len(all)].flags,
         NEW b \in Seq(Reg), Len(b) = Len(all),
         \A n \in 1 .. Len(all) - 1 : b[n] = all[n],
         b[Len(b)] = [all[Len(b)] EXCEPT !.pEnd = k + 1, !.size = @ + 1]
  PROVE  Chain(b, pages, k + 1)
<1>1. PICK L \in Nat \ {0} : L = Len(all) /\ L = Len(b) /\ all \in Seq(Reg)
  BY DEF Chain
<1>2. \A n \in 1 .. L : /\ all[n].pBegin \in Nat /\ all[n].pEnd \in Nat
                        /\ all[n].size \in Nat
  <2>1. \A n \in 1 .. L : all[n] \in Reg
    <3> HIDE DEF Reg
    <3>1. QED
      BY <1>1
  <2>2. QED
    BY <2>1 DEF Reg
<1>3. /\ b[L].pBegin = all[L].pBegin /\ b[L].pEnd = k + 1
      /\ b[L].size = all[L].size + 1 /\ b[L].flags = all[L].flags
      /\ \A n \in 1 .. L : n # L => b[n] = all[n]
  <2>1. all[L] \in Reg
    <3> HIDE DEF Reg
    <3>1. QED
      BY <1>1
  <2>2. b[L] = [all[L] EXCEPT !.pEnd = k + 1, !.size = @ + 1]
    BY <1>1
  <2>3. \A n \in 1 .. L : n # L => b[n] = all[n]
    BY <1>1
  <2>4. QED
    BY <2>1, <2>2, <2>3 DEF Reg
<1>4. all[L].pEnd = k /\ pages[k + 1] = all[L].flags
  BY <1>1 DEF Chain
<1>5. \A n \in 1 .. L : n # L => all[n].pEnd < all[L].pBegin
  BY <1>1 DEF Chain
<1>6. \A n \in 1 .. L : b[n].pBegin = all[n].pBegin /\ b[n].flags = all[n].flags
  BY <1>3
<1>7. b[1].pBegin = 0 /\ b[1].flags = NotLoaded /\ b[Len(b)].pEnd = k + 1
  <2>1. all[1].pBegin = 0 /\ all[1].flags = NotLoaded
    BY DEF Chain
  <2>2. QED
    BY <1>1, <1>3, <1>6, <2>1
<1>8. ASSUME NEW n \in 1 .. Len(b)
      PROVE  /\ b[n].pBegin <= b[n].pEnd
             /\ n > 1 => b[n].pBegin > 0 /\ b[n].size = b[n].pEnd - b[n].pBegin + 1
             /\ \A j \in 1 .. k + 1 :
                  b[n].pBegin <= j /\ j <= b[n].pEnd => pages[j] = b[n].flags
  <2>1. /\ all[n].pBegin <= all[n].pEnd
        /\ n > 1 => /\ all[n].pBegin > 0
                    /\ all[n].size = all[n].pEnd - all[n].pBegin + 1
        /\ \A j \in 1 .. k :
             all[n].pBegin <= j /\ j <= all[n].pEnd => pages[j] = all[n].flags
    BY <1>1 DEF Chain
  <2>2. CASE n = L
    <3>1. b[n].pBegin <= b[n].pEnd
      BY <1>1, <1>2, <1>3, <1>4, <2>1, <2>2
    <3>2. n > 1 => b[n].pBegin > 0 /\ b[n].size = b[n].pEnd - b[n].pBegin + 1
      BY <1>1, <1>2, <1>3, <1>4, <2>1, <2>2
    <3>3. ASSUME NEW j \in 1 .. k + 1, b[n].pBegin <= j PROVE pages[j] = b[n].flags
      <4>1. CASE j = k + 1
        BY <1>3, <1>4, <2>2, <4>1
      <4>2. CASE j # k + 1
        <5>1. j \in 1 .. k /\ j <= all[n].pEnd
          BY <1>4, <2>2, <4>2
        <5>2. QED
          BY <1>6, <2>1, <3>3, <5>1, <1>1
      <4>3. QED
        BY <4>1, <4>2
    <3>4. QED
      BY <3>1, <3>2, <3>3
  <2>3. CASE n # L
    <3>1. b[n] = all[n] /\ all[n].pEnd <= k
      <4>1. all[n].pEnd < all[L].pBegin /\ all[L].pBegin <= all[L].pEnd
        BY <1>1, <1>5, <2>3 DEF Chain
      <4>2. QED
        BY <1>1, <1>2, <1>3, <1>4, <2>3, <4>1
    <3>2. \A j \in 1 .. k + 1 : j <= all[n].pEnd => j \in 1 .. k
      BY <1>1, <1>2, <3>1
    <3>3. QED
      BY <2>1, <3>1, <3>2
  <2>4. QED
    BY <2>2, <2>3
<1>9. ASSUME NEW n \in 1 .. Len(b) - 1
      PROVE  b[n + 1].pBegin = b[n].pEnd + 1 /\ b[n + 1].flags # b[n].flags
  <2>1. n \in 1 .. Len(all) - 1 /\ b[n] = all[n] /\ n + 1 \in 1 .. L
    BY <1>1, <1>3
  <2>2. all[n + 1].pBegin = all[n].pEnd + 1 /\ all[n + 1].flags # all[n].flags
    BY <2>1 DEF Chain
  <2>3. QED
    BY <1>6, <2>1, <2>2
<1>10. ASSUME NEW m \in 1 .. Len(b), NEW n \in 1 .. Len(b), m < n
       PROVE  b[m].pEnd < b[n].pBegin
  <2>1. m \in 1 .. L /\ n \in 1 .. L /\ m # L
    BY <1>1, <1>10
  <2>2. all[m].pEnd < all[n].pBegin
    BY <1>1, <1>10, <2>1 DEF Chain
  <2>3. QED
    BY <1>3, <1>6, <2>1, <2>2
<1>11. ASSUME NEW j \in 1 .. k + 1
       PROVE  \E n \in 1 .. Len(b) : b[n].pBegin <= j /\ j <= b[n].pEnd
  <2>1. CASE j = k + 1
    <3>1. L \in 1 .. Len(b) /\ all[L].pBegin <= all[L].pEnd
      BY <1>1 DEF Chain
    <3>2. b[L].pBegin <= j /\ j <= b[L].pEnd
      BY <1>1, <1>2, <1>3, <1>4, <2>1, <3>1
    <3>3. QED
      BY <3>1, <3>2
  <2>2. CASE j # k + 1
    <3>1. j \in 1 .. k
      BY <2>2
    <3>2. PICK n \in 1 .. L : all[n].pBegin <= j /\ j <= all[n].pEnd
      BY <1>1, <3>1 DEF Chain
    <3>3. j <= b[n].pEnd
      BY <1>3, <3>2
    <3>4. QED
      BY <1>1, <1>6, <3>2, <3>3
  <2>3. QED
    BY <2>1, <2>2
<1>12. b # <<>>
  BY <1>1
<1>13. QED
  BY <1>1, <1>7, <1>8, <1>9, <1>10, <1>11, <1>12 DEF Chain

LineState == [closed : Seq(Reg), open : Reg]

\* What the loop has after line k.
LineRight(s, pages, k) ==
  s \in LineState /\ Chain(Append(s.closed, s.open), pages, k)

NoLine == [closed |-> <<>>, open |-> NoRegion]

LEMMA LineKeeps ==
  ASSUME NEW pages \in Seq(Statuses), NEW k \in Nat, k + 1 <= Len(pages),
         NEW s, LineRight(s, pages, k)
  PROVE  LineRight(Line(pages, s, k + 1), pages, k + 1)
<1>1. PICK c \in Seq(Reg), o \in Reg : c = s.closed /\ o = s.open
  BY DEF LineRight, LineState
<1>2. PICK all : all = Append(c, o)
  OBVIOUS
<1>3. /\ all \in Seq(Reg) /\ Len(all) = Len(c) + 1 /\ all[Len(all)] = o
      /\ Len(c) \in Nat /\ \A n \in 1 .. Len(c) : all[n] = c[n]
  <2> HIDE DEF Reg
  <2>1. QED
    BY <1>2
<1>4. Chain(all, pages, k)
  BY <1>1, <1>2 DEF LineRight
<1>5. pages[k + 1] \in Statuses
  <2> HIDE DEF Statuses
  <2>1. QED
    OBVIOUS
<1>6. PICK t : t = Line(pages, s, k + 1)
  OBVIOUS
<1>7. CASE pages[k + 1] # o.flags
  <2>1. PICK r : r = Region(k + 1, k + 1, 1, pages[k + 1])
    OBVIOUS
  <2>2. r \in Reg
    BY <1>5, <2>1 DEF Region, Reg
  <2>3. t = [closed |-> all, open |-> r]
    BY <1>1, <1>2, <1>6, <1>7, <2>1 DEF Line
  <2>4. t \in LineState /\ t.closed = all /\ t.open = r
    BY <1>3, <2>2, <2>3 DEF LineState
  <2>5. Chain(Append(all, r), pages, k + 1)
    BY <1>3, <1>4, <1>7, <2>1, ChainOpens
  <2>6. QED
    BY <1>6, <2>4, <2>5 DEF LineRight
<1>8. CASE pages[k + 1] = o.flags
  <2>1. PICK r : r = [o EXCEPT !.pEnd = k + 1, !.size = @ + 1]
    OBVIOUS
  <2>2. r \in Reg
    <3>1. o.size + 1 \in Nat /\ k + 1 \in Nat
      BY DEF Reg
    <3>2. r = [o EXCEPT !.pEnd = k + 1, !.size = o.size + 1]
      BY <2>1
    <3>3. QED
      BY <3>1, <3>2 DEF Reg
  <2>3. t \in LineState /\ t.closed = c /\ t.open = r
    <3>1. t = [s EXCEPT !.open.pEnd = k + 1, !.open.size = @ + 1]
      BY <1>1, <1>6, <1>8 DEF Line
    <3>2. s = [closed |-> c, open |-> o]
      BY <1>1 DEF LineRight, LineState
    <3>3. t = [closed |-> c, open |-> r]
      BY <2>1, <3>1, <3>2 DEF Reg
    <3>4. QED
      BY <2>2, <3>3 DEF LineState
  <2>4. PICK b : b = Append(c, r)
    OBVIOUS
  <2>5. /\ b \in Seq(Reg) /\ Len(b) = Len(all) /\ b[Len(b)] = r
        /\ \A n \in 1 .. Len(all) - 1 : b[n] = all[n]
    <3> HIDE DEF Reg
    <3>1. QED
      BY <1>3, <2>2, <2>4
  <2>6. b[Len(b)] = [all[Len(b)] EXCEPT !.pEnd = k + 1, !.size = @ + 1]
    BY <1>3, <2>1, <2>5
  <2>7. pages[k + 1] = all[Len(all)].flags
    BY <1>3, <1>8
  <2>8. Chain(b, pages, k + 1)
    BY <1>4, <2>5, <2>6, <2>7, ChainGoesOn
  <2>9. QED
    BY <1>6, <2>3, <2>4, <2>8 DEF LineRight
<1>9. QED
  BY <1>7, <1>8

\* line is the function of the loop, up to line m.
Loop(line, pages, m) ==
  line = [k \in 0 .. m |-> IF k = 0 THEN NoLine ELSE Line(pages, line[k - 1], k)]

LEMMA LoopExists ==
  ASSUME NEW pages, NEW m \in Nat
  PROVE  \E line : Loop(line, pages, m)
<1> DEFINE Bad == {k \in 0 .. m : ~\E line : Loop(line, pages, k)}
<1>1. ASSUME Bad # {} PROVE FALSE
  <2>0. Bad \subseteq Nat
    OBVIOUS
  <2>1. PICK k \in Bad : \A j \in Bad : k <= j
    <3> HIDE DEF Bad
    <3>1. QED
      BY <1>1, <2>0, LeastNat
  <2>2. k # 0
    <3>1. Loop([n \in 0 .. 0 |-> NoLine], pages, 0)
      BY DEF Loop
    <3>2. QED
      BY <3>1
  <2>3. k - 1 \in 0 .. m /\ k - 1 < k /\ k \in Nat
    BY <2>2
  <2>4. PICK s : Loop(s, pages, k - 1)
    BY <2>1, <2>3
  <2> DEFINE t == [n \in 0 .. k |-> IF n = k THEN Line(pages, s[k - 1], k) ELSE s[n]]
  <2>5. ASSUME NEW n \in 0 .. k
        PROVE  t[n] = IF n = 0 THEN NoLine ELSE Line(pages, t[n - 1], n)
    <3>1. CASE n = k
      BY <3>1, <2>2, <2>3
    <3>2. CASE n # k
      BY <3>2, <2>2, <2>3, <2>4 DEF Loop
    <3>3. QED
      BY <3>1, <3>2
  <2>6. Loop(t, pages, k)
    BY <2>5 DEF Loop
  <2>7. QED
    BY <2>6
<1>2. QED
  BY <1>1

LEMMA MergedIsChain ==
  ASSUME NEW pages \in Seq(Statuses)
  PROVE  Chain(AllRegions(pages), pages, Len(pages))
<1>1. PICK N \in Nat : N = Len(pages)
  OBVIOUS
<1>2. PICK line : line = CHOOSE l : Loop(l, pages, N)
  OBVIOUS
<1>3. Loop(line, pages, N)
  BY <1>2, LoopExists
<1>4. Merged(pages) = line[N]
  BY <1>1, <1>2 DEF Merged, Loop, NoLine
<1>5. /\ line[0] = NoLine
      /\ \A k \in 1 .. N : line[k] = Line(pages, line[k - 1], k)
  BY <1>3 DEF Loop
<1> DEFINE Bad == {k \in 0 .. N : ~LineRight(line[k], pages, k)}
<1>6. ASSUME Bad # {} PROVE FALSE
  <2>0. Bad \subseteq Nat
    OBVIOUS
  <2>1. PICK k \in Bad : \A j \in Bad : k <= j
    <3> HIDE DEF Bad
    <3>1. QED
      BY <1>6, <2>0, LeastNat
  <2>2. LineRight(line[0], pages, 0)
    <3>1. NoRegion \in Reg
      BY DEF NoRegion, Region, Reg, Statuses
    <3>2. NoLine \in LineState /\ NoLine.closed = <<>> /\ NoLine.open = NoRegion
      BY <3>1 DEF NoLine, LineState
    <3>3. Append(<<>>, NoRegion) = <<NoRegion>>
      OBVIOUS
    <3>4. Chain(Append(NoLine.closed, NoLine.open), pages, 0)
      BY <3>2, <3>3, ChainBegins
    <3>5. QED
      BY <1>5, <3>2, <3>4 DEF LineRight
  <2>3. k # 0 /\ k \in 1 .. N
    BY <2>2
  <2>4. PICK n \in Nat : n = k - 1 /\ n + 1 = k /\ n + 1 <= N /\ n \in 0 .. N /\ n < k
    BY <2>3
  <2>5. LineRight(line[n], pages, n)
    BY <2>1, <2>4
  <2>6. LineRight(Line(pages, line[n], n + 1), pages, n + 1)
    BY <1>1, <2>4, <2>5, LineKeeps
  <2>7. line[k] = Line(pages, line[n], n + 1)
    BY <1>5, <2>3, <2>4
  <2>8. QED
    BY <2>4, <2>6, <2>7
<1>7. LineRight(line[N], pages, N)
  BY <1>6
<1>8. QED
  BY <1>1, <1>4, <1>7 DEF AllRegions, LineRight

\* The row of a region in the array.
Row(r) == <<r.pBegin, r.size, r.pEnd, r.flags>>

\* The longest runs are the regions with an address, and that from address 0 is
\* the run of not loaded pages at the start.
LEMMA RunsAre ==
  ASSUME NEW pages \in Seq(Statuses), NEW all, Chain(all, pages, Len(pages))
  PROVE  {Row(all[n]) : n \in {n \in 1 .. Len(all) : all[n].pBegin > 0}} =
           {r \in LongestRuns(pages) : r[1] > 1 \/ r[4] # NotLoaded}
<1>1. PICK N \in Nat, L \in Nat \ {0} :
        N = Len(pages) /\ L = Len(all) /\ all \in Seq(Reg)
  BY DEF Chain
<1>2. \A n \in 1 .. L : /\ all[n] \in Reg /\ all[n].pBegin \in Nat /\ all[n].pEnd \in Nat
                        /\ all[n].size \in Nat /\ all[n].flags \in Statuses
  <2>1. \A n \in 1 .. L : all[n] \in Reg
    <3> HIDE DEF Reg
    <3>1. QED
      BY <1>1
  <2>2. QED
    BY <2>1 DEF Reg
<1>3. /\ all[1].pBegin = 0 /\ all[1].flags = NotLoaded /\ all[L].pEnd = N
      /\ \A n \in 1 .. L :
           /\ all[n].pBegin <= all[n].pEnd
           /\ n > 1 => /\ all[n].pBegin > 0
                       /\ all[n].size = all[n].pEnd - all[n].pBegin + 1
           /\ \A j \in 1 .. N :
                all[n].pBegin <= j /\ j <= all[n].pEnd => pages[j] = all[n].flags
      /\ \A n \in 1 .. L - 1 :
           all[n + 1].pBegin = all[n].pEnd + 1 /\ all[n + 1].flags # all[n].flags
      /\ \A j \in 1 .. N : \E n \in 1 .. L : all[n].pBegin <= j /\ j <= all[n].pEnd
  BY <1>1 DEF Chain
<1>4. \A n \in 1 .. L : all[n].pEnd <= N
  <2>1. SUFFICES ASSUME NEW n \in 1 .. L PROVE all[n].pEnd <= N
    OBVIOUS
  <2>2. CASE n = L
    BY <1>3, <2>2
  <2>3. CASE n # L
    <3>1. all[n].pEnd < all[L].pBegin /\ all[L].pBegin <= all[L].pEnd
      BY <1>1, <2>3 DEF Chain
    <3>2. QED
      BY <1>1, <1>2, <1>3, <3>1
  <2>4. QED
    BY <2>2, <2>3
<1>5. ASSUME NEW n \in 1 .. L, all[n].pEnd < N
      PROVE  /\ pages[all[n].pEnd + 1] # all[n].flags /\ n \in 1 .. L - 1
  <2>1. n # L
    BY <1>1, <1>2, <1>3, <1>5
  <2>2. n \in 1 .. L - 1 /\ n + 1 \in 1 .. L
    BY <2>1
  <2>3. PICK e \in Nat : e = all[n].pEnd
    BY <1>2
  <2>4. /\ all[n + 1].pBegin = e + 1 /\ all[n + 1].flags # all[n].flags
        /\ all[n + 1].pBegin <= all[n + 1].pEnd /\ e + 1 \in 1 .. N
    <3>1. all[n + 1].pBegin = all[n].pEnd + 1 /\ all[n + 1].flags # all[n].flags
      BY <1>3, <2>2
    <3>2. all[n + 1].pBegin <= all[n + 1].pEnd
      BY <1>3, <2>2
    <3>3. e + 1 \in 1 .. N
      BY <1>5, <2>3
    <3>4. QED
      BY <2>3, <3>1, <3>2, <3>3
  <2>5. pages[e + 1] = all[n + 1].flags
    BY <1>2, <1>3, <2>2, <2>4
  <2>6. QED
    BY <2>2, <2>3, <2>4, <2>5
<1>6. ASSUME NEW n \in 1 .. L, all[n].pBegin > 0
      PROVE  Row(all[n]) \in {r \in LongestRuns(pages) : r[1] > 1 \/ r[4] # NotLoaded}
  <2>1. PICK a \in Nat, b \in Nat, f \in Statuses :
          a = all[n].pBegin /\ b = all[n].pEnd /\ f = all[n].flags
    BY <1>2
  <2>2. n > 1 /\ a > 0 /\ a <= b /\ b <= N /\ all[n].size = b - a + 1
    <3>1. n # 1
      BY <1>3, <1>6
    <3>2. /\ all[n].pBegin <= all[n].pEnd /\ all[n].pEnd <= N
          /\ all[n].size = all[n].pEnd - all[n].pBegin + 1
      BY <1>3, <1>4, <3>1
    <3>3. n > 1
      BY <3>1
    <3>4. QED
      BY <1>6, <2>1, <3>2, <3>3
  <2>3. \A j \in a .. b : pages[j] = f
    <3>1. \A j \in a .. b : j \in 1 .. N /\ a <= j /\ j <= b
      BY <2>2
    <3>2. QED
      BY <1>3, <2>1, <3>1
  <2>4. a > 1 => pages[a - 1] # pages[a]
    <3>1. PICK m \in 1 .. L - 1 : m = n - 1 /\ m + 1 = n /\ m \in 1 .. L
      BY <2>2
    <3>2. all[m].pEnd = a - 1 /\ all[m].flags # f
      <4>1. all[m + 1].pBegin = all[m].pEnd + 1 /\ all[m + 1].flags # all[m].flags
        BY <1>3, <3>1
      <4>2. PICK y \in Nat : y = all[m].pEnd
        BY <1>2, <3>1
      <4>3. a = y + 1 /\ all[m].flags # f
        BY <2>1, <3>1, <4>1, <4>2
      <4>4. y = a - 1
        BY <4>3
      <4>5. QED
        BY <4>2, <4>3, <4>4
    <3>3. all[m].pBegin <= all[m].pEnd
      BY <1>3, <3>1
    <3>4. ASSUME a > 1 PROVE pages[a - 1] # pages[a]
      <4>1. a - 1 \in 1 .. N /\ all[m].pBegin <= a - 1 /\ a - 1 <= all[m].pEnd
        BY <2>2, <3>2, <3>3, <3>4
      <4>2. pages[a - 1] = all[m].flags
        BY <1>3, <3>1, <4>1
      <4>3. QED
        BY <2>2, <2>3, <3>2, <4>2
    <3>5. QED
      BY <3>4
  <2>5. b < N => pages[b + 1] # pages[b]
    BY <1>5, <2>1, <2>2, <2>3
  <2>6. IsRun(pages, a, b)
    <3>1. \A j \in a .. b : pages[j] = pages[a]
      BY <2>2, <2>3
    <3>2. QED
      BY <1>1, <2>4, <2>5, <3>1 DEF IsRun, SameStatus
  <2>7. Row(all[n]) = <<a, b - a + 1, b, pages[a]>>
    <3>1. pages[a] = f
      BY <2>2, <2>3
    <3>2. QED
      BY <2>1, <2>2, <3>1 DEF Row
  <2>8. Row(all[n]) \in LongestRuns(pages)
    <3>1. PICK p : p = <<a, b>>
      OBVIOUS
    <3>2. p \in (1 .. N) \X (1 .. N) /\ p[1] = a /\ p[2] = b
      BY <2>2, <3>1
    <3>3. Row(all[n]) = <<p[1], p[2] - p[1] + 1, p[2], pages[p[1]]>>
      BY <2>7, <3>2
    <3>4. p[1] <= p[2] /\ IsRun(pages, p[1], p[2])
      BY <2>2, <2>6, <3>2
    <3>5. QED
      BY <1>1, <3>2, <3>3, <3>4 DEF LongestRuns
  <2>9. a > 1 \/ f # NotLoaded
    <3>1. SUFFICES ASSUME a = 1 PROVE f # NotLoaded
      BY <2>2
    <3>2. PICK m \in 1 .. L - 1 : m = n - 1 /\ m + 1 = n /\ m \in 1 .. L
      BY <2>2
    <3>3. all[m].pEnd = 0 /\ all[m].flags # f
      <4>1. all[m + 1].pBegin = all[m].pEnd + 1 /\ all[m + 1].flags # all[m].flags
        BY <1>3, <3>2
      <4>2. PICK y \in Nat : y = all[m].pEnd
        BY <1>2, <3>2
      <4>3. all[m + 1] = all[n]
        BY <3>2
      <4>4. a = y + 1 /\ f # all[m].flags
        BY <2>1, <4>1, <4>2, <4>3
      <4>5. y = 0
        BY <3>1, <4>4
      <4>6. QED
        BY <4>2, <4>4, <4>5
    <3>4. m = 1
      <4>1. ~(all[m].pBegin > 0)
        BY <1>2, <1>3, <3>2, <3>3
      <4>2. QED
        BY <1>3, <3>2, <4>1
    <3>5. QED
      BY <1>3, <3>3, <3>4
  <2>10. Row(all[n])[1] = a /\ Row(all[n])[4] = f
    BY <2>1 DEF Row
  <2>11. QED
    BY <2>8, <2>9, <2>10
<1>7. ASSUME NEW r \in LongestRuns(pages), r[1] > 1 \/ r[4] # NotLoaded
      PROVE  \E n \in 1 .. L : all[n].pBegin > 0 /\ r = Row(all[n])
  <2>1. PICK p \in (1 .. N) \X (1 .. N) :
          /\ p[1] <= p[2] /\ IsRun(pages, p[1], p[2])
          /\ r = <<p[1], p[2] - p[1] + 1, p[2], pages[p[1]]>>
    BY <1>1, <1>7 DEF LongestRuns
  <2>2. PICK a \in 1 .. N, b \in 1 .. N : a = p[1] /\ b = p[2]
    BY <2>1
  <2>3. /\ a <= b /\ r = <<a, b - a + 1, b, pages[a]>>
        /\ \A j \in a .. b : pages[j] = pages[a]
        /\ a > 1 => pages[a - 1] # pages[a]
        /\ b < N => pages[b + 1] # pages[b]
    BY <1>1, <2>1, <2>2 DEF IsRun, SameStatus
  <2>4. PICK n \in 1 .. L : all[n].pBegin <= a /\ a <= all[n].pEnd
    BY <1>3, <2>2
  <2>5. PICK x \in Nat, e \in Nat, f \in Statuses :
          x = all[n].pBegin /\ e = all[n].pEnd /\ f = all[n].flags
    BY <1>2
  <2>6. /\ x <= a /\ a <= e /\ e <= N
        /\ \A j \in 1 .. N : x <= j /\ j <= e => pages[j] = f
    BY <1>3, <1>4, <2>4, <2>5
  <2>7. pages[a] = f
    BY <2>6
  <2>8. ~(a > 1 /\ x <= a - 1)
    <3>1. SUFFICES ASSUME a > 1, x <= a - 1 PROVE FALSE
      OBVIOUS
    <3>2. a - 1 \in 1 .. N /\ a - 1 <= e
      BY <2>6, <3>1
    <3>3. QED
      BY <2>3, <2>6, <2>7, <3>1, <3>2
  <2>9. x > 0
    <3>1. SUFFICES ASSUME x = 0 PROVE FALSE
      OBVIOUS
    <3>2. n = 1
      <4>1. n > 1 => x > 0
        BY <1>3, <2>5
      <4>2. QED
        BY <3>1, <4>1
    <3>3. a = 1 /\ f = NotLoaded
      BY <1>3, <2>5, <2>8, <3>1, <3>2
    <3>4. r[1] = 1 /\ r[4] = NotLoaded
      BY <2>3, <2>7, <3>3
    <3>5. QED
      BY <1>7, <3>4
  <2>10. x = a
    BY <2>6, <2>8, <2>9
  <2>11. ~(b < e)
    <3>1. SUFFICES ASSUME b < e PROVE FALSE
      OBVIOUS
    <3>2. b \in 1 .. N /\ b + 1 \in 1 .. N /\ x <= b /\ x <= b + 1 /\ b <= e /\ b + 1 <= e
      BY <2>3, <2>6, <2>10, <3>1
    <3>3. pages[b] = f /\ pages[b + 1] = f
      BY <2>6, <3>2
    <3>4. QED
      BY <2>3, <2>6, <3>1, <3>3
  <2>12. ~(e < b)
    <3>1. SUFFICES ASSUME e < b PROVE FALSE
      OBVIOUS
    <3>2. pages[e + 1] # f
      <4>1. e < N
        BY <3>1
      <4>2. all[n].pEnd < N
        BY <2>5, <4>1
      <4>3. QED
        BY <1>5, <2>5, <4>2
    <3>3. e + 1 \in a .. b
      BY <2>6, <3>1
    <3>4. QED
      BY <2>3, <2>7, <3>2, <3>3
  <2>13. e = b
    BY <2>11, <2>12
  <2>14. all[n].size = b - a + 1
    <3>1. n # 1
      BY <1>3, <2>5, <2>9
    <3>2. all[n].size = all[n].pEnd - all[n].pBegin + 1
      BY <1>3, <3>1
    <3>3. QED
      BY <2>5, <2>10, <2>13, <3>2
  <2>15. r = Row(all[n])
    BY <2>3, <2>5, <2>7, <2>10, <2>13, <2>14 DEF Row
  <2>16. QED
    BY <2>5, <2>9, <2>15
<1> DEFINE A == {Row(all[n]) : n \in {n \in 1 .. Len(all) : all[n].pBegin > 0}}
           B == {r \in LongestRuns(pages) : r[1] > 1 \/ r[4] # NotLoaded}
<1>8. A \subseteq B
  BY <1>1, <1>6
<1>9. B \subseteq A
  <2>1. SUFFICES ASSUME NEW r \in B PROVE r \in A
    OBVIOUS
  <2>2. PICK n \in 1 .. L : all[n].pBegin > 0 /\ r = Row(all[n])
    BY <1>7
  <2>3. QED
    BY <1>1, <2>2
<1>10. QED
  BY <1>8, <1>9

-----------------------------------------------------------------------------
(* The sort and the merged array *)

\* std::sort has an order to leave the regions in: that by size, and by place
\* where the sizes are equal.
LEMMA OrdersExist ==
  ASSUME NEW s \in Seq(Reg)
  PROVE  Orders(s) # {}
<1>1. PICK L \in Nat : L = Len(s) /\ DOMAIN s = 1 .. L
  OBVIOUS
<1>2. PICK size : size = [k \in 1 .. L |-> s[k].size]
  OBVIOUS
<1>3. \A k \in 1 .. L : size[k] \in Nat /\ size[k] = s[k].size
  <2>1. \A k \in 1 .. L : s[k] \in Reg
    <3> HIDE DEF Reg
    <3>1. QED
      BY <1>1
  <2>2. QED
    BY <1>2, <2>1 DEF Reg
<1>4. PICK R : R = {p \in (1 .. L) \X (1 .. L) :
                      size[p[1]] < size[p[2]] \/ (size[p[1]] = size[p[2]] /\ p[1] <= p[2])}
  OBVIOUS
<1>5. \A j, k \in 1 .. L :
        <<j, k>> \in R <=> size[j] < size[k] \/ (size[j] = size[k] /\ j <= k)
  BY <1>4
<1>6. InOrder(1 .. L, R)
  BY <1>3, <1>5 DEF InOrder
<1>7. IsFiniteSet(1 .. L) /\ Cardinality(1 .. L) = L
  BY FS_Interval
<1>8. PICK rank : Ranked(1 .. L, R, rank)
  BY <1>6, <1>7, Ranks
<1>9. \A n \in 1 .. L : \E k \in 1 .. L : rank[k] = n
  BY <1>7, <1>8 DEF Ranked
<1>10. PICK f : f = [n \in 1 .. L |-> CHOOSE k \in 1 .. L : rank[k] = n]
  OBVIOUS
<1>11. \A n \in 1 .. L : f[n] \in 1 .. L /\ rank[f[n]] = n
  BY <1>9, <1>10
<1>12. f \in [1 .. L -> 1 .. L]
  BY <1>10, <1>11
<1>13. ASSUME NEW k \in 1 .. L, NEW j \in 1 .. k - 1
       PROVE  f[j] # f[k] /\ ~bySize(s[f[k]], s[f[j]])
  <2>1. j \in 1 .. L /\ j < k
    OBVIOUS
  <2>2. f[j] # f[k]
    BY <1>11, <2>1
  <2>3. ASSUME size[f[k]] < size[f[j]] PROVE FALSE
    <3>1. <<f[k], f[j]>> \in R
      BY <1>5, <1>11, <2>1, <2>3
    <3>2. rank[f[k]] < rank[f[j]]
      BY <1>8, <1>11, <2>1, <2>2, <3>1 DEF Ranked
    <3>3. QED
      BY <1>11, <2>1, <3>2
  <2>4. QED
    BY <1>3, <1>11, <2>1, <2>2, <2>3 DEF bySize
<1>14. f \in Orders(s)
  BY <1>1, <1>12, <1>13 DEF Orders
<1>15. QED
  BY <1>14

\* An order puts every region somewhere, and no two at one place.
LEMMA OrdersPermute ==
  ASSUME NEW s \in Seq(Reg), NEW f \in Orders(s)
  PROVE  /\ f \in [1 .. Len(s) -> 1 .. Len(s)]
         /\ \A m \in 1 .. Len(s) : \E k \in 1 .. Len(s) : f[k] = m
         /\ \A j, k \in 1 .. Len(s) :
              j < k => f[j] # f[k] /\ ~(s[f[k]].size < s[f[j]].size)
<1>1. PICK L \in Nat : L = Len(s) /\ DOMAIN s = 1 .. L
  OBVIOUS
<1>2. /\ f \in [1 .. L -> 1 .. L]
      /\ \A k \in 1 .. L : \A j \in 1 .. k - 1 :
           f[j] # f[k] /\ ~(s[f[k]].size < s[f[j]].size)
  BY <1>1 DEF Orders, bySize
<1>3. \A j, k \in 1 .. L : j < k => f[j] # f[k] /\ ~(s[f[k]].size < s[f[j]].size)
  <2>1. \A j, k \in 1 .. L : j < k => j \in 1 .. k - 1
    OBVIOUS
  <2>2. QED
    BY <1>2, <2>1
<1>4. \A j, k \in 1 .. L : f[j] = f[k] => j = k
  <2>1. SUFFICES ASSUME NEW j \in 1 .. L, NEW k \in 1 .. L, f[j] = f[k], j # k PROVE FALSE
    OBVIOUS
  <2>2. j < k \/ k < j
    BY <2>1
  <2>3. QED
    BY <1>3, <2>1, <2>2
<1>5. f \in Injection(1 .. L, 1 .. L)
  BY <1>2, <1>4 DEF Injection, IsInjective
<1>6. IsFiniteSet(1 .. L) /\ Cardinality(1 .. L) = L
  BY FS_Interval
<1>7. f \in Surjection(1 .. L, 1 .. L)
  BY <1>5, <1>6, FS_Injection
<1>8. \A m \in 1 .. L : \E k \in 1 .. L : f[k] = m
  BY <1>7 DEF Surjection
<1>9. QED
  BY <1>1, <1>2, <1>3, <1>8

\* rows is the merged array for the order f of the regions, of which those at
\* the places "kept" are printed.
Prints(rows, all, f, at, kept) ==
  /\ kept = {k \in 1 .. Len(all) : all[f[k]].pBegin > 0}
  /\ at = [n \in 1 .. Cardinality(kept) |-> Nth(kept, n)]
  /\ rows = [n \in 1 .. Cardinality(kept) |-> Row(all[f[at[n]]])]

LEMMA MergedRows ==
  ASSUME NEW pages \in Seq(Statuses), NEW rows \in ParseMergedOutputFiles(pages),
         NEW all, all = AllRegions(pages), all \in Seq(Reg)
  PROVE  \E f \in Orders(all) : \E at, kept : Prints(rows, all, f, at, kept)
<1>1. PICK regions \in MergePages(pages) :
        rows = [k \in DOMAIN regions |-> Row(regions[k])]
  BY DEF ParseMergedOutputFiles, Row
<1>2. PICK s \in Sorted(all) : regions = Printed(s)
  BY <1>1 DEF MergePages
<1>3. PICK f \in Orders(all) : s = [k \in DOMAIN all |-> all[f[k]]]
  BY <1>2 DEF Sorted
<1>4. DOMAIN s = 1 .. Len(all) /\ \A k \in 1 .. Len(all) : s[k] = all[f[k]]
  <2> HIDE DEF Reg
  <2>1. DOMAIN all = 1 .. Len(all)
    OBVIOUS
  <2>2. QED
    BY <1>3, <2>1
<1>5. PICK kept : kept = {k \in 1 .. Len(all) : all[f[k]].pBegin > 0}
  OBVIOUS
<1>6. kept = {k \in DOMAIN s : s[k].pBegin > 0}
  BY <1>4, <1>5
<1>7. regions = [n \in 1 .. Cardinality(kept) |-> s[Nth(kept, n)]]
  BY <1>2, <1>6 DEF Printed
<1>8. kept \subseteq 1 .. Len(all) /\ kept \subseteq Nat /\ IsFiniteSet(kept)
  <2>1. IsFiniteSet(1 .. Len(all))
    BY FS_Interval
  <2>2. kept \subseteq 1 .. Len(all)
    BY <1>5
  <2>3. kept \subseteq Nat
    BY <2>2
  <2>4. IsFiniteSet(kept)
    BY <2>1, <2>2, FS_Subset
  <2>5. QED
    BY <2>2, <2>3, <2>4
<1>9. \A n \in 1 .. Cardinality(kept) : Nth(kept, n) \in kept
  BY <1>8, NthLemma
<1>10. PICK at : at = [n \in 1 .. Cardinality(kept) |-> Nth(kept, n)]
  OBVIOUS
<1>11. rows = [n \in 1 .. Cardinality(kept) |-> Row(all[f[at[n]]])]
  <2>1. \A n \in 1 .. Cardinality(kept) : s[Nth(kept, n)] = all[f[at[n]]]
    BY <1>4, <1>8, <1>9, <1>10
  <2>2. regions = [n \in 1 .. Cardinality(kept) |-> all[f[at[n]]]]
    BY <1>7, <2>1
  <2>3. QED
    BY <1>1, <2>2
<1>12. Prints(rows, all, f, at, kept)
  BY <1>5, <1>10, <1>11 DEF Prints
<1>13. QED
  BY <1>3, <1>12

LEMMA MergesRight ==
  ASSUME NEW pages \in Seq(Statuses)
  PROVE  MergesRuns(pages)
<1>1. PICK all : all = AllRegions(pages)
  OBVIOUS
<1>2. Chain(all, pages, Len(pages))
  BY <1>1, MergedIsChain
<1>3. all \in Seq(Reg)
  BY <1>2 DEF Chain
<1>4. SUFFICES ASSUME NEW rows \in ParseMergedOutputFiles(pages)
      PROVE  /\ ToSet(rows) = {r \in LongestRuns(pages) : r[1] > 1 \/ r[4] # NotLoaded}
             /\ \A j, k \in DOMAIN rows :
                  j < k => rows[j] # rows[k] /\ rows[j][2] <= rows[k][2]
  BY DEF MergesRuns
<1>5. PICK f \in Orders(all) : \E at, kept : Prints(rows, all, f, at, kept)
  BY <1>1, <1>3, MergedRows
<1>6. PICK at, kept :
        /\ kept = {k \in 1 .. Len(all) : all[f[k]].pBegin > 0}
        /\ at = [n \in 1 .. Cardinality(kept) |-> Nth(kept, n)]
        /\ rows = [n \in 1 .. Cardinality(kept) |-> Row(all[f[at[n]]])]
  BY <1>5 DEF Prints
<1>7. PICK L \in Nat : L = Len(all)
  BY <1>3
<1>8. /\ f \in [1 .. L -> 1 .. L]
      /\ \A m \in 1 .. L : \E k \in 1 .. L : f[k] = m
      /\ \A j, k \in 1 .. L : j < k => f[j] # f[k] /\ ~(all[f[k]].size < all[f[j]].size)
  BY <1>3, <1>7, OrdersPermute
<1>9. kept \subseteq 1 .. L /\ kept \subseteq Nat /\ IsFiniteSet(kept)
  <2>1. IsFiniteSet(1 .. L)
    BY FS_Interval
  <2>2. kept \subseteq 1 .. L
    BY <1>6, <1>7
  <2>3. kept \subseteq Nat
    BY <2>2
  <2>4. IsFiniteSet(kept)
    BY <2>1, <2>2, FS_Subset
  <2>5. QED
    BY <2>2, <2>3, <2>4
<1>10. PICK C \in Nat : C = Cardinality(kept)
  BY <1>9, NthLemma
<1>11. /\ \A n \in 1 .. C : at[n] \in kept
       /\ \A k \in kept : \E n \in 1 .. C : at[n] = k
       /\ \A m, n \in 1 .. C : m < n => at[m] < at[n]
  BY <1>6, <1>9, <1>10, NthLemma
<1>12. DOMAIN rows = 1 .. C /\ \A n \in 1 .. C : rows[n] = Row(all[f[at[n]]])
  BY <1>6, <1>10
<1> DEFINE A == {Row(all[n]) : n \in {n \in 1 .. Len(all) : all[n].pBegin > 0}}
<1>13. ToSet(rows) = A
  <2>1. ToSet(rows) = {rows[n] : n \in 1 .. C}
    BY <1>12 DEF ToSet
  <2>2. ASSUME NEW n \in 1 .. C PROVE rows[n] \in A
    <3>1. at[n] \in 1 .. L /\ all[f[at[n]]].pBegin > 0
      <4>1. at[n] \in kept
        BY <1>11
      <4>2. kept = {k \in 1 .. L : all[f[k]].pBegin > 0}
        BY <1>6, <1>7
      <4>3. QED
        BY <4>1, <4>2
    <3>2. f[at[n]] \in 1 .. L
      BY <1>8, <3>1
    <3>3. QED
      BY <1>7, <1>12, <3>1, <3>2
  <2>3. ASSUME NEW m \in 1 .. L, all[m].pBegin > 0
        PROVE  \E n \in 1 .. C : rows[n] = Row(all[m])
    <3>1. PICK k \in 1 .. L : f[k] = m
      BY <1>8
    <3>2. k \in kept
      BY <1>6, <1>7, <2>3, <3>1
    <3>3. PICK n \in 1 .. C : at[n] = k
      BY <1>11, <3>2
    <3>4. QED
      BY <1>12, <3>1, <3>3
  <2>4. A \subseteq {rows[n] : n \in 1 .. C}
    BY <1>7, <2>3
  <2>5. {rows[n] : n \in 1 .. C} \subseteq A
    BY <2>2
  <2>6. QED
    BY <2>1, <2>4, <2>5
<1>14. A = {r \in LongestRuns(pages) : r[1] > 1 \/ r[4] # NotLoaded}
  BY <1>2, RunsAre
<1>15. \A n \in 1 .. L : /\ all[n].pBegin \in Nat /\ all[n].pEnd \in Nat
                         /\ all[n].size \in Nat /\ all[n].pBegin <= all[n].pEnd
  <2>1. \A n \in 1 .. L : all[n] \in Reg
    <3> HIDE DEF Reg
    <3>1. QED
      BY <1>3, <1>7
  <2>2. \A n \in 1 .. L : all[n].pBegin <= all[n].pEnd
    BY <1>2, <1>7 DEF Chain
  <2>3. QED
    BY <2>1, <2>2 DEF Reg
<1>16. \A m, n \in 1 .. L : m # n => all[m].pBegin # all[n].pBegin
  <2>1. \A m, n \in 1 .. L : m < n => all[m].pEnd < all[n].pBegin
    BY <1>2, <1>7 DEF Chain
  <2>2. \A m, n \in 1 .. L : m < n => all[m].pBegin # all[n].pBegin
    BY <1>15, <2>1
  <2>3. \A m, n \in 1 .. L : m # n => m < n \/ n < m
    OBVIOUS
  <2>4. QED
    BY <2>2, <2>3
<1>17. ASSUME NEW j \in 1 .. C, NEW k \in 1 .. C, j < k
       PROVE  rows[j] # rows[k] /\ rows[j][2] <= rows[k][2]
  <2>1. PICK x \in 1 .. L, y \in 1 .. L : x = at[j] /\ y = at[k]
    BY <1>9, <1>11
  <2>2. x < y
    BY <1>11, <1>17, <2>1
  <2>3. PICK m \in 1 .. L, n \in 1 .. L : m = f[x] /\ n = f[y]
    BY <1>8, <2>1
  <2>4. m # n /\ ~(all[n].size < all[m].size)
    BY <1>8, <2>2, <2>3
  <2>5. rows[j] = Row(all[m]) /\ rows[k] = Row(all[n])
    BY <1>12, <2>1, <2>3
  <2>6. /\ rows[j][1] = all[m].pBegin /\ rows[k][1] = all[n].pBegin
        /\ rows[j][2] = all[m].size /\ rows[k][2] = all[n].size
    BY <2>5 DEF Row
  <2>7. all[m].pBegin # all[n].pBegin
    BY <1>16, <2>4
  <2>8. all[m].size <= all[n].size
    BY <1>15, <2>4
  <2>9. rows[j] # rows[k]
    BY <2>6, <2>7
  <2>10. QED
    BY <2>6, <2>8, <2>9
<1>18. QED
  BY <1>12, <1>13, <1>14, <1>17

\* There is a merged array.
LEMMA SomeArray ==
  ASSUME NEW pages \in Seq(Statuses)
  PROVE  ParseMergedOutputFiles(pages) # {}
<1>1. PICK all : all = AllRegions(pages)
  OBVIOUS
<1>2. all \in Seq(Reg)
  BY <1>1, MergedIsChain DEF Chain
<1>3. PICK f : f \in Orders(all)
  BY <1>2, OrdersExist
<1>4. [k \in DOMAIN all |-> all[f[k]]] \in Sorted(all)
  BY <1>3 DEF Sorted
<1>5. Printed([k \in DOMAIN all |-> all[f[k]]]) \in MergePages(pages)
  BY <1>1, <1>4 DEF MergePages
<1>6. QED
  BY <1>5 DEF ParseMergedOutputFiles

-----------------------------------------------------------------------------
(* Theorems *)

\* What a snapshot has written of the pages is the heap of one moment, unless
\* a handler has run a snapshot of its own in the middle of it, however the
\* shells of interrupted calls and the program interfere.
THEOREM SnapshotsAreConsistent == Spec => []SnapshotConsistent
<1>1. MonitorInv => SnapshotConsistent
  BY DEF MonitorInv, Snapshots, Lone, SnapshotConsistent
<1>2. QED
  BY <1>1, InvHolds, PTL

\* At an interval the summary lists the files there are, each once and in
\* order, whatever becomes of the snapshots between.
THEOREM FilesAreCounted == Spec => []FilesCounted
<1>1. MonitorInv => FilesCounted
  BY DEF MonitorInv, Counts, Upto, FilesCounted
<1>2. QED
  BY <1>1, InvHolds, PTL

\* The pages of a file are statuses, at every time.
LEMMA FilesAreLists == MonitorInv => \A n \in DOMAIN files : files[n] \in Seq(Statuses)
<1> HIDE DEF Statuses
<1>1. QED
  BY DEF MonitorInv, MonitorType

\* Whatever files the snapshots have written, each can be merged, and the array
\* made of what std::sort may have left of it holds the runs of its pages.
THEOREM MergesAreRuns ==
  Spec => [](MergedAreRuns /\ \A n \in DOMAIN files : ParseMergedOutputFiles(files[n]) # {})
<1>1. MonitorInv => MergedAreRuns
  BY FilesAreLists, MergesRight DEF MergedAreRuns
<1>2. MonitorInv => \A n \in DOMAIN files : ParseMergedOutputFiles(files[n]) # {}
  BY FilesAreLists, SomeArray
<1>3. QED
  BY <1>1, <1>2, InvHolds, PTL

\* Every slice of such a file fills the rows allocated for it, with its pages.
THEOREM SlicesAreRight == Spec => []SlicesFilled
<1>1. MonitorInv => SlicesFilled
  BY FilesAreLists, SlicesRight DEF SlicesFilled
<1>2. QED
  BY <1>1, InvHolds, PTL

=============================================================================
