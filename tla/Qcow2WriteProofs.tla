-------------------------- MODULE Qcow2WriteProofs --------------------------
(***************************************************************************)
(* TypeOK and RefcountsLast are invariants of the write engine for every   *)
(* geometry, window capacity and number of slots.  TypeOK is inductive as  *)
(* it stands: that a data step of the window stays inside its request is   *)
(* one of its parts, and a request is only replaced when the window is     *)
(* empty.  For RefcountsLast the inductive invariant says where the        *)
(* planner is when an L1 or a refcount write is in the window, what may    *)
(* follow it there, and that a clean L1 is the device's unless its write   *)
(* is still in the window.                                                 *)
(***************************************************************************)
EXTENDS Qcow2PlanProofs

LEMMA BarrierType ==
    ASSUME TypeOK, Barrier, UNCHANGED <<req, cap>>
    PROVE  TypeWindow' /\ sinceBar' \in BOOLEAN
BY PushType, SameWindow, StepTypes, StepOps
   DEF Barrier, InRequest, TypeOK, TypeState

LEMMA BarrierStageType ==
    ASSUME TypeOK, NEW from, NEW to \in FlushStages, NEW fi \in Nat,
           BarrierStage(from, to, fi)
    PROVE  TypeOK'
<1>1. TypeWindow' /\ sinceBar' \in BOOLEAN
  BY BarrierType DEF BarrierStage, img0
<1>2. TypeState'
  BY <1>1 DEF BarrierStage, slots, TypeOK, TypeState
<1>3. TypeProgress'
  BY DEF BarrierStage, TypeOK, TypeProgress
<1>4. TypeStaged' /\ TypeDisk' /\ TypeCaller' /\ img' \in Images /\ cap' \in Caps
  BY DEF BarrierStage, FStage, Planning, img0, staged, disk, caller, TypeOK,
     TypeStaged, TypeDisk, TypeCaller
<1> QED BY <1>1, <1>2, <1>3, <1>4 DEF TypeOK

LEMMA SkipStageType ==
    ASSUME TypeOK, NEW from, NEW to \in FlushStages, SkipStage(from, to)
    PROVE  TypeOK'
<1>1. TypeWindow'
  BY SameWindow DEF SkipStage, img0
<1>2. TypeProgress'
  BY DEF SkipStage, TypeOK, TypeProgress
<1>3. /\ TypeState' /\ TypeStaged' /\ TypeDisk' /\ TypeCaller'
      /\ img' \in Images /\ cap' \in Caps
  BY DEF SkipStage, img0, slots, planner, staged, disk, caller, TypeOK, TypeState,
     TypeStaged, TypeDisk, TypeCaller
<1> QED BY <1>1, <1>2, <1>3 DEF TypeOK

LEMMA PlanFlushType == ASSUME TypeOK, PlanFlush PROVE TypeOK'
<1>a. FlushStages = {"PreBarrier", "L2Writebacks", "L1Barrier", "L1Write",
                     "RbBarrier", "RbWritebacks", "EndBarrier"}
  BY DEF FlushStages
<1>b. flushIdx \in Nat /\ Slots \subseteq Nat /\ Block \subseteq Nat
  BY GeometryAssumption
     DEF TypeOK, TypeProgress, Slots, Block, GeometryAssumption
<1>1. CASE PreBarrier
  BY <1>a, <1>b, <1>1, BarrierStageType DEF PreBarrier
<1>2. CASE L2Writeback
  <2>1. TypeWindow' /\ sinceBar' \in BOOLEAN
    BY <1>2, PushType, StepTypes, StepOps, TableTypes, <1>b DEF L2Writeback,
       InRequest, TypeOK, TypeState, img0, DirtySlots, DirtyBlocks
  <2>2. TypeState'
    <3>1. PICK k \in Slots : slot' = [slot EXCEPT ![k].dirty = FALSE]
      BY <1>2 DEF L2Writeback, DirtySlots
    <3>2. slot' \in [Slots -> [valid : BOOLEAN, dirty : BOOLEAN,
                              l1 : L1Index, host : Cluster]]
      BY <3>1 DEF TypeOK, TypeState
    <3> QED BY <1>2, <2>1, <3>2 DEF L2Writeback, TypeOK, TypeState
  <2>3. TypeProgress'
    BY <1>2, <1>b DEF L2Writeback, Stage, Planning, TypeOK, TypeProgress,
       WriteStages, FlushStages, progress, DirtySlots
  <2>4. img' \in Images /\ cap' \in Caps /\ TypeStaged' /\ TypeDisk' /\
        TypeCaller'
    BY <1>2 DEF L2Writeback, Stage, FStage, Planning, Return, img0, slots,
       planner, progress, staged, disk, caller, TypeOK, TypeStaged, TypeDisk,
       TypeCaller
  <2> QED BY <2>1, <2>2, <2>3, <2>4 DEF TypeOK
<1>3. CASE L2WritebacksDone
  BY <1>a, <1>3, SkipStageType DEF L2WritebacksDone
<1>4. CASE L1Barrier
  BY <1>a, <1>b, <1>4, BarrierStageType DEF L1Barrier
<1>5. CASE L1Clean
  BY <1>a, <1>5, SkipStageType DEF L1Clean
<1>6. CASE L1Write
  <2>1. TypeWindow' /\ sinceBar' \in BOOLEAN
    BY <1>6, PushType, StepTypes, StepOps, TableTypes, <1>b DEF L1Write,
       InRequest, TypeOK, TypeState, img0, DirtySlots, DirtyBlocks
  <2>2. TypeState'
    BY <1>6, <2>1 DEF L1Write, Stage, TypeOK, TypeState, TypeProgress, slots,
       planner
  <2>3. TypeProgress'
    BY <1>6 DEF L1Write, Stage, Planning, TypeOK, TypeProgress, WriteStages,
       FlushStages, progress
  <2>4. img' \in Images /\ cap' \in Caps /\ TypeStaged' /\ TypeDisk' /\
        TypeCaller'
    BY <1>6 DEF L1Write, Stage, FStage, Planning, Return, img0, slots,
       planner, progress, staged, disk, caller, TypeOK, TypeStaged, TypeDisk,
       TypeCaller
  <2> QED BY <2>1, <2>2, <2>3, <2>4 DEF TypeOK
<1>7. CASE RbBarrier
  BY <1>a, <1>b, <1>7, BarrierStageType DEF RbBarrier
<1>8. CASE RbClean
  BY <1>a, <1>8, SkipStageType DEF RbClean
<1>9. CASE RbWriteback
  <2>1. TypeWindow' /\ sinceBar' \in BOOLEAN
    BY <1>9, PushType, StepTypes, StepOps, TableTypes, <1>b DEF RbWriteback,
       InRequest, TypeOK, TypeState, img0, DirtySlots, DirtyBlocks
  <2>2. TypeState'
    BY <1>9, <2>1 DEF RbWriteback, Stage, TypeOK, TypeState, TypeProgress,
       slots, planner, DirtyBlocks
  <2>3. TypeProgress'
    BY <1>9, <1>b DEF RbWriteback, Stage, Planning, TypeOK, TypeProgress,
       WriteStages, FlushStages, progress, DirtyBlocks, TypeState
  <2>4. img' \in Images /\ cap' \in Caps /\ TypeStaged' /\ TypeDisk' /\
        TypeCaller'
    BY <1>9 DEF RbWriteback, Stage, FStage, Planning, Return, img0, slots,
       planner, progress, staged, disk, caller, TypeOK, TypeStaged, TypeDisk,
       TypeCaller
  <2> QED BY <2>1, <2>2, <2>3, <2>4 DEF TypeOK
<1>10. CASE RbWritebacksDone
  BY <1>a, <1>10, SkipStageType DEF RbWritebacksDone
<1>11. CASE EndBarrier
  <2>1. TypeWindow' /\ sinceBar' \in BOOLEAN
    BY <1>11, BarrierType DEF EndBarrier, img0
  <2>2. TypeState'
    BY <1>11, <2>1 DEF EndBarrier, Stage, TypeOK, TypeState, TypeProgress,
       slots, planner
  <2>3. TypeProgress'
    BY <1>11 DEF EndBarrier, Stage, Planning, TypeOK, TypeProgress,
       WriteStages, FlushStages, progress
  <2>4. TypeCaller'
    BY <1>11 DEF EndBarrier, Stage, Planning, Return, More, TypeOK,
       TypeCaller, caller, progress, FStage
  <2>5. img' \in Images /\ cap' \in Caps /\ TypeStaged' /\ TypeDisk'
    BY <1>11 DEF EndBarrier, Stage, FStage, Planning, Return, img0, slots,
       planner, progress, staged, disk, caller, TypeOK, TypeStaged, TypeDisk
  <2> QED BY <2>1, <2>2, <2>3, <2>4, <2>5 DEF TypeOK
<1> QED BY <1>1, <1>2, <1>3, <1>4, <1>5, <1>6, <1>7, <1>8, <1>9, <1>10, <1>11
       DEF PlanFlush

LEMMA WriteSectorsType ==
    ASSUME TypeOK, NEW h \in Cluster, NEW f \in [Sector -> Int], NEW secs,
           WriteSectors(h, f, secs), rc' = rc
    PROVE  TypeStaged' /\ TypeDisk'
<1>1. dData' \in [Cluster -> [Sector -> Int]]
  BY DEF WriteSectors, TypeOK, TypeDisk
<1>2. dTab' \in [Cluster -> Table]
  BY TableTypes DEF WriteSectors, TypeOK, TypeDisk
<1> QED BY <1>1, <1>2 DEF WriteSectors, staged, TypeOK, TypeStaged, TypeDisk

LEMMA WriteTableType ==
    ASSUME TypeOK, NEW h \in Cluster, NEW t \in Table, NEW n \in Int,
           WriteTable(h, t, n), rc' = rc
    PROVE  TypeStaged' /\ TypeDisk'
<1>1. [x \in Sector |-> Junk] \in [Sector -> Int]
  BY DEF Junk
<1>2. dData' \in [Cluster -> [Sector -> Int]]
  BY <1>1 DEF WriteTable, TypeOK, TypeDisk
<1>3. [j \in L2Index |-> IF j < n THEN t[j] ELSE dTab[h][j]] \in Table
  BY DEF Table, TypeOK, TypeDisk
<1>4. dTab' \in [Cluster -> Table]
  BY <1>3 DEF WriteTable, TypeOK, TypeDisk
<1> QED BY <1>2, <1>4 DEF WriteTable, staged, TypeOK, TypeStaged, TypeDisk

\* A step, complete or torn after n units, leaves the device well formed: the
\* data of a body step is inside the request.
LEMMA ApplyType ==
    ASSUME TypeOK, NEW s \in Step, InRequest(s), NEW n \in Int,
           Apply(s, n), n <= Units(s), rc' = rc
    PROVE  TypeStaged' /\ TypeDisk'
<1>1. s.slot \in Slots /\ s.h \in Cluster /\ s.e \in Entry /\ s.at \in Nat /\ s.len \in Nat /\ s.from \in Nat
  BY DEF Step
<1>2. CASE MemStep(s)
  <2>1. l1' \in [L1Index -> Entry]
    BY <1>1, <1>2 DEF MemStep, TypeOK, TypeStaged
  <2>2. win' \in [Slots -> Table]
    BY <1>1, <1>2, TableTypes DEF MemStep, TypeOK, TypeStaged, TypeDisk, Table
  <2>3. bounce' \in [Sector -> Int]
    BY <1>1, <1>2 DEF MemStep, TypeOK, TypeStaged, TypeDisk
  <2> QED BY <1>2, <2>1, <2>2, <2>3
          DEF MemStep, disk, TypeOK, TypeStaged, TypeDisk
<1>3. CASE s.op = "zero" /\ WriteSectors(s.h, [x \in Sector |-> Zero],
                                          s.at .. (s.at + n - 1))
  BY <1>1, <1>3, WriteSectorsType DEF Zero
<1>4. CASE s.op = "body" /\ WriteSectors(s.h,
            [x \in Sector |-> IF x \in s.at .. (s.at + s.len - 1)
                              THEN req.data[req.voff + s.from + (x - s.at)]
                              ELSE Junk],
            s.at .. (s.at + n - 1))
  <2>1. ASSUME NEW x \in s.at .. (s.at + s.len - 1)
        PROVE  req.data[req.voff + s.from + (x - s.at)] \in Int
    <3>1. s.from + s.len <= req.len
      BY <1>4 DEF InRequest
    <3>2. /\ req.voff \in 0..(VSize - 1) /\ req.len \in Nat
          /\ req.voff + req.len <= VSize /\ VSize \in Int
      BY GeometryAssumption
         DEF TypeOK, TypeProgress, VSector, GeometryAssumption
    <3>3. x - s.at \in 0..(s.len - 1)
      BY <1>1
    <3>4. req.voff + s.from + (x - s.at) \in VSector
      BY <1>1, <3>1, <3>2, <3>3 DEF VSector
    <3> QED BY <3>4 DEF TypeOK, TypeProgress
  <2>2. [x \in Sector |-> IF x \in s.at .. (s.at + s.len - 1)
                          THEN req.data[req.voff + s.from + (x - s.at)]
                          ELSE Junk] \in [Sector -> Int]
    BY <2>1 DEF Junk
  <2> QED BY <1>1, <1>4, <2>2, WriteSectorsType
<1>5. CASE s.op = "copy" /\ WriteSectors(s.h, bounce, 0 .. (n - 1))
  BY <1>1, <1>5, WriteSectorsType DEF TypeOK, TypeStaged
<1>6. CASE s.op = "wb" /\ WriteTable(s.h, win[s.slot], n)
  BY <1>1, <1>6, WriteTableType DEF TypeOK, TypeStaged
<1>7. CASE s.op = "wl1" /\ WriteL1(n)
  BY <1>7 DEF WriteL1, staged, TypeOK, TypeStaged, TypeDisk
<1>8. CASE s.op = "wrb" /\ WriteBlock(s.at, n)
  BY <1>8 DEF WriteBlock, staged, TypeOK, TypeStaged, TypeDisk
<1>9. CASE s.op = "barrier" /\ ExecBarrier
  BY <1>9 DEF ExecBarrier, staged, TypeOK, TypeStaged, TypeDisk
<1> QED BY <1>2, <1>3, <1>4, <1>5, <1>6, <1>7, <1>8, <1>9 DEF Apply

LEMMA HeadType ==
    ASSUME TypeOK, buf # <<>>
    PROVE  /\ Head(buf) \in Step /\ InRequest(Head(buf))
           /\ Tail(buf) \in Seq(Step) /\ Len(Tail(buf)) = Len(buf) - 1
           /\ Units(Head(buf)) \in Nat
<1>1. /\ Head(buf) \in Step /\ InRequest(Head(buf))
      /\ Tail(buf) \in Seq(Step) /\ Len(Tail(buf)) = Len(buf) - 1
  BY DEF TypeOK, TypeWindow, InRequest
<1>2. Head(buf).len \in Nat
  BY <1>1 DEF Step
<1> QED BY <1>1, <1>2, GeometryAssumption DEF Units, GeometryAssumption

LEMMA ExecType == ASSUME TypeOK, Exec \/ ExecFail PROVE TypeOK'
<1>1. CASE Exec
  <2>1. TypeStaged' /\ TypeDisk'
    BY <1>1, HeadType, ApplyType DEF Exec
  <2>2. TypeWindow'
    <3>1. buf # <<>> /\ buf' = Tail(buf) /\ cap' = cap /\ req' = req
      BY <1>1 DEF Exec, img0, progress
    <3>2. /\ buf \in Seq(Step) /\ Len(buf) \in Nat /\ Len(buf) <= cap /\ cap \in Nat
          /\ Len(Tail(buf)) = Len(buf) - 1 /\ Tail(buf) \in Seq(Step)
      BY <3>1, HeadType, EngineAssumption DEF TypeOK, TypeWindow, EngineAssumption
    <3>3. \A m \in 1..Len(Tail(buf)) : Tail(buf)[m] = buf[m + 1] /\ m + 1 \in 1..Len(buf)
      BY <3>1, <3>2
    <3>4. ASSUME NEW m \in 1..Len(Tail(buf)), Tail(buf)[m].op = "body"
          PROVE  /\ Tail(buf)[m].from + Tail(buf)[m].len <= req.len
                 /\ Tail(buf)[m].at + Tail(buf)[m].len <= CS
      BY <3>3, <3>4 DEF TypeOK, TypeWindow
    <3>5. Len(Tail(buf)) <= cap
      BY <3>2
    <3> QED BY <3>1, <3>2, <3>4, <3>5 DEF TypeWindow
  <2>3. /\ TypeState' /\ TypeProgress' /\ TypeCaller'
        /\ img' \in Images /\ cap' \in Caps
    BY <1>1 DEF Exec, img0, slots, planner, progress, caller, TypeOK, TypeState,
       TypeProgress, TypeCaller
  <2> QED BY <2>1, <2>2, <2>3 DEF TypeOK
<1>2. CASE ExecFail
  <2>1. TypeStaged' /\ TypeDisk'
    <3>1. CASE UNCHANGED <<staged, disk>>
      BY <1>2, <3>1 DEF ExecFail, staged, disk, TypeOK, TypeStaged, TypeDisk
    <3>2. CASE \E n \in 0 .. (Units(Head(buf)) - 1) : Apply(Head(buf), n)
      BY <1>2, <3>2, HeadType, ApplyType DEF ExecFail
    <3> QED BY <1>2, <3>1, <3>2 DEF ExecFail
  <2>2. TypeWindow'
    BY <1>2, SameWindow DEF ExecFail, img0, progress
  <2>3. /\ TypeState' /\ TypeProgress' /\ TypeCaller'
        /\ img' \in Images /\ cap' \in Caps
    BY <1>2 DEF ExecFail, img0, slots, planner, progress, caller, TypeOK,
       TypeState, TypeProgress, TypeCaller
  <2> QED BY <2>1, <2>2, <2>3 DEF TypeOK
<1> QED BY <1>1, <1>2

LEMMA DiskReadType ==
    ASSUME TypeDisk PROVE \A s \in VSector : DiskRead(s) \in Int
<1> SUFFICES ASSUME NEW s \in VSector PROVE DiskRead(s) \in Int
  OBVIOUS
<1>1. L1Of(s) \in L1Index /\ L2Of(s) \in L2Index
  BY L1OfType
<1>2. s % CS \in Sector
  BY GeometryAssumption DEF VSector, Sector, GeometryAssumption
<1>3. ASSUME NEW e \in Entry PROVE ReadEntry(e, dData, s) \in Int
  <2>1. dData[e.h][s % CS] \in Int
    BY <1>2 DEF TypeDisk, Entry
  <2>2. {Compressed, Junk, Zero, Unmapped} \subseteq Int
    BY DEF Compressed, Junk, Zero, Unmapped, Backing
  <2> QED BY <2>1, <2>2 DEF ReadEntry, Entry, Flag
<1>4. (IF dL1[L1Of(s)].h = 0 THEN NoEntry
       ELSE dTab[dL1[L1Of(s)].h][L2Of(s)]) \in Entry
  BY <1>1, ZeroTypes DEF TypeDisk, Entry, Table
<1> QED BY <1>3, <1>4 DEF DiskRead

\* A request replaces the last one only when the window is empty.
LEMMA StartType ==
    ASSUME TypeOK, NEW voff \in VSector, NEW len \in 0..VSize,
           NEW data \in [VSector -> Int], voff + len <= VSize,
           Start(voff, len, data), buf = <<>>, buf' = <<>>, cap' = cap,
           UNCHANGED <<cur, flushIdx, slot, lru, planner>>
    PROVE  TypeProgress' /\ TypeState' /\ TypeWindow'
<1>1. TypeProgress'
  <2>1. /\ req' = [voff |-> voff, len |-> len, data |-> data]
        /\ consumed' = 0 /\ stage' = "Enter"
    BY DEF Start
  <2>2. req' \in [voff : VSector, len : 0..VSize, data : [VSector -> Int]]
    BY <2>1
  <2>3. req'.voff + req'.len <= VSize /\ consumed' \in 0..req'.len
    BY <2>1
  <2>4. /\ cur' \in [slot : Slots, l2h : Cluster, dh : Cluster, src : Cluster,
                     zpre : BOOLEAN]
        /\ flushIdx' \in Nat
    BY DEF TypeOK, TypeProgress
  <2> QED BY <2>1, <2>2, <2>3, <2>4 DEF TypeProgress, WriteStages
<1>2. TypeState'
  BY DEF Start, planner, TypeOK, TypeState
<1>3. TypeWindow'
  BY DEF TypeOK, TypeWindow
<1> QED BY <1>1, <1>2, <1>3

Caller == Submit \/ Resubmit \/ Resume \/ Complete \/ EndRefused \/ Flush
            \/ Stopped \/ BufFull

LEMMA CallerType == ASSUME TypeOK, Caller PROVE TypeOK'
<1>1. CASE Submit
  <2>0. PICK voff \in VSector : \E len \in 1..(VSize - voff) :
            Start(voff, len, [s \in VSector |-> nreq + 1])
    BY <1>1 DEF Submit
  <2>1. PICK len \in 1..(VSize - voff) :
            Start(voff, len, [s \in VSector |-> nreq + 1])
    BY <2>0
  <2>2. /\ len \in 0..VSize /\ voff + len <= VSize
        /\ [s \in VSector |-> nreq + 1] \in [VSector -> Int]
        /\ buf = <<>> /\ nreq + 1 \in 0..MaxReq
    BY <1>1, GeometryAssumption, EngineAssumption
       DEF Submit, VSector, GeometryAssumption, EngineAssumption, TypeOK, TypeCaller
  <2>3. TypeProgress' /\ TypeState' /\ TypeWindow'
    BY <1>1, <2>1, <2>2, StartType DEF Submit, img0
  <2>4. TypeCaller'
    BY <1>1, <2>1, <2>2 DEF Submit, Start, TypeOK, TypeCaller
  <2>5. TypeStaged' /\ TypeDisk' /\ img' \in Images /\ cap' \in Caps
    BY <1>1 DEF Submit, img0, staged, disk, TypeOK, TypeStaged, TypeDisk
  <2> QED BY <2>3, <2>4, <2>5 DEF TypeOK
<1>2. CASE Resubmit
  <2> DEFINE first == At - InOff
             last == IF first + CS <= VSize THEN first + CS ELSE VSize
             data == [s \in VSector |-> IF At <= s /\ s < At + WinLen
                                       THEN req.data[s] ELSE DiskRead(s)]
  <2>1. Start(first, last - first, data) /\ buf = <<>>
    BY <1>2 DEF Resubmit
  <2>2. data \in [VSector -> Int]
    BY DiskReadType DEF TypeOK, TypeProgress
  <2>3. At \in VSector /\ InOff \in 0..(CS - 1)
    BY <1>2, Position DEF Resubmit, More, TypeOK, TypeCaller
  <2>4. first \in VSector
    BY <2>3, GeometryAssumption DEF InOff, VSector, GeometryAssumption
  <2>5. last - first \in 0..VSize /\ first + (last - first) <= VSize
    BY <2>4, GeometryAssumption DEF VSector, GeometryAssumption
  <2>6. TypeProgress' /\ TypeState' /\ TypeWindow'
    BY <1>2, <2>1, <2>2, <2>4, <2>5, StartType DEF Resubmit, img0
  <2>7. TypeCaller'
    BY <1>2, <2>1 DEF Resubmit, Start, TypeOK, TypeCaller
  <2>8. TypeStaged' /\ TypeDisk' /\ img' \in Images /\ cap' \in Caps
    BY <1>2 DEF Resubmit, img0, staged, disk, TypeOK, TypeStaged, TypeDisk
  <2> QED BY <2>6, <2>7, <2>8 DEF TypeOK
<1>3. CASE Resume \/ Complete \/ EndRefused \/ BufFull \/ Stopped
  <2>1. TypeWindow'
    BY <1>3, SameWindow DEF Resume, Complete, EndRefused, BufFull, Stopped, vars,
       img0, progress
  <2>2. TypeCaller'
    BY <1>3 DEF Resume, Complete, EndRefused, BufFull, Return, Stopped, vars, caller,
       TypeOK, TypeCaller
  <2>3. TypeState' /\ TypeProgress' /\ img' \in Images /\ cap' \in Caps
    BY <1>3 DEF Resume, Complete, EndRefused, BufFull, Stopped, vars, img0, slots,
       planner, progress, TypeOK, TypeState, TypeProgress
  <2>4. TypeStaged' /\ TypeDisk'
    BY <1>3 DEF Resume, Complete, EndRefused, BufFull, Stopped, vars, staged, disk,
       TypeOK, TypeStaged, TypeDisk
  <2> QED BY <2>1, <2>2, <2>3, <2>4 DEF TypeOK
<1>4. CASE Flush
  <2>1. TypeWindow'
    BY <1>4, SameWindow DEF Flush, img0
  <2>2. TypeProgress' /\ TypeState' /\ TypeCaller'
    BY <1>4 DEF Flush, planner, caller, FlushStages, TypeOK, TypeProgress, TypeState,
       TypeCaller
  <2>3. TypeStaged' /\ TypeDisk' /\ img' \in Images /\ cap' \in Caps
    BY <1>4 DEF Flush, img0, staged, disk, TypeOK, TypeStaged, TypeDisk
  <2> QED BY <2>1, <2>2, <2>3 DEF TypeOK
<1> QED BY <1>1, <1>2, <1>3, <1>4 DEF Caller

LEMMA NextType == TypeOK /\ [Next]_vars => TypeOK'
<1> SUFFICES ASSUME TypeOK, [Next]_vars PROVE TypeOK'
  OBVIOUS
<1>1. CASE Next
  BY <1>1, PlanWriteType, PlanFlushType, ExecType, CallerType
     DEF Next, Engine, Caller
<1>2. CASE UNCHANGED vars
  <2>1. TypeWindow'
    BY <1>2, SameWindow DEF vars, img0, progress
  <2>2. TypeState' /\ TypeProgress' /\ img' \in Images /\ cap' \in Caps
    BY <1>2 DEF vars, img0, slots, planner, progress, TypeOK, TypeState, TypeProgress
  <2>3. TypeStaged' /\ TypeDisk' /\ TypeCaller'
    BY <1>2 DEF vars, staged, disk, progress, caller, TypeOK, TypeStaged, TypeDisk,
       TypeCaller
  <2> QED BY <2>1, <2>2, <2>3 DEF TypeOK
<1> QED BY <1>1, <1>2

LEMMA InitType == Init => TypeOK
<1> SUFFICES ASSUME Init PROVE TypeOK
  OBVIOUS
<1>1. img \in Images /\ cap \in Caps /\ img \in Image /\ cap \in Nat
  BY ImagesAssumption, EngineAssumption
     DEF Init, ImagesAssumption, EngineAssumption
<1>2. TypeDisk
  <2>1. \A h \in Cluster : InitData(img, h) \in [Sector -> Int]
    BY DEF InitData, Original, Junk, Cluster
  <2> QED BY <1>1, <2>1 DEF Init, TypeDisk, Image
<1>3. TypeState
  <2>1. 0 \in L1Index /\ 0 \in Slots /\ 0 \in Cluster
    BY ZeroTypes, GeometryAssumption DEF L1Index, GeometryAssumption
  <2>2. lru \in Seq(Slots)
    <3>1. lru = [k \in 1..NSlots |-> k - 1]
      BY DEF Init
    <3>2. NSlots \in Nat /\ \A k \in 1..NSlots : k - 1 \in Slots
      BY EngineAssumption DEF Slots, EngineAssumption
    <3> QED BY <3>1, <3>2
  <2>3. slot = [k \in Slots |-> [valid |-> FALSE, dirty |-> FALSE,
                                 l1 |-> 0, host |-> 0]]
    BY DEF Init
  <2>4. /\ l1Dirty = FALSE /\ rbDirty = {} /\ cursor = 0 /\ pendZero = {}
        /\ sinceBar = FALSE
    BY DEF Init
  <2> QED BY <2>1, <2>2, <2>3, <2>4 DEF TypeState
<1>4. TypeProgress
  <2>1. /\ stage = "idle" /\ consumed = 0 /\ flushIdx = 0
        /\ req = [voff |-> 0, len |-> 0, data |-> [s \in VSector |-> Junk]]
        /\ cur = [slot |-> 0, l2h |-> 0, dh |-> 0, src |-> 0, zpre |-> FALSE]
    BY DEF Init
  <2>2. 0 \in VSector /\ VSize \in Nat /\ Junk \in Int
    BY ZeroTypes, GeometryAssumption DEF VSector, Junk, GeometryAssumption
  <2> QED BY <2>1, <2>2, ZeroTypes DEF TypeProgress
<1>5. TypeStaged
  <2>1. /\ l1 = img.l1 /\ rc = img.rc
        /\ win = [k \in Slots |-> JunkTable]
        /\ bounce = [x \in Sector |-> Junk]
    BY DEF Init
  <2>2. JunkTable \in Table /\ Junk \in Int
    BY TableTypes DEF Junk
  <2> QED BY <1>1, <2>1, <2>2 DEF TypeStaged, Image
<1>6. TypeWindow
  <2>1. buf = <<>>
    BY DEF Init
  <2> QED BY <1>1, <2>1 DEF TypeWindow
<1>7. TypeCaller
  <2>1. view \in [VSector -> Int]
    BY <1>2, DiskReadType DEF Init
  <2>2. /\ pc = "idle" /\ ret = "ok" /\ nreq = 0 /\ refused = FALSE /\ buf = <<>>
    BY DEF Init
  <2>3. nreq \in 0..MaxReq
    BY <2>2, EngineAssumption DEF EngineAssumption
  <2>4. pc # "exec"
    BY <2>2
  <2> QED BY <2>1, <2>2, <2>3, <2>4 DEF TypeCaller
<1> QED BY <1>1, <1>2, <1>3, <1>4, <1>5, <1>6, <1>7 DEF TypeOK

\* The engine never leaves its types, whatever the geometry: indices stay in
\* their tables, refcounts never go below 0, and the window never overflows.
THEOREM TypeCorrect == Spec => []TypeOK
BY InitType, NextType, PTL DEF Spec

-----------------------------------------------------------------------------
(* The order of the writes *)

HasOp(o) == \E n \in 1..Len(buf) : buf[n].op = o
Tailing == {"barrier", "wrb"}

\* Nothing but barriers and refcount blocks follows the L1 or a block.
Followed ==
    \A n \in 1..Len(buf) : buf[n].op \in {"wl1", "wrb"} =>
        \A m \in (n + 1)..Len(buf) : buf[m].op \in Tailing

PastTables == {"L1Barrier", "L1Write", "RbBarrier", "RbWritebacks", "EndBarrier"}
PastL1 == {"RbBarrier", "RbWritebacks", "EndBarrier"}

\* What the flush stages know, and what a window with a late write implies.
Late ==
    /\ stage \in PastTables => NoDirtySlot
    /\ stage \in PastL1 => ~l1Dirty
    /\ stage = "L2Writebacks" =>
          \A k \in Slots : k < flushIdx => ~(slot[k].valid /\ slot[k].dirty)
    /\ HasOp("wl1") \/ HasOp("wrb") =>
          stage \in PastL1 \cup {"idle"} /\ NoDirtySlot /\ ~l1Dirty

\* A clean L1 is on the device, or its write is in the window.
L1Synced == ~l1Dirty => HasOp("wl1") \/ (dL1 = l1 /\ ~HasOp("patch1"))

OrderInv == TypeOK /\ Followed /\ Late /\ L1Synced

LEMMA OrderImplies == OrderInv => RefcountsLast
<1> SUFFICES ASSUME OrderInv, buf # <<>>, Head(buf).op = "wrb"
             PROVE  /\ dL1 = l1 /\ ~l1Dirty /\ NoDirtySlot
                    /\ \A n \in 1..Len(buf) : buf[n].op \in {"wrb", "barrier"}
  BY DEF RefcountsLast
<1>1. buf \in Seq(Step) /\ Len(buf) \in Nat /\ 1 \in 1..Len(buf) /\ buf[1].op = "wrb"
  BY DEF OrderInv, TypeOK, TypeWindow
<1>2. \A n \in 1..Len(buf) : buf[n].op \in {"wrb", "barrier"}
  BY <1>1 DEF OrderInv, Followed, Tailing
<1>3. ~l1Dirty /\ NoDirtySlot
  BY <1>1 DEF OrderInv, Late, HasOp
<1>4. ~HasOp("wl1")
  BY <1>2 DEF HasOp
<1>5. dL1 = l1
  BY <1>3, <1>4 DEF OrderInv, L1Synced
<1> QED BY <1>2, <1>3, <1>5

\* The first step of a window is in it.
LEMMA HeadOp ==
    ASSUME TypeOK, buf # <<>>
    PROVE  HasOp(Head(buf).op)
<1>1. buf \in Seq(Step)
  BY DEF TypeOK, TypeWindow
<1>2. 1 \in 1..Len(buf) /\ buf[1] = Head(buf)
  BY <1>1
<1> QED BY <1>2 DEF HasOp

\* The window after a push, and after its first step was executed.
LEMMA PushOps ==
    ASSUME TypeOK, NEW s \in Step, buf' = Append(buf, s)
    PROVE  /\ \A o : HasOp(o)' <=> HasOp(o) \/ s.op = o
           /\ Followed /\ (HasOp("wl1") \/ HasOp("wrb") => s.op \in Tailing)
                => Followed'
<1>1. /\ buf \in Seq(Step) /\ Len(buf) \in Nat /\ Len(buf') = Len(buf) + 1
      /\ \A n \in 1..Len(buf) : buf'[n] = buf[n]
      /\ buf'[Len(buf) + 1] = s
  BY DEF TypeOK, TypeWindow
<1>2. ASSUME NEW o PROVE HasOp(o)' <=> HasOp(o) \/ s.op = o
  BY <1>1 DEF HasOp
<1>3. ASSUME Followed, HasOp("wl1") \/ HasOp("wrb") => s.op \in Tailing
      PROVE  Followed'
  <2> SUFFICES ASSUME NEW n \in 1..Len(buf'), buf'[n].op \in {"wl1", "wrb"},
                      NEW m \in (n + 1)..Len(buf')
               PROVE  buf'[m].op \in Tailing
    BY DEF Followed
  <2>1. n \in 1..Len(buf) /\ buf[n].op \in {"wl1", "wrb"}
    BY <1>1
  <2>2. CASE m = Len(buf) + 1
    BY <1>1, <1>3, <2>1, <2>2 DEF HasOp
  <2>3. CASE m # Len(buf) + 1
    BY <1>1, <1>3, <2>1, <2>3 DEF Followed
  <2> QED BY <2>2, <2>3
<1> QED BY <1>2, <1>3

LEMMA TailOps ==
    ASSUME TypeOK, buf # <<>>, buf' = Tail(buf)
    PROVE  /\ \A o : HasOp(o)' => HasOp(o)
           /\ \A o : HasOp(o) => HasOp(o)' \/ Head(buf).op = o
           /\ Followed => Followed'
           /\ Followed /\ Head(buf).op = "wl1" => ~HasOp("patch1")'
<1>1. /\ buf \in Seq(Step) /\ Len(buf) \in Nat /\ Len(buf) > 0
      /\ Len(buf') = Len(buf) - 1 /\ Head(buf) = buf[1]
      /\ \A n \in 1..Len(buf') : buf'[n] = buf[n + 1]
  BY DEF TypeOK, TypeWindow
<1>2. ASSUME NEW o, HasOp(o)' PROVE HasOp(o)
  <2>1. PICK n \in 1..Len(buf') : buf'[n].op = o
    BY <1>2 DEF HasOp
  <2>2. n + 1 \in 1..Len(buf) /\ buf[n + 1].op = o
    BY <1>1, <2>1
  <2> QED BY <2>2 DEF HasOp
<1>3. ASSUME NEW o, HasOp(o), Head(buf).op # o PROVE HasOp(o)'
  <2>1. PICK n \in 1..Len(buf) : buf[n].op = o
    BY <1>3 DEF HasOp
  <2>2. n - 1 \in 1..Len(buf') /\ buf'[n - 1].op = o
    BY <1>1, <1>3, <2>1
  <2> QED BY <2>2 DEF HasOp
<1>4. ASSUME Followed PROVE Followed'
  BY <1>1, <1>4 DEF Followed
<1>5. ASSUME Followed, Head(buf).op = "wl1" PROVE ~HasOp("patch1")'
  BY <1>1, <1>5 DEF Followed, HasOp, Tailing
<1> QED BY <1>2, <1>3, <1>4, <1>5

\* What a stage of plan_write may do to the window and to the L1.
Planned ==
    /\ stage \in WriteStages /\ stage' \in WriteStages \cup {"idle"}
    /\ UNCHANGED <<l1, dL1>>
    /\ l1Dirty' = l1Dirty \/ l1Dirty'
    /\ \/ buf' = buf
       \/ \E s \in Step : /\ buf' = Append(buf, s)
                          /\ s.op \notin {"wl1", "wrb"}
                          /\ s.op = "patch1" => l1Dirty'

LEMMA PlannedOrder ==
    ASSUME OrderInv, Planned, TypeOK'
    PROVE  OrderInv'
<1>1. ~HasOp("wl1") /\ ~HasOp("wrb")
  BY DEF OrderInv, Late, Planned, PastL1, WriteStages
<1>2. CASE buf' = buf
  <2>1. \A o : HasOp(o)' <=> HasOp(o)
    BY <1>2 DEF HasOp
  <2>2. Followed'
    BY <1>2 DEF OrderInv, Followed
  <2>3. Late'
    BY <1>1, <2>1 DEF Late, Planned, PastTables, PastL1, WriteStages
  <2>4. L1Synced'
    BY <1>1, <2>1 DEF OrderInv, L1Synced, Planned
  <2> QED BY <2>2, <2>3, <2>4 DEF OrderInv
<1>3. CASE \E s \in Step : /\ buf' = Append(buf, s)
                           /\ s.op \notin {"wl1", "wrb"}
                           /\ s.op = "patch1" => l1Dirty'
  <2>1. PICK s \in Step : /\ buf' = Append(buf, s)
                          /\ s.op \notin {"wl1", "wrb"}
                          /\ s.op = "patch1" => l1Dirty'
    BY <1>3
  <2>2. /\ \A o : HasOp(o)' <=> HasOp(o) \/ s.op = o
        /\ Followed'
    BY <1>1, <2>1, PushOps DEF OrderInv
  <2>3. Late'
    BY <1>1, <2>1, <2>2 DEF Late, Planned, PastTables, PastL1, WriteStages
  <2>4. L1Synced'
    BY <1>1, <2>1, <2>2 DEF OrderInv, L1Synced, Planned
  <2> QED BY <2>2, <2>3, <2>4 DEF OrderInv
<1> QED BY <1>2, <1>3 DEF Planned

LEMMA PlanWriteOrder == ASSUME OrderInv, PlanWrite PROVE Planned
<1>0. TypeOK
  BY DEF OrderInv
<1>1. CASE EnterHit
  BY <1>1 DEF EnterHit, Planned, WriteStages, Stage, Planning, disk, staged,
     planner
<1>2. CASE EnterMiss
  BY <1>2, <1>0, StepTypes, StepOps DEF EnterMiss, Planned, WriteStages,
     Stage, Planning, disk, staged, TypeOK, TypeState, Push
<1>3. CASE SlotFreeAlloc
  BY <1>3 DEF SlotFreeAlloc, Planned, WriteStages, Stage, Planning, disk,
     staged, planner
<1>4. CASE SlotFreeLoad
  BY <1>4, <1>0, EntryHost, StepTypes, StepOps DEF SlotFreeLoad, Planned,
     WriteStages, Stage, Planning, disk, staged, TypeOK, TypeProgress, Push,
     Return
<1>5. CASE FreshAlloc
  BY <1>5, <1>0, StepTypes, StepOps DEF FreshAlloc, Planned, WriteStages,
     Stage, Planning, disk, staged, TypeOK, TypeProgress, Push
<1>6. CASE FreshZeroed
  BY <1>6, <1>0, PatchTypes, StepTypes, StepOps DEF FreshZeroed, Planned,
     WriteStages, Stage, Planning, disk, staged, Push
<1>7. CASE CowL2Load
  BY <1>7, <1>0, StepTypes, StepOps DEF CowL2Load, Planned, WriteStages,
     Stage, Planning, disk, staged, TypeOK, TypeProgress, Push
<1>8. CASE CowL2Repoint
  BY <1>8, <1>0, PatchTypes, StepTypes, StepOps DEF CowL2Repoint, Planned,
     WriteStages, Stage, Planning, disk, staged, Push
<1>9. CASE CowL2Decrement
  BY <1>9 DEF CowL2Decrement, Planned, WriteStages, Stage, Planning, disk,
     staged, planner, Return
<1>10. CASE OverwriteOwned
  BY <1>10, <1>0, BodyStepType, EntHost DEF OverwriteOwned, Planned,
     WriteStages, Stage, Planning, disk, staged, FinishCluster, Push
<1>11. CASE ReuseZero
  BY <1>11 DEF ReuseZero, Planned, WriteStages, Stage, Planning, disk, staged,
     planner
<1>12. CASE SlotReadyAlloc
  BY <1>12 DEF SlotReadyAlloc, Planned, WriteStages, Stage, Planning, disk,
     staged, planner
<1>16. CASE TailDone
  BY <1>16, <1>0, PatchTypes, StepTypes, StepOps DEF TailDone, Planned,
     WriteStages, Stage, Planning, disk, staged, Patch, FinishCluster, Push
<1>22. CASE CowPatch
  BY <1>22, <1>0, PatchTypes, StepTypes, StepOps DEF CowPatch, Planned,
     WriteStages, Stage, Planning, disk, staged, Patch, Push
<1>23. CASE CowDataDecrement
  BY <1>23 DEF CowDataDecrement, Planned, WriteStages, Stage, Planning, disk,
     staged, FinishCluster, planner
<1>24. CASE Refuse
  BY <1>24 DEF Refuse, Planned, WriteStages, Stage, Planning, disk, staged,
     planner, Return, Refuses
<1>25. CASE RefuseFill
  BY <1>25 DEF RefuseFill, Planned, WriteStages, Stage, Planning, disk,
     staged, planner, Return
<1>26. CASE WritePlanned
  BY <1>26 DEF WritePlanned, Planned, WriteStages, Stage, Planning, disk,
     staged, planner, Return
<1>27. CASE HeadFill \/ Body \/ TailFill \/ CowFull \/ CowZero \/ CowRead
             \/ CowCopy \/ CowBody
  <2>1. More /\ cur.dh \in Cluster /\ cur.src \in Cluster /\ CS \in Nat
    BY <1>0, <1>27, GeometryAssumption
       DEF HeadFill, Body, TailFill, CowFull, CowZero, CowRead, CowCopy, CowBody,
           Emit, Stage, TypeOK, TypeProgress, GeometryAssumption
  <2>2. InOff \in Nat /\ TailOff \in Nat /\ CS - TailOff \in Nat
    BY <1>0, <2>1, Position DEF TailOff
  <2>3. PICK from \in WriteStages, to \in WriteStages, wanted \in BOOLEAN,
             s \in Step :
               s.op \notin {"wl1", "wrb", "patch1"} /\ Emit(from, to, wanted, s)
    <3>1. /\ BodyStep(cur.dh) \in Step /\ BodyStep(cur.dh).op = "body"
      BY <1>0, <2>1, BodyStepType
    <3>2. /\ Blank \in Step /\ ReadStep(cur.src) \in Step /\ CopyStep(cur.dh) \in Step
          /\ ZeroRangeStep(cur.dh, 0, CS) \in Step
          /\ ZeroRangeStep(cur.dh, 0, InOff) \in Step
          /\ ZeroRangeStep(cur.dh, TailOff, CS - TailOff) \in Step
      BY <2>1, <2>2, StepTypes
    <3>3. /\ (InOff > 0) \in BOOLEAN /\ (TailOff < CS) \in BOOLEAN
      OBVIOUS
    <3>4. /\ BodyStep(cur.dh).op \notin {"wl1", "wrb", "patch1"}
          /\ Blank.op \notin {"wl1", "wrb", "patch1"}
          /\ ReadStep(cur.src).op \notin {"wl1", "wrb", "patch1"}
          /\ CopyStep(cur.dh).op \notin {"wl1", "wrb", "patch1"}
          /\ ZeroRangeStep(cur.dh, 0, CS).op \notin {"wl1", "wrb", "patch1"}
          /\ ZeroRangeStep(cur.dh, 0, InOff).op \notin {"wl1", "wrb", "patch1"}
          /\ ZeroRangeStep(cur.dh, TailOff, CS - TailOff).op \notin {"wl1", "wrb", "patch1"}
      BY <3>1, StepOps
    <3>5. /\ "DataAlloc" \in WriteStages /\ "HeadDone" \in WriteStages
          /\ "BodyDone" \in WriteStages /\ "TailDone" \in WriteStages
          /\ "CowDataEnter" \in WriteStages /\ "CowDataCopy" \in WriteStages
          /\ "CowDataBody" \in WriteStages /\ "CowDataPatch" \in WriteStages
      BY DEF WriteStages
    <3>6. CASE HeadFill
      BY <3>6, <3>1, <3>2, <3>3, <3>4, <3>5, Zenon DEF HeadFill
    <3>7. CASE Body
      BY <3>7, <3>1, <3>2, <3>3, <3>4, <3>5, Zenon DEF Body
    <3>8. CASE TailFill
      BY <3>8, <3>1, <3>2, <3>3, <3>4, <3>5, Zenon DEF TailFill
    <3>9. CASE CowFull
      BY <3>9, <3>1, <3>2, <3>3, <3>4, <3>5, Zenon DEF CowFull
    <3>10. CASE CowZero
      BY <3>10, <3>1, <3>2, <3>3, <3>4, <3>5, Zenon DEF CowZero
    <3>11. CASE CowRead
      BY <3>11, <3>1, <3>2, <3>3, <3>4, <3>5, Zenon DEF CowRead
    <3>12. CASE CowCopy
      BY <3>12, <3>1, <3>2, <3>3, <3>4, <3>5, Zenon DEF CowCopy
    <3>13. CASE CowBody
      BY <3>13, <3>1, <3>2, <3>3, <3>4, <3>5, Zenon DEF CowBody
    <3> QED BY <1>27, <3>6, <3>7, <3>8, <3>9, <3>10, <3>11, <3>12, <3>13
  <2> QED BY <2>3 DEF Emit, Stage, Planned, Push, staged, disk
<1> QED
  BY <1>1, <1>2, <1>3, <1>4, <1>5, <1>6, <1>7, <1>8, <1>9, <1>10, <1>11,
     <1>12, <1>16, <1>22, <1>23, <1>24, <1>25, <1>26, <1>27 DEF PlanWrite

LEMMA BarrierOps ==
    ASSUME TypeOK, Barrier
    PROVE  /\ \A o \in {"wl1", "wrb", "patch1"} : HasOp(o)' <=> HasOp(o)
           /\ Followed => Followed'
<1>1. CASE sinceBar
  <2>1. buf' = Append(buf, Blank)
    BY <1>1 DEF Barrier, Push
  <2> QED BY <2>1, PushOps, StepTypes, StepOps DEF Tailing
<1>2. CASE ~sinceBar
  BY <1>2 DEF Barrier, HasOp, Followed
<1> QED BY <1>1, <1>2

\* A stage of plan_flush that emits a barrier or nothing.
Passed(to) ==
    /\ Barrier \/ buf' = buf
    /\ stage' = to
    /\ UNCHANGED <<slot, l1Dirty, l1, dL1>>
    /\ HasOp("wl1") \/ HasOp("wrb") => to \in PastL1 \cup {"idle"}
    /\ to \in PastTables => NoDirtySlot
    /\ to \in PastL1 => ~l1Dirty
    /\ to = "L2Writebacks" => flushIdx' = 0

LEMMA PassedOrder ==
    ASSUME OrderInv, NEW to, Passed(to), TypeOK'
    PROVE  OrderInv'
<1>1. /\ \A o \in {"wl1", "wrb", "patch1"} : HasOp(o)' <=> HasOp(o)
      /\ Followed'
  <2>1. CASE Barrier
    BY <2>1, BarrierOps DEF OrderInv
  <2>2. CASE buf' = buf
    BY <2>2 DEF OrderInv, HasOp, Followed
  <2> QED BY <2>1, <2>2 DEF Passed
<1>2. NoDirtySlot' <=> NoDirtySlot
  BY DEF Passed, NoDirtySlot
<1>3. Slots \subseteq Nat
  BY DEF Slots
<1>4. Late'
  BY <1>1, <1>2, <1>3 DEF OrderInv, Late, Passed
<1>5. L1Synced'
  BY <1>1 DEF OrderInv, L1Synced, Passed
<1> QED BY <1>1, <1>4, <1>5 DEF OrderInv

LEMMA PlanFlushOrder ==
    ASSUME OrderInv, PlanFlush, TypeOK'
    PROVE  OrderInv'
<1>0. /\ TypeOK /\ Followed /\ Late /\ L1Synced
      /\ Slots \subseteq Nat /\ flushIdx \in Nat
  BY DEF OrderInv, Slots, TypeOK, TypeProgress
<1>1. CASE PreBarrier
  <2>1. Passed("L2Writebacks")
    BY <1>0, <1>1 DEF PreBarrier, BarrierStage, FStage, Passed, Late, PastL1,
       PastTables, slots, staged, disk
  <2> QED BY <2>1, PassedOrder
<1>2. CASE L2Writeback
  <2>1. PICK k \in DirtySlots :
            /\ \A x \in DirtySlots : k <= x
            /\ Push(WritebackStep(k, slot[k].host))
            /\ slot' = [slot EXCEPT ![k].dirty = FALSE]
            /\ flushIdx' = k + 1
    BY <1>2 DEF L2Writeback
  <2>2. k \in Slots /\ slot[k].host \in Cluster
    BY <1>0, <2>1 DEF DirtySlots, TypeOK, TypeState
  <2>3. ~HasOp("wl1") /\ ~HasOp("wrb")
    BY <1>0, <1>2 DEF L2Writeback, FStage, Late, PastL1
  <2>4. /\ \A o : HasOp(o)' <=> HasOp(o) \/ o = "wb"
        /\ Followed'
    <3>1. WritebackStep(k, slot[k].host) \in Step
      BY <2>2, StepTypes
    <3>2. WritebackStep(k, slot[k].host).op = "wb"
      BY StepOps
    <3> QED BY <1>0, <2>1, <2>3, <3>1, <3>2, PushOps DEF Push
  <2>5. \A x \in Slots : x < k + 1 => ~(slot'[x].valid /\ slot'[x].dirty)
    <3> SUFFICES ASSUME NEW x \in Slots, x < k + 1
                 PROVE  ~(slot'[x].valid /\ slot'[x].dirty)
      OBVIOUS
    <3>1. CASE x = k
      BY <1>0, <2>1, <2>2, <3>1 DEF TypeOK, TypeState
    <3>2. CASE x # k
      <4>1. x < k /\ slot'[x] = slot[x]
        BY <1>0, <2>1, <2>2, <3>2 DEF TypeOK, TypeState
      <4>2. x \notin DirtySlots
        BY <1>0, <2>1, <2>2, <4>1
      <4>3. CASE x < flushIdx
        BY <1>0, <1>2, <4>1, <4>3 DEF Late, L2Writeback, FStage
      <4>4. CASE ~(x < flushIdx)
        BY <1>0, <4>1, <4>2, <4>4 DEF DirtySlots
      <4> QED BY <4>3, <4>4
    <3> QED BY <3>1, <3>2
  <2>6. Late'
    BY <1>2, <2>1, <2>3, <2>4, <2>5
       DEF Late, L2Writeback, FStage, PastTables, PastL1
  <2>7. L1Synced'
    BY <1>0, <1>2, <2>3, <2>4 DEF L1Synced, L2Writeback, staged, disk
  <2> QED BY <2>4, <2>6, <2>7 DEF OrderInv
<1>3. CASE L2WritebacksDone
  <2>1. NoDirtySlot
    BY <1>0, <1>3 DEF L2WritebacksDone, SkipStage, FStage, DirtySlots, Late,
       NoDirtySlot
  <2>2. Passed("L1Barrier")
    BY <1>0, <1>3, <2>1 DEF L2WritebacksDone, SkipStage, FStage, Passed, Late,
       PastL1, PastTables, slots, planner, staged, disk
  <2> QED BY <2>2, PassedOrder
<1>4. CASE L1Barrier
  <2>1. Passed("L1Write")
    BY <1>0, <1>4 DEF L1Barrier, BarrierStage, FStage, Passed, Late, PastL1,
       PastTables, slots, staged, disk
  <2> QED BY <2>1, PassedOrder
<1>5. CASE L1Clean
  <2>1. Passed("RbBarrier")
    BY <1>0, <1>5 DEF L1Clean, SkipStage, FStage, Passed, Late, PastL1,
       PastTables, slots, planner, staged, disk
  <2> QED BY <2>1, PassedOrder
<1>6. CASE L1Write
  <2>1. buf' = Append(buf, WriteL1Step) /\ ~HasOp("wl1") /\ ~HasOp("wrb")
    BY <1>0, <1>6 DEF L1Write, FStage, Push, Late, PastL1
  <2>2. /\ \A o : HasOp(o)' <=> HasOp(o) \/ o = "wl1"
        /\ Followed'
    BY <1>0, <2>1, PushOps, StepTypes, StepOps
  <2>3. NoDirtySlot'
    BY <1>0, <1>6 DEF L1Write, FStage, Late, PastTables, NoDirtySlot, slots
  <2>4. Late'
    BY <1>6, <2>3 DEF Late, L1Write, PastTables, PastL1
  <2>5. L1Synced'
    BY <2>2 DEF L1Synced
  <2> QED BY <2>2, <2>4, <2>5 DEF OrderInv
<1>7. CASE RbBarrier
  <2>1. Passed("RbWritebacks")
    BY <1>0, <1>7 DEF RbBarrier, BarrierStage, FStage, Passed, Late, PastL1,
       PastTables, slots, staged, disk
  <2> QED BY <2>1, PassedOrder
<1>8. CASE RbClean
  <2>1. Passed("EndBarrier")
    BY <1>0, <1>8 DEF RbClean, SkipStage, FStage, Passed, Late, PastL1,
       PastTables, slots, planner, staged, disk
  <2> QED BY <2>1, PassedOrder
<1>9. CASE RbWriteback
  <2>1. PICK blk \in Nat : buf' = Append(buf, WriteBlockStep(blk))
    <3>1. PICK b \in DirtyBlocks : Push(WriteBlockStep(b))
      BY <1>9 DEF RbWriteback
    <3>2. rbDirty \subseteq Nat
      BY <1>0 DEF TypeOK, TypeState, Block
    <3>3. b \in Nat
      BY <3>1, <3>2 DEF DirtyBlocks
    <3> QED BY <3>1, <3>3 DEF Push
  <2>2. /\ \A o : HasOp(o)' <=> HasOp(o) \/ o = "wrb"
        /\ Followed'
    BY <1>0, <2>1, PushOps, StepTypes, StepOps DEF Tailing
  <2>3. NoDirtySlot' /\ ~l1Dirty'
    BY <1>0, <1>9 DEF RbWriteback, FStage, Late, PastTables, PastL1, NoDirtySlot,
       slots
  <2>4. Late'
    BY <1>9, <2>3 DEF Late, RbWriteback, FStage, PastTables, PastL1
  <2>5. L1Synced'
    BY <1>0, <1>9, <2>2, <2>3 DEF L1Synced, RbWriteback, staged, disk
  <2> QED BY <2>2, <2>4, <2>5 DEF OrderInv
<1>10. CASE RbWritebacksDone
  <2>1. Passed("EndBarrier")
    BY <1>0, <1>10 DEF RbWritebacksDone, SkipStage, FStage, Passed, Late, PastL1,
       PastTables, slots, planner, staged, disk
  <2> QED BY <2>1, PassedOrder
<1>11. CASE EndBarrier
  <2>1. Passed("idle")
    BY <1>0, <1>11 DEF EndBarrier, FStage, Passed, Late, PastL1, PastTables,
       slots, staged, disk
  <2> QED BY <2>1, PassedOrder
<1> QED BY <1>1, <1>2, <1>3, <1>4, <1>5, <1>6, <1>7, <1>8, <1>9, <1>10, <1>11
        DEF PlanFlush

LEMMA ExecOrder ==
    ASSUME OrderInv, Exec \/ ExecFail, TypeOK'
    PROVE  OrderInv'
<1>0. TypeOK /\ Followed /\ Late /\ L1Synced
  BY DEF OrderInv
<1>1. CASE Exec
  <2>1. /\ \A o : HasOp(o)' => HasOp(o)
        /\ \A o : HasOp(o) => HasOp(o)' \/ Head(buf).op = o
        /\ Followed'
        /\ Head(buf).op = "wl1" => ~HasOp("patch1")'
    BY <1>0, <1>1, TailOps DEF Exec
  <2>2. Late'
    BY <1>0, <1>1, <2>1 DEF Exec, Late, NoDirtySlot, slots, planner, progress
  <2>3. L1Synced'
    <3> SUFFICES ASSUME ~l1Dirty' PROVE HasOp("wl1")' \/ (dL1' = l1' /\ ~HasOp("patch1")')
      BY DEF L1Synced
    <3>1. ~l1Dirty
      BY <1>1 DEF Exec, planner
    <3>2. CASE Head(buf).op = "wl1"
      <4>1. WriteL1(NL1)
        BY <1>1, <3>2 DEF Exec, Apply, Units
      <4>2. dL1' = [i \in L1Index |-> l1[i]]
        BY <4>1, GeometryAssumption DEF WriteL1, L1Index, GeometryAssumption
      <4>3. dL1' = l1 /\ l1' = l1
        BY <1>0, <4>1, <4>2 DEF WriteL1, staged, TypeOK, TypeStaged
      <4> QED BY <2>1, <3>2, <4>3
    <3>3. CASE Head(buf).op # "wl1" /\ HasOp("wl1")
      BY <2>1, <3>3
    <3>4. CASE Head(buf).op # "wl1" /\ ~HasOp("wl1")
      <4>1. dL1 = l1 /\ ~HasOp("patch1")
        BY <1>0, <3>1, <3>4 DEF L1Synced
      <4>2. Head(buf).op # "patch1"
        BY <1>0, <1>1, <4>1, HeadOp DEF Exec
      <4>3. dL1' = dL1 /\ l1' = l1
        BY <1>1, <3>4, <4>2 DEF Exec, Apply, MemStep, WriteSectors, WriteTable,
           WriteBlock, ExecBarrier, staged, disk
      <4> QED BY <2>1, <4>1, <4>3
    <3> QED BY <3>2, <3>3, <3>4
  <2> QED BY <2>1, <2>2, <2>3 DEF OrderInv
<1>2. CASE ExecFail
  <2>1. \A o : HasOp(o)' <=> HasOp(o)
    BY <1>2 DEF ExecFail, HasOp
  <2>2. Followed'
    BY <1>0, <1>2 DEF ExecFail, Followed
  <2>3. Late'
    BY <1>0, <1>2, <2>1 DEF ExecFail, Late, NoDirtySlot, slots, planner, progress
  <2>4. L1Synced'
    <3>1. CASE HasOp("wl1")
      BY <2>1, <3>1 DEF L1Synced
    <3>2. CASE ~HasOp("wl1")
      <4>1. Head(buf).op # "wl1"
        BY <1>0, <1>2, <3>2, HeadOp DEF ExecFail
      <4>2. dL1' = dL1 /\ l1' = l1
        BY <1>2, <4>1 DEF ExecFail, Apply, MemStep, WriteSectors, WriteTable,
           WriteBlock, ExecBarrier, staged, disk
      <4> QED BY <1>0, <1>2, <2>1, <3>2, <4>2 DEF L1Synced, ExecFail, planner
    <3> QED BY <3>1, <3>2
  <2> QED BY <2>2, <2>3, <2>4 DEF OrderInv
<1> QED BY <1>1, <1>2

LEMMA CallerOrder ==
    ASSUME OrderInv, Caller, TypeOK'
    PROVE  OrderInv'
<1>0. TypeOK /\ Followed /\ Late /\ L1Synced
  BY DEF OrderInv
<1>1. buf' = buf /\ UNCHANGED <<slot, l1Dirty, l1, dL1>>
  BY DEF Caller, Submit, Resubmit, Resume, Complete, EndRefused, Flush, Stopped,
     BufFull, vars, slots, planner, staged, disk
<1>2. \/ UNCHANGED <<stage, flushIdx>>
      \/ buf = <<>> /\ stage' \in {"Enter", "PreBarrier"}
  BY <1>0 DEF Caller, Submit, Resubmit, Start, Resume, Complete, EndRefused, Flush,
     Stopped, BufFull, vars, progress, TypeOK, TypeCaller
<1>3. /\ \A o : HasOp(o)' <=> HasOp(o)
      /\ Followed' /\ (NoDirtySlot' <=> NoDirtySlot)
  BY <1>0, <1>1 DEF HasOp, Followed, NoDirtySlot
<1>4. L1Synced'
  BY <1>0, <1>1, <1>3 DEF L1Synced
<1>5. Late'
  <2>1. CASE UNCHANGED <<stage, flushIdx>>
    BY <1>0, <1>1, <1>3, <2>1 DEF Late
  <2>2. CASE buf = <<>> /\ stage' \in {"Enter", "PreBarrier"}
    <3>1. \A o : ~HasOp(o)
      BY <2>2 DEF HasOp
    <3> QED BY <1>3, <2>2, <3>1 DEF Late, PastTables, PastL1
  <2> QED BY <1>2, <2>1, <2>2
<1> QED BY <1>3, <1>4, <1>5 DEF OrderInv

LEMMA NextOrder == OrderInv /\ [Next]_vars => OrderInv'
<1> SUFFICES ASSUME OrderInv, [Next]_vars PROVE OrderInv'
  OBVIOUS
<1>1. TypeOK'
  BY NextType DEF OrderInv
<1>2. CASE PlanWrite
  BY <1>1, <1>2, PlanWriteOrder, PlannedOrder
<1>3. CASE PlanFlush
  BY <1>1, <1>3, PlanFlushOrder
<1>4. CASE Exec \/ ExecFail
  BY <1>1, <1>4, ExecOrder
<1>5. CASE Caller
  BY <1>1, <1>5, CallerOrder
<1>6. CASE UNCHANGED vars
  BY <1>1, <1>6 DEF vars, slots, planner, progress, staged, disk, OrderInv,
     Followed, Late, L1Synced, NoDirtySlot, HasOp
<1> QED BY <1>2, <1>3, <1>4, <1>5, <1>6 DEF Next, Engine, Caller

LEMMA InitOrder == Init => OrderInv
<1> SUFFICES ASSUME Init PROVE OrderInv
  OBVIOUS
<1>1. buf = <<>> /\ stage = "idle" /\ dL1 = l1
  BY DEF Init
<1>2. \A o : ~HasOp(o)
  BY <1>1 DEF HasOp
<1>3. Followed
  BY <1>1 DEF Followed
<1>4. Late /\ L1Synced
  BY <1>1, <1>2 DEF Late, L1Synced, PastTables, PastL1
<1> QED BY <1>3, <1>4, InitType DEF OrderInv

\* plan_flush's order survives any split into windows and any torn step: no
\* refcount block is written before every pointer of the epoch.
THEOREM RefcountsAreLast == Spec => []RefcountsLast
BY InitOrder, NextOrder, OrderImplies, PTL DEF Spec
=============================================================================
