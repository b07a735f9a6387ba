-------------------------- MODULE Qcow2PlanProofs ---------------------------
(***************************************************************************)
(* The types of what the write engine is built from, and that no stage of  *)
(* plan_write leaves them: the larger half of the proof that TypeOK is an  *)
(* invariant.                                                              *)
(***************************************************************************)
EXTENDS Qcow2Write, TLAPS

LEMMA DivBound ==
    ASSUME NEW a \in Nat, NEW b \in Nat, NEW n \in Nat \ {0}, a < b * n
    PROVE  a \div n \in 0..(b - 1)
<1>1. a \div n \in Nat
  OBVIOUS
<1>2. a \div n < b
  BY Z3
<1> QED BY <1>1, <1>2

LEMMA BlockOfType == \A h \in Cluster : BlockOf(h) \in Block
<1> SUFFICES ASSUME NEW h \in Cluster PROVE BlockOf(h) \in Block
  OBVIOUS
<1>1. NBlocks * EPB \in Nat
  BY GeometryAssumption DEF GeometryAssumption
<1>2. h \in Nat /\ h < NBlocks * EPB
  BY <1>1 DEF Cluster
<1> QED BY <1>2, DivBound, GeometryAssumption DEF BlockOf, Block, GeometryAssumption

LEMMA L1OfType == \A s \in VSector : L1Of(s) \in L1Index /\ L2Of(s) \in L2Index
<1> SUFFICES ASSUME NEW s \in VSector
             PROVE  L1Of(s) \in L1Index /\ L2Of(s) \in L2Index
  OBVIOUS
<1>1. s \in Nat /\ s < (NL1 * NL2) * CS
  BY GeometryAssumption DEF VSector, GeometryAssumption
<1>2. NL1 * NL2 \in Nat
  BY GeometryAssumption DEF GeometryAssumption
<1>3. GuestCluster(s) \in 0..(NL1 * NL2 - 1)
  BY <1>1, <1>2, DivBound, GeometryAssumption DEF GuestCluster, GeometryAssumption
<1>4. L1Of(s) \in L1Index
  BY <1>2, <1>3, DivBound, GeometryAssumption DEF L1Of, L1Index, GeometryAssumption
<1>5. L2Of(s) \in L2Index
  BY <1>2, <1>3, GeometryAssumption DEF L2Of, L2Index, GeometryAssumption
<1> QED BY <1>4, <1>5

\* The cluster a request is at lies in the image, and the part of it that the
\* request covers lies in the cluster and in the request.
LEMMA Position ==
    ASSUME TypeOK, More
    PROVE  /\ At \in VSector /\ I \in L1Index /\ J \in L2Index
           /\ InOff \in 0..(CS - 1) /\ WinLen \in 1..CS
           /\ InOff + WinLen <= CS /\ consumed + WinLen <= req.len
<1>1. At \in VSector
  BY GeometryAssumption
     DEF TypeOK, TypeProgress, More, At, VSector, GeometryAssumption
<1>2. I \in L1Index /\ J \in L2Index
  BY <1>1, L1OfType DEF I, J
<1>3. InOff \in 0..(CS - 1)
  BY <1>1, GeometryAssumption DEF InOff, VSector, GeometryAssumption
<1>4. WinLen \in 1..CS /\ InOff + WinLen <= CS /\ consumed + WinLen <= req.len
  BY <1>3, GeometryAssumption
     DEF TypeOK, TypeProgress, More, WinLen, GeometryAssumption
<1> QED BY <1>1, <1>2, <1>3, <1>4

LEMMA ZeroTypes == 0 \in Cluster /\ 0 \in Slots /\ NoEntry \in Entry
<1>1. NBlocks * EPB \in Nat \ {0}
  BY GeometryAssumption, Z3 DEF GeometryAssumption
<1>2. 0 \in Cluster
  BY <1>1 DEF Cluster
<1> QED BY <1>2, EngineAssumption DEF EngineAssumption, Slots, NoEntry, Entry, Flag

LEMMA TableTypes ==
    /\ JunkTable \in Table /\ EmptyTable \in Table
    /\ \A h \in Cluster : Owned(h) \in Entry
BY ZeroTypes DEF JunkTable, EmptyTable, JunkEntry, Table, Entry, Flag, Owned

LEMMA EntType == ASSUME TypeOK, More PROVE Ent \in Entry
BY Position, ZeroTypes DEF TypeOK, TypeStaged, TypeProgress, Ent, Table

\* The steps the planner emits are steps.
LEMMA StepTypes ==
    /\ Blank \in Step /\ WriteL1Step \in Step
    /\ \A k \in Slots : ZeroRegionStep(k) \in Step
    /\ \A k \in Slots, h \in Cluster :
          LoadStep(k, h) \in Step /\ WritebackStep(k, h) \in Step
    /\ \A i \in Nat, e \in Entry : PatchL1Step(i, e) \in Step
    /\ \A k \in Slots, j \in Nat, e \in Entry : PatchL2Step(k, j, e) \in Step
    /\ \A h \in Cluster, a \in Nat, n \in Nat : ZeroRangeStep(h, a, n) \in Step
    /\ \A h \in Cluster : ReadStep(h) \in Step /\ CopyStep(h) \in Step
    /\ \A b \in Nat : WriteBlockStep(b) \in Step
BY ZeroTypes DEF Blank, WriteL1Step, ZeroRegionStep, LoadStep, WritebackStep,
   PatchL1Step, PatchL2Step, ZeroRangeStep, ReadStep, CopyStep, WriteBlockStep,
   Step, StepOp

LEMMA StepOps ==
    /\ Blank.op = "barrier" /\ WriteL1Step.op = "wl1"
    /\ \A k : ZeroRegionStep(k).op = "zregion"
    /\ \A k, h : LoadStep(k, h).op = "load" /\ WritebackStep(k, h).op = "wb"
    /\ \A i, e : PatchL1Step(i, e).op = "patch1"
    /\ \A k, j, e : PatchL2Step(k, j, e).op = "patch2"
    /\ \A h, a, n : ZeroRangeStep(h, a, n).op = "zero"
    /\ \A h : ReadStep(h).op = "read" /\ CopyStep(h).op = "copy"
    /\ \A b : WriteBlockStep(b).op = "wrb"
BY DEF Blank, WriteL1Step, ZeroRegionStep, LoadStep, WritebackStep,
   PatchL1Step, PatchL2Step, ZeroRangeStep, ReadStep, CopyStep, WriteBlockStep

InRequest(s) == s.op = "body" => s.from + s.len <= req.len /\ s.at + s.len <= CS

LEMMA BodyStepType ==
    ASSUME TypeOK, More, NEW h \in Cluster
    PROVE  BodyStep(h) \in Step /\ InRequest(BodyStep(h)) /\ BodyStep(h).op = "body"
<1>1. /\ InOff \in Nat /\ WinLen \in Nat /\ consumed \in Nat
      /\ consumed + WinLen <= req.len /\ InOff + WinLen <= CS
  BY Position, GeometryAssumption DEF TypeOK, TypeProgress, GeometryAssumption
<1>2. BodyStep(h) = [op |-> "body", slot |-> 0, h |-> h, at |-> InOff,
                     len |-> WinLen, from |-> consumed, e |-> NoEntry]
  BY DEF BodyStep
<1>3. BodyStep(h) \in Step
  <2>1. "body" \in StepOp
    BY DEF StepOp
  <2> QED BY <1>1, <1>2, <2>1, ZeroTypes DEF Step
<1> QED BY <1>1, <1>2, <1>3 DEF InRequest

\* StepBuf::push keeps the window within its capacity.
LEMMA PushType ==
    ASSUME TypeOK, NEW s \in Step, InRequest(s), Push(s), UNCHANGED <<req, cap>>
    PROVE  TypeWindow' /\ sinceBar' \in BOOLEAN
<1>1. cap \in Nat
  BY EngineAssumption DEF TypeOK, EngineAssumption
<1>2. buf' \in Seq(Step) /\ Len(buf') = Len(buf) + 1 /\ Len(buf) \in Nat
  BY DEF TypeOK, TypeWindow, Push
<1>3. Len(buf') <= cap'
  BY <1>1, <1>2 DEF Push, Room
<1>4. ASSUME NEW n \in 1..Len(buf') PROVE InRequest(buf'[n])
  BY <1>2 DEF TypeOK, TypeWindow, Push, InRequest
<1> QED BY <1>2, <1>3, <1>4 DEF TypeWindow, Push, InRequest

LEMMA SameWindow ==
    ASSUME TypeOK, UNCHANGED <<buf, req, cap>>
    PROVE  TypeWindow'
BY DEF TypeOK, TypeWindow

\* Growing the window of an operation that is not idle.
LEMMA TouchType ==
    ASSUME TypeOK, NEW k \in Slots, Touch(k)
    PROVE  lru' \in Seq(Slots)
BY DEF TypeOK, TypeState, Touch

LEMMA AllocType ==
    ASSUME TypeOK, NEW h \in Cluster, Alloc(h)
    PROVE  /\ rc' \in [Cluster -> Nat] /\ cursor' \in Nat
           /\ rbDirty' \subseteq Block
BY BlockOfType DEF TypeOK, TypeState, TypeStaged, Alloc, Cluster

LEMMA DecrementType ==
    ASSUME TypeOK, NEW h \in Cluster, rc[h] > 0, Decrement(h)
    PROVE  rc' \in [Cluster -> Nat] /\ rbDirty' \subseteq Block
BY BlockOfType DEF TypeOK, TypeState, TypeStaged, Decrement

LEMMA FillType ==
    ASSUME TypeOK, More, NEW k \in Slots, NEW d \in BOOLEAN, NEW h \in Cluster,
           Fill(k, d, h)
    PROVE  slot' \in [Slots -> [valid : BOOLEAN, dirty : BOOLEAN,
                                l1 : L1Index, host : Cluster]]
BY Position DEF TypeOK, TypeState, Fill

LEMMA FinishType ==
    ASSUME TypeOK, More, FinishCluster, req' = req
    PROVE  /\ consumed' \in 0..req'.len /\ view' \in [VSector -> Int]
           /\ stage' = "Enter"
BY Position DEF TypeOK, TypeProgress, TypeCaller, FinishCluster

LEMMA EntryHost == ASSUME TypeOK, More PROVE l1[I] \in Entry /\ l1[I].h \in Cluster
BY Position DEF TypeOK, TypeStaged, Entry

LEMMA EntHost == ASSUME TypeOK, More PROVE Ent.h \in Cluster
BY EntType DEF Entry

LEMMA PatchTypes ==
    ASSUME TypeOK, More
    PROVE  /\ PatchL1Step(I, Owned(cur.l2h)) \in Step
           /\ InRequest(PatchL1Step(I, Owned(cur.l2h)))
           /\ PatchL2Step(cur.slot, J, Owned(cur.dh)) \in Step
           /\ InRequest(PatchL2Step(cur.slot, J, Owned(cur.dh)))
<1>1. I \in Nat /\ J \in Nat
  BY Position, GeometryAssumption DEF L1Index, L2Index, GeometryAssumption
<1>2. Owned(cur.l2h) \in Entry /\ Owned(cur.dh) \in Entry /\ cur.slot \in Slots
  BY TableTypes DEF TypeOK, TypeProgress
<1> QED BY <1>1, <1>2, StepTypes, StepOps DEF InRequest

LEMMA EmitType ==
    ASSUME TypeOK, NEW from, NEW to \in WriteStages, NEW wanted \in BOOLEAN, NEW s,
           wanted => s \in Step /\ InRequest(s), Emit(from, to, wanted, s)
    PROVE  TypeOK'
<1>1. TypeWindow' /\ sinceBar' \in BOOLEAN
  BY PushType, SameWindow DEF Emit, img0, TypeOK, TypeState
<1>2. TypeState'
  BY <1>1 DEF Emit, slots, TypeOK, TypeState
<1>3. TypeProgress'
  BY DEF Emit, TypeOK, TypeProgress
<1>4. TypeStaged' /\ TypeDisk' /\ TypeCaller' /\ img' \in Images /\ cap' \in Caps
  BY DEF Emit, Stage, Planning, img0, staged, disk, caller, TypeOK, TypeStaged,
     TypeDisk, TypeCaller
<1> QED BY <1>1, <1>2, <1>3, <1>4 DEF TypeOK

LEMMA EmitsType ==
    ASSUME TypeOK,
           \/ HeadFill \/ Body \/ TailFill
           \/ CowFull \/ CowZero \/ CowRead \/ CowCopy \/ CowBody
    PROVE  TypeOK'
<1>1. More /\ cur.dh \in Cluster /\ cur.src \in Cluster /\ CS \in Nat
  BY GeometryAssumption DEF HeadFill, Body, TailFill, CowFull, CowZero, CowRead,
     CowCopy, CowBody, Emit, Stage, TypeOK, TypeProgress, GeometryAssumption
<1>2. /\ {"HeadDone", "BodyDone", "TailDone", "CowDataBody", "CowDataCopy",
          "CowDataPatch"} \subseteq WriteStages
      /\ TRUE \in BOOLEAN /\ FALSE \in BOOLEAN
      /\ (InOff > 0) \in BOOLEAN /\ (TailOff < CS) \in BOOLEAN
  BY DEF WriteStages
<1>3. /\ InOff \in Nat /\ TailOff \in Nat /\ CS - TailOff \in Nat
  BY <1>1, Position DEF TailOff
<1>4. \A a \in Nat, n \in Nat : /\ ZeroRangeStep(cur.dh, a, n) \in Step
                                /\ InRequest(ZeroRangeStep(cur.dh, a, n))
  BY <1>1, StepTypes, StepOps DEF InRequest
<1>5. BodyStep(cur.dh) \in Step /\ InRequest(BodyStep(cur.dh))
  BY <1>1, BodyStepType
<1>6. /\ ReadStep(cur.src) \in Step /\ InRequest(ReadStep(cur.src))
      /\ CopyStep(cur.dh) \in Step /\ InRequest(CopyStep(cur.dh))
  BY <1>1, StepTypes, StepOps DEF InRequest
<1>7. CASE HeadFill
  BY <1>2, <1>3, <1>4, <1>7, EmitType DEF HeadFill
<1>8. CASE Body
  BY <1>2, <1>5, <1>8, EmitType DEF Body
<1>9. CASE TailFill
  BY <1>2, <1>3, <1>4, <1>9, EmitType DEF TailFill
<1>10. CASE CowFull
  BY <1>2, <1>10, EmitType DEF CowFull
<1>11. CASE CowZero
  BY <1>1, <1>2, <1>4, <1>11, EmitType DEF CowZero
<1>12. CASE CowRead
  BY <1>2, <1>6, <1>12, EmitType DEF CowRead
<1>13. CASE CowCopy
  BY <1>2, <1>6, <1>13, EmitType DEF CowCopy
<1>14. CASE CowBody
  BY <1>2, <1>5, <1>14, EmitType DEF CowBody
<1> QED BY <1>7, <1>8, <1>9, <1>10, <1>11, <1>12, <1>13, <1>14

LEMMA PlanWriteType == ASSUME TypeOK, PlanWrite PROVE TypeOK'
<1>1. CASE EnterHit
  <2>1. TypeState'
    BY <1>1, TouchType DEF EnterHit, Stage, TypeOK, TypeState, TypeProgress,
       slots, planner
  <2>2. TypeProgress'
    BY <1>1 DEF EnterHit, Stage, Planning, TypeOK, TypeProgress, WriteStages,
       FlushStages, progress
  <2>3. img' \in Images /\ cap' \in Caps /\ TypeWindow' /\ TypeStaged' /\
        TypeDisk' /\ TypeCaller'
    BY <1>1, SameWindow DEF EnterHit, Stage, FStage, Planning, Return, img0,
       slots, planner, progress, staged, disk, caller, TypeOK, TypeStaged,
       TypeDisk, TypeCaller
  <2> QED BY <2>1, <2>2, <2>3 DEF TypeOK
<1>2. CASE EnterMiss
  <2>1. TypeWindow' /\ sinceBar' \in BOOLEAN
    BY <1>2, PushType, StepTypes, StepOps, TableTypes, SameWindow DEF
       EnterMiss, Stage, More, InRequest, TypeOK, TypeState, TypeProgress,
       img0
  <2>2. TypeState'
    BY <1>2, <2>1 DEF EnterMiss, Stage, TypeOK, TypeState, TypeProgress,
       slots, planner
  <2>3. TypeProgress'
    BY <1>2 DEF EnterMiss, Stage, Planning, TypeOK, TypeProgress, WriteStages,
       FlushStages, progress
  <2>4. img' \in Images /\ cap' \in Caps /\ TypeStaged' /\ TypeDisk' /\
        TypeCaller'
    BY <1>2 DEF EnterMiss, Stage, FStage, Planning, Return, img0, slots,
       planner, progress, staged, disk, caller, TypeOK, TypeStaged, TypeDisk,
       TypeCaller
  <2> QED BY <2>1, <2>2, <2>3, <2>4 DEF TypeOK
<1>3. CASE SlotFreeAlloc
  <2>1. TypeState'
    BY <1>3, AllocType DEF SlotFreeAlloc, Stage, TypeOK, TypeState,
       TypeProgress, slots, planner
  <2>2. TypeProgress'
    BY <1>3, EntryHost DEF SlotFreeAlloc, Stage, Planning, TypeOK,
       TypeProgress, WriteStages, FlushStages, progress
  <2>3. TypeStaged'
    BY <1>3, AllocType DEF SlotFreeAlloc, Stage, TypeOK, TypeStaged,
       TypeProgress, staged
  <2>4. img' \in Images /\ cap' \in Caps /\ TypeWindow' /\ TypeDisk' /\
        TypeCaller'
    BY <1>3, SameWindow DEF SlotFreeAlloc, Stage, FStage, Planning, Return,
       img0, slots, planner, progress, staged, disk, caller, TypeOK, TypeDisk,
       TypeCaller
  <2> QED BY <2>1, <2>2, <2>3, <2>4 DEF TypeOK
<1>4. CASE SlotFreeLoad
  <2>1. TypeWindow' /\ sinceBar' \in BOOLEAN
    BY <1>4, PushType, StepTypes, StepOps, TableTypes, EntryHost DEF
       SlotFreeLoad, Stage, More, InRequest, TypeOK, TypeState, TypeProgress,
       img0
  <2>2. TypeState'
    BY <1>4, <2>1, FillType, EntryHost DEF SlotFreeLoad, Stage, TypeOK,
       TypeState, TypeProgress, slots, planner
  <2>3. TypeProgress'
    BY <1>4 DEF SlotFreeLoad, Stage, Planning, TypeOK, TypeProgress,
       WriteStages, FlushStages, progress
  <2>4. TypeCaller'
    BY <1>4 DEF SlotFreeLoad, Stage, Planning, Return, More, TypeOK,
       TypeCaller, caller, progress
  <2>5. img' \in Images /\ cap' \in Caps /\ TypeStaged' /\ TypeDisk'
    BY <1>4 DEF SlotFreeLoad, Stage, FStage, Planning, Return, img0, slots,
       planner, progress, staged, disk, caller, TypeOK, TypeStaged, TypeDisk
  <2> QED BY <2>1, <2>2, <2>3, <2>4, <2>5 DEF TypeOK
<1>5. CASE FreshAlloc
  <2>1. TypeWindow' /\ sinceBar' \in BOOLEAN
    BY <1>5, PushType, StepTypes, StepOps, TableTypes DEF FreshAlloc, Stage,
       More, InRequest, TypeOK, TypeState, TypeProgress, img0
  <2>2. TypeState'
    BY <1>5, <2>1, FillType DEF FreshAlloc, Stage, TypeOK, TypeState,
       TypeProgress, slots, planner
  <2>3. TypeProgress'
    BY <1>5 DEF FreshAlloc, Stage, Planning, TypeOK, TypeProgress,
       WriteStages, FlushStages, progress
  <2>4. img' \in Images /\ cap' \in Caps /\ TypeStaged' /\ TypeDisk' /\
        TypeCaller'
    BY <1>5 DEF FreshAlloc, Stage, FStage, Planning, Return, img0, slots,
       planner, progress, staged, disk, caller, TypeOK, TypeStaged, TypeDisk,
       TypeCaller
  <2> QED BY <2>1, <2>2, <2>3, <2>4 DEF TypeOK
<1>6. CASE FreshZeroed
  <2>1. TypeWindow' /\ sinceBar' \in BOOLEAN
    BY <1>6, PushType, PatchTypes DEF FreshZeroed, Stage, img0
  <2>2. TypeState'
    BY <1>6, <2>1, TouchType DEF FreshZeroed, Stage, TypeOK, TypeState,
       TypeProgress, slots, planner
  <2>3. TypeProgress'
    BY <1>6 DEF FreshZeroed, Stage, Planning, TypeOK, TypeProgress,
       WriteStages, FlushStages, progress
  <2>4. img' \in Images /\ cap' \in Caps /\ TypeStaged' /\ TypeDisk' /\
        TypeCaller'
    BY <1>6 DEF FreshZeroed, Stage, FStage, Planning, Return, img0, slots,
       planner, progress, staged, disk, caller, TypeOK, TypeStaged, TypeDisk,
       TypeCaller
  <2> QED BY <2>1, <2>2, <2>3, <2>4 DEF TypeOK
<1>7. CASE CowL2Load
  <2>1. TypeWindow' /\ sinceBar' \in BOOLEAN
    BY <1>7, PushType, StepTypes, StepOps, TableTypes DEF CowL2Load, Stage,
       More, InRequest, TypeOK, TypeState, TypeProgress, img0
  <2>2. TypeState'
    BY <1>7, <2>1, FillType DEF CowL2Load, Stage, TypeOK, TypeState,
       TypeProgress, slots, planner
  <2>3. TypeProgress'
    BY <1>7 DEF CowL2Load, Stage, Planning, TypeOK, TypeProgress, WriteStages,
       FlushStages, progress
  <2>4. img' \in Images /\ cap' \in Caps /\ TypeStaged' /\ TypeDisk' /\
        TypeCaller'
    BY <1>7 DEF CowL2Load, Stage, FStage, Planning, Return, img0, slots,
       planner, progress, staged, disk, caller, TypeOK, TypeStaged, TypeDisk,
       TypeCaller
  <2> QED BY <2>1, <2>2, <2>3, <2>4 DEF TypeOK
<1>8. CASE CowL2Repoint
  <2>1. TypeWindow' /\ sinceBar' \in BOOLEAN
    BY <1>8, PushType, PatchTypes DEF CowL2Repoint, Stage, img0
  <2>2. TypeState'
    BY <1>8, <2>1 DEF CowL2Repoint, Stage, TypeOK, TypeState, TypeProgress,
       slots, planner
  <2>3. TypeProgress'
    BY <1>8 DEF CowL2Repoint, Stage, Planning, TypeOK, TypeProgress,
       WriteStages, FlushStages, progress
  <2>4. img' \in Images /\ cap' \in Caps /\ TypeStaged' /\ TypeDisk' /\
        TypeCaller'
    BY <1>8 DEF CowL2Repoint, Stage, FStage, Planning, Return, img0, slots,
       planner, progress, staged, disk, caller, TypeOK, TypeStaged, TypeDisk,
       TypeCaller
  <2> QED BY <2>1, <2>2, <2>3, <2>4 DEF TypeOK
<1>9. CASE CowL2Decrement
  <2>1. TypeState'
    BY <1>9, DecrementType DEF CowL2Decrement, Stage, TypeOK, TypeState,
       TypeProgress, slots, planner
  <2>2. TypeProgress'
    BY <1>9 DEF CowL2Decrement, Stage, Planning, TypeOK, TypeProgress,
       WriteStages, FlushStages, progress
  <2>3. TypeStaged'
    BY <1>9, DecrementType DEF CowL2Decrement, Stage, TypeOK, TypeStaged,
       TypeProgress, staged
  <2>4. TypeCaller'
    BY <1>9 DEF CowL2Decrement, Stage, Planning, Return, More, TypeOK,
       TypeCaller, caller, progress
  <2>5. img' \in Images /\ cap' \in Caps /\ TypeWindow' /\ TypeDisk'
    BY <1>9, SameWindow DEF CowL2Decrement, Stage, FStage, Planning, Return,
       img0, slots, planner, progress, staged, disk, caller, TypeOK, TypeDisk
  <2> QED BY <2>1, <2>2, <2>3, <2>4, <2>5 DEF TypeOK
<1>10. CASE OverwriteOwned
  <2>1. TypeWindow' /\ sinceBar' \in BOOLEAN
    BY <1>10, PushType, BodyStepType, EntHost DEF OverwriteOwned, Stage, img0
  <2>2. TypeState'
    BY <1>10, <2>1 DEF OverwriteOwned, Stage, TypeOK, TypeState, TypeProgress,
       slots, planner
  <2>3. TypeProgress'
    BY <1>10, FinishType DEF OverwriteOwned, Stage, Planning, TypeOK,
       TypeProgress, WriteStages, FlushStages, progress
  <2>4. TypeCaller'
    BY <1>10, FinishType DEF OverwriteOwned, Stage, Planning, Return, More,
       TypeOK, TypeCaller, caller, progress
  <2>5. img' \in Images /\ cap' \in Caps /\ TypeStaged' /\ TypeDisk'
    BY <1>10 DEF OverwriteOwned, Stage, FStage, Planning, Return, img0, slots,
       planner, progress, staged, disk, caller, TypeOK, TypeStaged, TypeDisk
  <2> QED BY <2>1, <2>2, <2>3, <2>4, <2>5 DEF TypeOK
<1>11. CASE ReuseZero
  <2>1. TypeProgress'
    BY <1>11, EntHost DEF ReuseZero, Stage, Planning, TypeOK, TypeProgress,
       WriteStages, FlushStages, progress
  <2>2. img' \in Images /\ cap' \in Caps /\ TypeWindow' /\ TypeState' /\
        TypeStaged' /\ TypeDisk' /\ TypeCaller'
    BY <1>11, SameWindow DEF ReuseZero, Stage, FStage, Planning, Return, img0,
       slots, planner, progress, staged, disk, caller, TypeOK, TypeState,
       TypeStaged, TypeDisk, TypeCaller
  <2> QED BY <2>1, <2>2 DEF TypeOK
<1>12. CASE SlotReadyAlloc
  <2>1. TypeState'
    BY <1>12, AllocType DEF SlotReadyAlloc, Stage, TypeOK, TypeState,
       TypeProgress, slots, planner
  <2>2. TypeProgress'
    BY <1>12, EntHost DEF SlotReadyAlloc, Stage, Planning, TypeOK,
       TypeProgress, WriteStages, FlushStages, progress
  <2>3. TypeStaged'
    BY <1>12, AllocType DEF SlotReadyAlloc, Stage, TypeOK, TypeStaged,
       TypeProgress, staged
  <2>4. img' \in Images /\ cap' \in Caps /\ TypeWindow' /\ TypeDisk' /\
        TypeCaller'
    BY <1>12, SameWindow DEF SlotReadyAlloc, Stage, FStage, Planning, Return,
       img0, slots, planner, progress, staged, disk, caller, TypeOK, TypeDisk,
       TypeCaller
  <2> QED BY <2>1, <2>2, <2>3, <2>4 DEF TypeOK
<1>13. CASE TailDone
  <2>1. TypeWindow' /\ sinceBar' \in BOOLEAN
    BY <1>13, PushType, PatchTypes DEF TailDone, Patch, Patch, Stage, img0
  <2>2. TypeState'
    BY <1>13, <2>1 DEF TailDone, Patch, Stage, TypeOK, TypeState,
       TypeProgress, slots, planner, Patch
  <2>3. TypeProgress'
    BY <1>13, FinishType DEF TailDone, Patch, Stage, Planning, TypeOK,
       TypeProgress, WriteStages, FlushStages, progress, Patch
  <2>4. TypeCaller'
    BY <1>13, FinishType DEF TailDone, Patch, Stage, Planning, Return, More,
       TypeOK, TypeCaller, caller, progress, Patch
  <2>5. img' \in Images /\ cap' \in Caps /\ TypeStaged' /\ TypeDisk'
    BY <1>13 DEF TailDone, Patch, Stage, FStage, Planning, Return, img0,
       slots, planner, progress, staged, disk, caller, TypeOK, TypeStaged,
       TypeDisk
  <2> QED BY <2>1, <2>2, <2>3, <2>4, <2>5 DEF TypeOK
<1>14. CASE CowPatch
  <2>1. TypeWindow' /\ sinceBar' \in BOOLEAN
    BY <1>14, PushType, PatchTypes DEF CowPatch, Patch, Patch, Stage, img0
  <2>2. TypeState'
    BY <1>14, <2>1 DEF CowPatch, Patch, Stage, TypeOK, TypeState,
       TypeProgress, slots, planner, Patch
  <2>3. TypeProgress'
    BY <1>14 DEF CowPatch, Patch, Stage, Planning, TypeOK, TypeProgress,
       WriteStages, FlushStages, progress, Patch
  <2>4. img' \in Images /\ cap' \in Caps /\ TypeStaged' /\ TypeDisk' /\
        TypeCaller'
    BY <1>14 DEF CowPatch, Patch, Stage, FStage, Planning, Return, img0,
       slots, planner, progress, staged, disk, caller, TypeOK, TypeStaged,
       TypeDisk, TypeCaller
  <2> QED BY <2>1, <2>2, <2>3, <2>4 DEF TypeOK
<1>15. CASE CowDataDecrement
  <2>1. TypeState'
    BY <1>15, DecrementType DEF CowDataDecrement, Stage, TypeOK, TypeState,
       TypeProgress, slots, planner
  <2>2. TypeProgress'
    BY <1>15, FinishType DEF CowDataDecrement, Stage, Planning, TypeOK,
       TypeProgress, WriteStages, FlushStages, progress
  <2>3. TypeStaged'
    BY <1>15, DecrementType DEF CowDataDecrement, Stage, TypeOK, TypeStaged,
       TypeProgress, staged
  <2>4. TypeCaller'
    BY <1>15, FinishType DEF CowDataDecrement, Stage, Planning, Return, More,
       TypeOK, TypeCaller, caller, progress
  <2>5. img' \in Images /\ cap' \in Caps /\ TypeWindow' /\ TypeDisk'
    BY <1>15, SameWindow DEF CowDataDecrement, Stage, FStage, Planning,
       Return, img0, slots, planner, progress, staged, disk, caller, TypeOK,
       TypeDisk
  <2> QED BY <2>1, <2>2, <2>3, <2>4, <2>5 DEF TypeOK
<1>16. CASE Refuse
  <2>1. TypeProgress'
    BY <1>16 DEF Refuse, Stage, Planning, TypeOK, TypeProgress, WriteStages,
       FlushStages, progress
  <2>2. TypeCaller'
    BY <1>16 DEF Refuse, Stage, Planning, Return, More, TypeOK, TypeCaller,
       caller, progress
  <2>3. img' \in Images /\ cap' \in Caps /\ TypeWindow' /\ TypeState' /\
        TypeStaged' /\ TypeDisk'
    BY <1>16, SameWindow DEF Refuse, Stage, FStage, Planning, Return, img0,
       slots, planner, progress, staged, disk, caller, TypeOK, TypeState,
       TypeStaged, TypeDisk
  <2> QED BY <2>1, <2>2, <2>3 DEF TypeOK
<1>17. CASE RefuseFill
  <2>1. TypeProgress'
    BY <1>17 DEF RefuseFill, Stage, Planning, TypeOK, TypeProgress,
       WriteStages, FlushStages, progress
  <2>2. TypeCaller'
    BY <1>17 DEF RefuseFill, Stage, Planning, Return, More, TypeOK,
       TypeCaller, caller, progress
  <2>3. img' \in Images /\ cap' \in Caps /\ TypeWindow' /\ TypeState' /\
        TypeStaged' /\ TypeDisk'
    BY <1>17, SameWindow DEF RefuseFill, Stage, FStage, Planning, Return,
       img0, slots, planner, progress, staged, disk, caller, TypeOK,
       TypeState, TypeStaged, TypeDisk
  <2> QED BY <2>1, <2>2, <2>3 DEF TypeOK
<1>18. CASE WritePlanned
  <2>1. TypeProgress'
    BY <1>18 DEF WritePlanned, Stage, Planning, TypeOK, TypeProgress,
       WriteStages, FlushStages, progress
  <2>2. TypeCaller'
    BY <1>18 DEF WritePlanned, Stage, Planning, Return, More, TypeOK,
       TypeCaller, caller, progress
  <2>3. img' \in Images /\ cap' \in Caps /\ TypeWindow' /\ TypeState' /\
        TypeStaged' /\ TypeDisk'
    BY <1>18, SameWindow DEF WritePlanned, Stage, FStage, Planning, Return,
       img0, slots, planner, progress, staged, disk, caller, TypeOK,
       TypeState, TypeStaged, TypeDisk
  <2> QED BY <2>1, <2>2, <2>3 DEF TypeOK
<1> QED BY EmitsType, <1>1, <1>2, <1>3, <1>4, <1>5, <1>6, <1>7, <1>8, <1>9, <1>10, <1>11, <1>12, <1>13, <1>14, <1>15, <1>16, <1>17, <1>18 DEF PlanWrite
=============================================================================
