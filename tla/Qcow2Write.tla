----------------------------- MODULE Qcow2Write -----------------------------
(***************************************************************************)
(* The shared qcow2 write engine: the planner (crates/qcow2-write), which  *)
(* turns a write request into steps and never touches the device, the      *)
(* executor (crates/qcow2-write-exec), which runs one window of steps, and *)
(* the loop the operations commit, rebase and bench drive them with.       *)
(*                                                                         *)
(* A planner call emits steps into buf until the request is planned, a     *)
(* step does not fit (BufFull), an L2 table has to be read first (also     *)
(* BufFull), or the image refuses the write.  The window is then executed  *)
(* step by step and the planner is called again.  One action is one stage  *)
(* of the planner, or one step of the executor.                            *)
(***************************************************************************)
EXTENDS Qcow2Layout

CONSTANTS NSlots,     \* L2 window slots (StagingConfig.l2_slots)
          Caps,       \* window capacities, in steps
          MaxReq,     \* bound: requests submitted in a behaviour
          Images,     \* the images a behaviour may start from
          Fsync,      \* the device has an fsync primitive
          PowerLoss   \* a crash may lose writes no fsync has followed

Slots == 0..(NSlots - 1)

ASSUME EngineAssumption ==
    /\ NSlots \in Nat \ {0} /\ MaxReq \in Nat
    /\ Caps \subseteq Nat \ {0}
    /\ Fsync \in BOOLEAN /\ PowerLoss \in BOOLEAN

\* An image: its active L1, the L2 tables, the refcounts, the references that
\* snapshots and the image's own structures hold, and the opened mode.
Image == [l1 : [L1Index -> Entry], tab : [Cluster -> Table],
          rc : [Cluster -> Nat], kept : [Cluster -> Nat],
          backing : BOOLEAN, cow : BOOLEAN]

ASSUME ImagesAssumption == Images \subseteq Image

\* Sector contents: a request writes its own number; the rest are marks.
Zero == 0
Junk == -1
Backing == -2
Compressed == -3
Original(h) == 100 + h

VARIABLES
    img,        \* the image the behaviour started from
    cap,        \* capacity of the step window
    \* WriteState
    slot,       \* L2 window slots: valid, dirty, l1 (l1_idx), host
    lru,        \* slots, least recently used first (last_access)
    l1Dirty, rbDirty, cursor, pendZero,
    sinceBar,   \* steps_since_barrier # 0
    stage,      \* ClusterStage or FlushStage of the pending request
    req,        \* the request being planned
    consumed,   \* its sectors planned so far
    cur,        \* WriteProgress: slot, l2h, dh, src, zpre
    flushIdx,   \* FlushProgress.next_idx
    \* staged regions
    l1, win, rc, bounce,
    buf,        \* the emitted, not yet executed steps
    \* the device
    dL1, dTab, dData, dRc,
    pL1, pTab, pData,   \* what a crash may leave of each
    \* the operation
    pc, ret, nreq, refused,
    view, hist  \* what the guest must read; what it may ever have read

img0 == <<img, cap>>
slots == <<slot, lru, pendZero>>
planner == <<l1Dirty, rbDirty, cursor, sinceBar>>
progress == <<stage, req, consumed, cur, flushIdx>>
staged == <<l1, win, bounce>>
disk == <<dL1, dTab, dData, dRc, pL1, pTab, pData>>
caller == <<nreq, refused, view, hist>>
vars == <<img0, slots, planner, progress, staged, rc, buf, disk, pc, ret, caller>>

-----------------------------------------------------------------------------
\* The current cluster of the request (drive_write, top of the loop).
At     == req.voff + consumed
I      == L1Of(At)
J      == L2Of(At)
InOff  == At % CS
WinLen == IF CS - InOff <= req.len - consumed THEN CS - InOff
                                              ELSE req.len - consumed
Planning == pc = "plan"

\* One step of the window; the fields a step does not use are 0 or NoEntry.
StepOp == {"load", "wb", "zregion", "patch1", "patch2", "zero", "body",
           "read", "copy", "barrier", "wl1", "wrb"}
Step == [op : StepOp, slot : Slots, h : Cluster, at : Nat, len : Nat,
         from : Nat, e : Entry]
Blank == [op |-> "barrier", slot |-> 0, h |-> 0, at |-> 0, len |-> 0,
          from |-> 0, e |-> NoEntry]

LoadStep(k, h)      == [Blank EXCEPT !.op = "load", !.slot = k, !.h = h]
WritebackStep(k, h) == [Blank EXCEPT !.op = "wb", !.slot = k, !.h = h]
ZeroRegionStep(k)   == [Blank EXCEPT !.op = "zregion", !.slot = k]
PatchL1Step(i, e)   == [Blank EXCEPT !.op = "patch1", !.at = i, !.e = e]
PatchL2Step(k, j, e) ==
    [Blank EXCEPT !.op = "patch2", !.slot = k, !.at = j, !.e = e]
ZeroRangeStep(h, at, len) ==
    [Blank EXCEPT !.op = "zero", !.h = h, !.at = at, !.len = len]
ReadStep(h)         == [Blank EXCEPT !.op = "read", !.h = h]
CopyStep(h)         == [Blank EXCEPT !.op = "copy", !.h = h]
WriteL1Step         == [Blank EXCEPT !.op = "wl1"]
WriteBlockStep(b)   == [Blank EXCEPT !.op = "wrb", !.at = b]
BodyStep(h) ==
    [op |-> "body", slot |-> 0, h |-> h, at |-> InOff, len |-> WinLen,
     from |-> consumed, e |-> NoEntry]

Room == Len(buf) < cap
Push(s) == /\ Room
           /\ buf' = Append(buf, s)
           /\ sinceBar' = (s.op # "barrier")

\* The window ends here: it is executed, then the planner resumes (full),
\* or the request is planned (ok), or the image refuses it.
Return(r) == pc' = "exec" /\ ret' = r

-----------------------------------------------------------------------------
(***************************************************************************)
(* plan_write: finding the L2 table of the current cluster.                *)
(***************************************************************************)
Hit(k) == slot[k].valid /\ slot[k].l1 = I
Miss == \A k \in Slots : ~Hit(k)
\* Mutant of Victim: evicts although a slot is free.
VictimFirst(k) == k = 0
Victim(k) ==
    LET free == {x \in Slots : ~slot[x].valid}
    IN IF free = {} THEN k = Head(lru)
                    ELSE k \in free /\ \A x \in free : k <= x
Touch(k) ==
    \E n \in 1..Len(lru) :
        /\ lru[n] = k
        /\ lru' = SubSeq(lru, 1, n - 1) \o SubSeq(lru, n + 1, Len(lru)) \o <<k>>
\* Mutant of Fill: the loaded slot is not marked valid.
FillInvalid(k, dirty, h) ==
    slot' = [slot EXCEPT ![k] = [valid |-> FALSE, dirty |-> dirty,
                                 l1 |-> I, host |-> h]]
Fill(k, dirty, h) ==
    slot' = [slot EXCEPT ![k] = [valid |-> TRUE, dirty |-> dirty,
                                 l1 |-> I, host |-> h]]

More == consumed < req.len
Stage(st) == Planning /\ stage = st /\ More

EnterHit ==
    /\ Stage("Enter")
    /\ \E k \in Slots : Hit(k) /\ Touch(k) /\ cur' = [cur EXCEPT !.slot = k]
    /\ stage' = "SlotReady"
    /\ UNCHANGED <<img0, slot, pendZero, planner, req, consumed, flushIdx,
                   staged, rc, buf, disk, pc, ret, caller>>

\* A miss takes the victim; its table is written back first when dirty.
EnterMiss ==
    /\ Stage("Enter") /\ Miss
    /\ \E k \in Slots :
          /\ Victim(k)
          /\ cur' = [cur EXCEPT !.slot = k]
          /\ IF slot[k].valid /\ slot[k].dirty
             THEN /\ Push(WritebackStep(k, slot[k].host))
                  /\ slot' = [slot EXCEPT ![k].valid = FALSE, ![k].dirty = FALSE]
             ELSE UNCHANGED <<buf, sinceBar, slot>>
    /\ stage' = "SlotFree"
    /\ UNCHANGED <<img0, lru, pendZero, l1Dirty, rbDirty, cursor, req, consumed,
                   flushIdx, staged, rc, disk, pc, ret, caller>>

\* alloc_cluster: claims the first free cluster in the staged refcounts.
Alloc(h) == /\ FirstFit(h, rc, cursor)
            /\ rc' = [rc EXCEPT ![h] = 1]
            /\ cursor' = h + 1
            /\ rbDirty' = rbDirty \cup {BlockOf(h)}
Exhausted == FreeFrom(rc, cursor) = {}

\* Mutant of Decrement: the refcount block is not marked dirty.
DecrementUnmarked(h) == rc' = [rc EXCEPT ![h] = @ - 1] /\ UNCHANGED rbDirty
\* dec_refcount, for a count that is at least 1.
Decrement(h) == /\ rc' = [rc EXCEPT ![h] = @ - 1]
                /\ rbDirty' = rbDirty \cup {BlockOf(h)}

L1Verdict == ValidateL1(l1[I], rc, img.cow)

\* SlotFree: an empty L1 entry or a shared table needs a new table.
SlotFreeAlloc ==
    /\ Stage("SlotFree")
    /\ \E h \in Cluster :
          /\ Alloc(h)
          /\ \/ /\ l1[I] = NoEntry
                /\ cur' = [cur EXCEPT !.l2h = h]
                /\ stage' = "FreshAlloc"
             \/ /\ l1[I] # NoEntry /\ L1Verdict = "cow"
                /\ cur' = [cur EXCEPT !.l2h = h, !.src = l1[I].h]
                /\ stage' = "CowL2Load"
    /\ UNCHANGED <<img0, slots, l1Dirty, sinceBar, req, consumed, flushIdx,
                   staged, buf, disk, pc, ret, caller>>

\* SlotFree: an owned table is loaded, and the window ends with the load.
SlotFreeLoad ==
    /\ Stage("SlotFree")
    /\ l1[I] # NoEntry /\ L1Verdict = "owned"
    /\ Push(LoadStep(cur.slot, l1[I].h))
    /\ Fill(cur.slot, FALSE, l1[I].h)
    /\ stage' = "Enter"
    /\ Return("full")
    /\ UNCHANGED <<img0, lru, pendZero, l1Dirty, rbDirty, cursor, req, consumed,
                   cur, flushIdx, staged, rc, disk, caller>>

FreshAlloc ==
    /\ Stage("FreshAlloc")
    /\ Push(ZeroRegionStep(cur.slot))
    /\ Fill(cur.slot, TRUE, cur.l2h)
    /\ pendZero' = pendZero \cup {cur.slot}
    /\ stage' = "FreshZeroed"
    /\ UNCHANGED <<img0, lru, l1Dirty, rbDirty, cursor, req, consumed, cur,
                   flushIdx, staged, rc, disk, pc, ret, caller>>

FreshZeroed ==
    /\ Stage("FreshZeroed")
    /\ Push(PatchL1Step(I, Owned(cur.l2h)))
    /\ l1Dirty' = TRUE
    /\ Touch(cur.slot)
    /\ stage' = "SlotReady"
    /\ UNCHANGED <<img0, slot, pendZero, rbDirty, cursor, req, consumed, cur,
                   flushIdx, staged, rc, disk, pc, ret, caller>>

CowL2Load ==
    /\ Stage("CowL2Load")
    /\ Push(LoadStep(cur.slot, cur.src))
    /\ Fill(cur.slot, TRUE, cur.l2h)
    /\ stage' = "CowL2Repoint"
    /\ UNCHANGED <<img0, lru, pendZero, l1Dirty, rbDirty, cursor, req, consumed,
                   cur, flushIdx, staged, rc, disk, pc, ret, caller>>

CowL2Repoint ==
    /\ Stage("CowL2Repoint")
    /\ Push(PatchL1Step(I, Owned(cur.l2h)))
    /\ l1Dirty' = TRUE
    /\ stage' = "CowL2Decrement"
    /\ UNCHANGED <<img0, slots, rbDirty, cursor, req, consumed, cur, flushIdx,
                   staged, rc, disk, pc, ret, caller>>

\* The loaded bytes are needed next, so the window ends here.
CowL2Decrement ==
    /\ Stage("CowL2Decrement") /\ rc[cur.src] > 0
    /\ Decrement(cur.src)
    /\ stage' = "Enter"
    /\ Return("full")
    /\ UNCHANGED <<img0, slots, l1Dirty, cursor, sinceBar, req, consumed, cur,
                   flushIdx, staged, buf, disk, caller>>

-----------------------------------------------------------------------------
(***************************************************************************)
(* plan_write: writing the current cluster.                                *)
(***************************************************************************)
\* A slot whose zeroing is still in the window reads as an empty table.
Ent == IF cur.slot \in pendZero THEN NoEntry ELSE win[cur.slot][J]
Verdict == ClassifyL2(Ent, rc, img.cow)

\* Bytes past the virtual size are not content, so they need no pre-image.
EffEnd == IF CS <= VSize - (At - InOff) THEN CS ELSE VSize - (At - InOff)
NeedsBackingFill ==
    /\ Verdict = "unallocated"
    /\ img.backing /\ (InOff # 0 \/ InOff + WinLen < EffEnd)

FinishCluster ==
    /\ consumed' = consumed + WinLen
    /\ view' = [s \in VSector |-> IF At <= s /\ s < At + WinLen
                                  THEN req.data[s] ELSE view[s]]
    /\ stage' = "Enter"

OverwriteOwned ==
    /\ Stage("SlotReady") /\ Verdict = "owned"
    /\ Push(BodyStep(Ent.h))
    /\ FinishCluster
    /\ UNCHANGED <<img0, slots, l1Dirty, rbDirty, cursor, req, cur, flushIdx,
                   staged, rc, disk, pc, ret, nreq, refused, hist>>

ReuseZero ==
    /\ Stage("SlotReady") /\ Verdict = "ownedzero"
    /\ cur' = [cur EXCEPT !.dh = Ent.h]
    /\ stage' = "DataAlloc"
    /\ UNCHANGED <<img0, slots, planner, req, consumed, flushIdx, staged, rc,
                   buf, disk, pc, ret, caller>>

SlotReadyAlloc ==
    /\ Stage("SlotReady")
    /\ \E h \in Cluster :
          /\ Alloc(h)
          /\ \/ /\ Verdict = "unallocated" /\ ~NeedsBackingFill
                /\ cur' = [cur EXCEPT !.dh = h]
                /\ stage' = "DataAlloc"
             \/ /\ Verdict = "cow"
                /\ cur' = [cur EXCEPT !.dh = h, !.src = Ent.h,
                                      !.zpre = (Ent.fl = "zero")]
                /\ stage' = "CowDataEnter"
    /\ UNCHANGED <<img0, slots, l1Dirty, sinceBar, req, consumed, flushIdx,
                   staged, buf, disk, pc, ret, caller>>

\* A stage that emits one step, or none, and only then moves on.
Emit(from, to, wanted, s) ==
    /\ Stage(from)
    /\ IF wanted THEN Push(s) ELSE UNCHANGED <<buf, sinceBar>>
    /\ stage' = to
    /\ UNCHANGED <<img0, slots, l1Dirty, rbDirty, cursor, req, consumed, cur,
                   flushIdx, staged, rc, disk, pc, ret, caller>>

TailOff == InOff + WinLen
HeadFill == Emit("DataAlloc", "HeadDone", InOff > 0,
                 ZeroRangeStep(cur.dh, 0, InOff))
Body     == Emit("HeadDone", "BodyDone", TRUE, BodyStep(cur.dh))
\* Mutant of TailFill: the rest of a new cluster keeps old bytes.
TailUnfilled == Emit("BodyDone", "TailDone", FALSE, Blank)
TailFill == Emit("BodyDone", "TailDone", TailOff < CS,
                 ZeroRangeStep(cur.dh, TailOff, CS - TailOff))

\* The L2 patch follows every write that covers the new cluster.
Patch(from) ==
    /\ Stage(from)
    /\ Push(PatchL2Step(cur.slot, J, Owned(cur.dh)))
    /\ slot' = [slot EXCEPT ![cur.slot].dirty = TRUE]

TailDone ==
    /\ Patch("TailDone")
    /\ FinishCluster
    /\ UNCHANGED <<img0, lru, pendZero, l1Dirty, rbDirty, cursor, req, cur,
                   flushIdx, staged, rc, disk, pc, ret, nreq, refused, hist>>

\* CowDataEnter: the pre-image of a partly overwritten shared cluster.
FullCover == InOff = 0 /\ WinLen = CS
CowFull == FullCover /\ Emit("CowDataEnter", "CowDataBody", FALSE, Blank)
CowZero == /\ ~FullCover /\ cur.zpre
           /\ Emit("CowDataEnter", "CowDataBody", TRUE,
                   ZeroRangeStep(cur.dh, 0, CS))
CowRead == /\ ~FullCover /\ ~cur.zpre
           /\ Emit("CowDataEnter", "CowDataCopy", TRUE, ReadStep(cur.src))
CowCopy == Emit("CowDataCopy", "CowDataBody", TRUE, CopyStep(cur.dh))
CowBody == Emit("CowDataBody", "CowDataPatch", TRUE, BodyStep(cur.dh))

CowPatch ==
    /\ Patch("CowDataPatch")
    /\ stage' = "CowDataDecrement"
    /\ UNCHANGED <<img0, lru, pendZero, l1Dirty, rbDirty, cursor, req, consumed,
                   cur, flushIdx, staged, rc, disk, pc, ret, caller>>

CowDataDecrement ==
    /\ Stage("CowDataDecrement") /\ rc[cur.src] > 0
    /\ Decrement(cur.src)
    /\ FinishCluster
    /\ UNCHANGED <<img0, slots, l1Dirty, cursor, sinceBar, req, cur, flushIdx,
                   staged, buf, disk, pc, ret, nreq, refused, hist>>

-----------------------------------------------------------------------------
(***************************************************************************)
(* plan_write: the three ways a call ends.                                 *)
(***************************************************************************)
Refuses ==
    \/ Stage("SlotFree") /\ Exhausted
         /\ (l1[I] = NoEntry \/ L1Verdict = "cow")
    \/ Stage("SlotFree") /\ l1[I] # NoEntry
         /\ L1Verdict \in {"unknown", "shared", "inconsistent"}
    \/ Stage("SlotReady") /\ Exhausted
         /\ Verdict \in {"unallocated", "cow"} /\ ~NeedsBackingFill
    \/ Stage("SlotReady")
         /\ Verdict \in {"compressed", "unknown", "shared", "inconsistent"}
    \/ (Stage("CowL2Decrement") \/ Stage("CowDataDecrement"))
         /\ rc[cur.src] = 0

\* A refusal abandons the request; what was staged for it stays staged.
Refuse ==
    /\ Refuses
    /\ Return("refused")
    /\ stage' = "idle"
    /\ refused' = TRUE
    /\ UNCHANGED <<img0, slots, planner, req, consumed, cur, flushIdx, staged,
                   rc, buf, disk, nreq, view, hist>>

RefuseFill ==
    /\ Stage("SlotReady") /\ NeedsBackingFill
    /\ Return("needfill")
    /\ stage' = "idle"
    /\ UNCHANGED <<img0, slots, planner, req, consumed, cur, flushIdx, staged,
                   rc, buf, disk, caller>>

WritePlanned ==
    /\ Planning /\ stage = "Enter" /\ ~More
    /\ Return("ok")
    /\ stage' = "idle"
    /\ UNCHANGED <<img0, slots, planner, req, consumed, cur, flushIdx, staged,
                   rc, buf, disk, caller>>

-----------------------------------------------------------------------------
(***************************************************************************)
(* plan_flush: L2 tables, then the L1, then the refcounts.                 *)
(***************************************************************************)
FStage(st) == Planning /\ stage = st
DirtySlots == {k \in Slots : k >= flushIdx /\ slot[k].valid /\ slot[k].dirty}
DirtyBlocks == {b \in rbDirty : b >= flushIdx}

\* Mutant of Barrier: nothing orders the groups of a flush.
BarrierDropped == UNCHANGED <<buf, sinceBar>>
Barrier == IF sinceBar THEN Push(Blank) ELSE UNCHANGED <<buf, sinceBar>>

\* A barrier stage; fi is the write-back index the next stage starts from.
BarrierStage(from, to, fi) ==
    /\ FStage(from)
    /\ Barrier
    /\ stage' = to
    /\ flushIdx' = fi
    /\ UNCHANGED <<img0, slots, l1Dirty, rbDirty, cursor, req, consumed, cur,
                   staged, rc, disk, pc, ret, caller>>

\* A stage with nothing to emit.
SkipStage(from, to) ==
    /\ FStage(from)
    /\ stage' = to
    /\ UNCHANGED <<img0, slots, planner, req, consumed, cur, flushIdx, staged,
                   rc, buf, disk, pc, ret, caller>>

PreBarrier == BarrierStage("PreBarrier", "L2Writebacks", 0)

L2Writeback ==
    /\ FStage("L2Writebacks")
    /\ \E k \in DirtySlots :
          /\ \A x \in DirtySlots : k <= x
          /\ Push(WritebackStep(k, slot[k].host))
          /\ slot' = [slot EXCEPT ![k].dirty = FALSE]
          /\ flushIdx' = k + 1
    /\ UNCHANGED <<img0, lru, pendZero, l1Dirty, rbDirty, cursor, stage, req,
                   consumed, cur, staged, rc, disk, pc, ret, caller>>
L2WritebacksDone == DirtySlots = {} /\ SkipStage("L2Writebacks", "L1Barrier")

L1Barrier == l1Dirty /\ BarrierStage("L1Barrier", "L1Write", flushIdx)
\* Mutant of L1Clean: a dirty L1 may be skipped.
L1Skipped == SkipStage("L1Barrier", "RbBarrier")
L1Clean   == ~l1Dirty /\ SkipStage("L1Barrier", "RbBarrier")

L1Write ==
    /\ FStage("L1Write")
    /\ Push(WriteL1Step)
    /\ l1Dirty' = FALSE
    /\ stage' = "RbBarrier"
    /\ UNCHANGED <<img0, slots, rbDirty, cursor, req, consumed, cur, flushIdx,
                   staged, rc, disk, pc, ret, caller>>

RbBarrier == rbDirty # {} /\ BarrierStage("RbBarrier", "RbWritebacks", 0)
RbClean   == rbDirty = {} /\ SkipStage("RbBarrier", "EndBarrier")

RbWriteback ==
    /\ FStage("RbWritebacks")
    /\ \E b \in DirtyBlocks :
          /\ \A x \in DirtyBlocks : b <= x
          /\ Push(WriteBlockStep(b))
          /\ rbDirty' = rbDirty \ {b}
          /\ flushIdx' = b + 1
    /\ UNCHANGED <<img0, slots, l1Dirty, cursor, stage, req, consumed, cur,
                   staged, rc, disk, pc, ret, caller>>
RbWritebacksDone == DirtyBlocks = {} /\ SkipStage("RbWritebacks", "EndBarrier")

EndBarrier ==
    /\ FStage("EndBarrier")
    /\ Barrier
    /\ Return("ok")
    /\ stage' = "idle"
    /\ UNCHANGED <<img0, slots, l1Dirty, rbDirty, cursor, req, consumed, cur,
                   flushIdx, staged, rc, disk, caller>>

-----------------------------------------------------------------------------
\* The stage has a step to emit (StepBuf::push would be called).
WouldPush ==
    \/ Stage("Enter") /\ Miss
         /\ \E k \in Slots : Victim(k) /\ slot[k].valid /\ slot[k].dirty
    \/ Stage("SlotFree") /\ l1[I] # NoEntry /\ L1Verdict = "owned"
    \/ Stage("SlotReady") /\ Verdict = "owned"
    \/ Stage("DataAlloc") /\ InOff > 0
    \/ Stage("BodyDone") /\ TailOff < CS
    \/ Stage("CowDataEnter") /\ ~FullCover
    \/ \E st \in {"FreshAlloc", "FreshZeroed", "CowL2Load", "CowL2Repoint",
                  "HeadDone", "TailDone", "CowDataCopy", "CowDataBody",
                  "CowDataPatch"} : Stage(st)
    \/ (FStage("PreBarrier") \/ FStage("EndBarrier")) /\ sinceBar
    \/ FStage("L2Writebacks") /\ DirtySlots # {}
    \/ FStage("L1Barrier") /\ l1Dirty /\ sinceBar
    \/ FStage("L1Write")
    \/ FStage("RbBarrier") /\ rbDirty # {} /\ sinceBar
    \/ FStage("RbWritebacks") /\ DirtyBlocks # {}

\* BufFull: no stage advances before its step is in the window.
BufFull ==
    /\ WouldPush /\ ~Room
    /\ Return("full")
    /\ UNCHANGED <<img0, slots, planner, progress, staged, rc, buf, disk, caller>>

-----------------------------------------------------------------------------
(***************************************************************************)
(* The executor.  A step that writes the device writes its first n units   *)
(* (sectors, or table entries); n is all of them unless the device fails.  *)
(***************************************************************************)
Units(s) == CASE s.op \in {"zero", "body"} -> s.len
              [] s.op = "copy"             -> CS
              [] s.op = "wb"               -> NL2
              [] s.op = "wl1"              -> NL1
              [] s.op = "wrb"              -> EPB
              [] OTHER                     -> 1

\* Old contents a crash may still uncover, next to the new ones.
Survive(old, new) == IF PowerLoss THEN old \cup {new} ELSE {new}

WriteSectors(h, f, secs) ==
    /\ dData' = [dData EXCEPT ![h] =
                    [x \in Sector |-> IF x \in secs THEN f[x] ELSE @[x]]]
    /\ pData' = [pData EXCEPT ![h] =
                    [x \in Sector |-> IF x \in secs THEN Survive(@[x], f[x])
                                                     ELSE @[x]]]
    /\ dTab' = [dTab EXCEPT ![h] = JunkTable]
    /\ pTab' = [pTab EXCEPT ![h] = Survive(@, JunkTable)]
    /\ UNCHANGED <<staged, dL1, dRc, pL1>>

WriteTable(h, t, n) ==
    LET new == [j \in L2Index |-> IF j < n THEN t[j] ELSE dTab[h][j]]
        junk == [x \in Sector |-> Junk]
    IN /\ dTab' = [dTab EXCEPT ![h] = new]
       /\ pTab' = [pTab EXCEPT ![h] = Survive(@, new)]
       /\ dData' = [dData EXCEPT ![h] = junk]
       /\ pData' = [pData EXCEPT ![h] = [x \in Sector |-> Survive(@[x], Junk)]]
       /\ UNCHANGED <<staged, dL1, dRc, pL1>>

WriteL1(n) ==
    LET new == [i \in L1Index |-> IF i < n THEN l1[i] ELSE dL1[i]]
    IN /\ dL1' = new
       /\ pL1' = Survive(pL1, new)
       /\ UNCHANGED <<staged, dTab, dData, dRc, pTab, pData>>

WriteBlock(b, n) ==
    /\ dRc' = [h \in Cluster |-> IF BlockOf(h) = b /\ h < b * EPB + n
                                 THEN rc[h] ELSE dRc[h]]
    /\ UNCHANGED <<staged, dL1, dTab, dData, pL1, pTab, pData>>

\* A Durability barrier is an fsync where the device has one, else nothing.
ExecBarrier ==
    /\ IF Fsync
       THEN /\ pL1' = {dL1}
            /\ pTab' = [h \in Cluster |-> {dTab[h]}]
            /\ pData' = [h \in Cluster |-> [x \in Sector |-> {dData[h][x]}]]
       ELSE UNCHANGED <<pL1, pTab, pData>>
    /\ UNCHANGED <<staged, dL1, dTab, dData, dRc>>

MemStep(s) ==
    /\ l1'  = IF s.op = "patch1" THEN [l1 EXCEPT ![s.at] = s.e] ELSE l1
    /\ win' = CASE s.op = "load"    -> [win EXCEPT ![s.slot] = dTab[s.h]]
                [] s.op = "zregion" -> [win EXCEPT ![s.slot] = EmptyTable]
                [] s.op = "patch2"  -> [win EXCEPT ![s.slot][s.at] = s.e]
                [] OTHER            -> win
    /\ bounce' = IF s.op = "read" THEN dData[s.h] ELSE bounce
    /\ UNCHANGED disk

Apply(s, n) ==
    \/ s.op \in {"load", "zregion", "patch1", "patch2", "read"} /\ MemStep(s)
    \/ s.op = "zero" /\ WriteSectors(s.h, [x \in Sector |-> Zero],
                                     s.at .. (s.at + n - 1))
    \/ s.op = "body" /\ WriteSectors(s.h,
            [x \in Sector |-> IF x \in s.at .. (s.at + s.len - 1)
                              THEN req.data[req.voff + s.from + (x - s.at)]
                              ELSE Junk],
            s.at .. (s.at + n - 1))
    \/ s.op = "copy" /\ WriteSectors(s.h, bounce, 0 .. (n - 1))
    \/ s.op = "wb" /\ WriteTable(s.h, win[s.slot], n)
    \/ s.op = "wl1" /\ WriteL1(n)
    \/ s.op = "wrb" /\ WriteBlock(s.at, n)
    \/ s.op = "barrier" /\ ExecBarrier

Exec ==
    /\ pc = "exec" /\ buf # <<>>
    /\ Apply(Head(buf), Units(Head(buf)))
    /\ buf' = Tail(buf)
    /\ UNCHANGED <<img0, slots, planner, progress, rc, pc, ret, caller>>

\* A failing step ends the operation; nothing is rolled back.
ExecFail ==
    /\ pc = "exec" /\ buf # <<>>
    /\ LET s == Head(buf)
       IN IF s.op \in {"zero", "body", "copy", "wb", "wl1", "wrb"}
          THEN \E n \in 0 .. (Units(s) - 1) : Apply(s, n)
          ELSE UNCHANGED <<staged, disk>>
    /\ pc' = "failed"
    /\ UNCHANGED <<img0, slots, planner, progress, rc, buf, ret, caller>>

-----------------------------------------------------------------------------
(***************************************************************************)
(* The operation: the requests it submits and what it does with a return.  *)
(***************************************************************************)
Unmapped == IF img.backing THEN Backing ELSE Zero
ReadEntry(e, data, s) == CASE e.fl = "comp" -> Compressed
                           [] e.fl = "bad"  -> Junk
                           [] e.fl = "zero" -> Zero
                           [] e.fl = "none" /\ e.h = 0 -> Unmapped
                           [] OTHER -> data[e.h][s % CS]
\* What a reader of the device finds at virtual sector s.
DiskRead(s) ==
    LET t == dL1[L1Of(s)].h
    IN ReadEntry(IF t = 0 THEN NoEntry ELSE dTab[t][L2Of(s)], dData, s)

Start(voff, len, data) ==
    /\ req' = [voff |-> voff, len |-> len, data |-> data]
    /\ consumed' = 0
    /\ stage' = "Enter"
    /\ pendZero' = {}
    /\ pc' = "plan"
    /\ hist' = [s \in VSector |-> IF voff <= s /\ s < voff + len
                                  THEN hist[s] \cup {data[s]} ELSE hist[s]]

\* plan_write accepts what fits the virtual size; the operations never cross
\* a cluster in one request on an image with a backing file.
Submit ==
    /\ pc = "idle" /\ nreq < MaxReq
    /\ \E voff \in VSector : \E len \in 1 .. (VSize - voff) :
          /\ img.backing => GuestCluster(voff) = GuestCluster(voff + len - 1)
          /\ Start(voff, len, [s \in VSector |-> nreq + 1])
    /\ nreq' = nreq + 1
    /\ UNCHANGED <<img0, slot, lru, planner, cur, flushIdx, staged, rc, buf,
                   disk, ret, refused, view>>

\* bench: NeedsBackingFill is answered with the whole cluster, its pre-image
\* read through the chain and the pattern written over it.
Resubmit ==
    /\ pc = "exec" /\ buf = <<>> /\ ret = "needfill"
    /\ LET first == At - InOff
           last  == IF first + CS <= VSize THEN first + CS ELSE VSize
       IN Start(first, last - first,
                [s \in VSector |-> IF At <= s /\ s < At + WinLen
                                  THEN req.data[s] ELSE DiskRead(s)])
    /\ UNCHANGED <<img0, slot, lru, planner, cur, flushIdx, staged, rc, buf,
                   disk, ret, nreq, refused, view>>

Resume ==
    /\ pc = "exec" /\ buf = <<>> /\ ret = "full"
    /\ pc' = "plan"
    /\ pendZero' = {}
    /\ UNCHANGED <<img0, slot, lru, planner, progress, staged, rc, buf, disk,
                   ret, caller>>

Complete ==
    /\ pc = "exec" /\ buf = <<>> /\ ret = "ok"
    /\ pc' = "idle"
    /\ UNCHANGED <<img0, slots, planner, progress, staged, rc, buf, disk, ret,
                   caller>>

\* A refused operation runs the window it has and ends without a flush.
EndRefused ==
    /\ pc = "exec" /\ buf = <<>> /\ ret = "refused"
    /\ pc' = "stop"
    /\ UNCHANGED <<img0, slots, planner, progress, staged, rc, buf, disk, ret,
                   caller>>

Flush ==
    /\ pc = "idle"
    /\ stage' = "PreBarrier"
    /\ flushIdx' = 0
    /\ pendZero' = {}
    /\ pc' = "plan"
    /\ UNCHANGED <<img0, slot, lru, planner, req, consumed, cur, staged, rc, buf,
                   disk, ret, caller>>

Stopped == pc \in {"stop", "failed"} /\ UNCHANGED vars

-----------------------------------------------------------------------------
InitData(im, h) ==
    [x \in Sector |-> IF im.rc[h] > 0 /\ im.tab[h] = JunkTable
                      THEN Original(h) ELSE Junk]

Init ==
    /\ img \in Images /\ cap \in Caps
    /\ slot = [k \in Slots |-> [valid |-> FALSE, dirty |-> FALSE,
                                l1 |-> 0, host |-> 0]]
    /\ lru = [k \in 1..NSlots |-> k - 1]
    /\ l1Dirty = FALSE /\ rbDirty = {} /\ cursor = 0 /\ pendZero = {}
    /\ sinceBar = FALSE
    /\ stage = "idle" /\ consumed = 0 /\ flushIdx = 0
    /\ req = [voff |-> 0, len |-> 0, data |-> [s \in VSector |-> Junk]]
    /\ cur = [slot |-> 0, l2h |-> 0, dh |-> 0, src |-> 0, zpre |-> FALSE]
    /\ l1 = img.l1 /\ rc = img.rc
    /\ win = [k \in Slots |-> JunkTable]
    /\ bounce = [x \in Sector |-> Junk]
    /\ buf = <<>>
    /\ dL1 = img.l1 /\ dTab = img.tab /\ dRc = img.rc
    /\ dData = [h \in Cluster |-> InitData(img, h)]
    /\ pL1 = {dL1}
    /\ pTab = [h \in Cluster |-> {dTab[h]}]
    /\ pData = [h \in Cluster |-> [x \in Sector |-> {dData[h][x]}]]
    /\ pc = "idle" /\ ret = "ok" /\ nreq = 0 /\ refused = FALSE
    /\ view = [s \in VSector |-> DiskRead(s)]
    /\ hist = [s \in VSector |-> {DiskRead(s)}]

PlanWrite ==
    \/ EnterHit \/ EnterMiss \/ SlotFreeAlloc \/ SlotFreeLoad
    \/ FreshAlloc \/ FreshZeroed
    \/ CowL2Load \/ CowL2Repoint \/ CowL2Decrement
    \/ OverwriteOwned \/ ReuseZero \/ SlotReadyAlloc
    \/ HeadFill \/ Body \/ TailFill \/ TailDone
    \/ CowFull \/ CowZero \/ CowRead \/ CowCopy \/ CowBody \/ CowPatch
    \/ CowDataDecrement
    \/ Refuse \/ RefuseFill \/ WritePlanned

PlanFlush ==
    \/ PreBarrier \/ L2Writeback \/ L2WritebacksDone
    \/ L1Barrier \/ L1Clean \/ L1Write
    \/ RbBarrier \/ RbClean \/ RbWriteback \/ RbWritebacksDone
    \/ EndBarrier

Engine == PlanWrite \/ PlanFlush \/ BufFull \/ Exec \/ Resume \/ Complete
            \/ EndRefused \/ Resubmit

Next == Engine \/ ExecFail \/ Submit \/ Flush \/ Stopped

Spec == Init /\ [][Next]_vars

\* The operation's loop is sequential code: it runs while it has work to do.
FairSpec == Spec /\ WF_vars(Engine)

-----------------------------------------------------------------------------
(***************************************************************************)
(* Properties.                                                             *)
(***************************************************************************)
WriteStages == {"Enter", "SlotFree", "FreshAlloc", "FreshZeroed", "SlotReady",
                "DataAlloc", "HeadDone", "BodyDone", "TailDone", "CowL2Load",
                "CowL2Repoint", "CowL2Decrement", "CowDataEnter", "CowDataCopy",
                "CowDataBody", "CowDataPatch", "CowDataDecrement"}
FlushStages == {"PreBarrier", "L2Writebacks", "L1Barrier", "L1Write",
                "RbBarrier", "RbWritebacks", "EndBarrier"}

TypeState ==
    /\ slot \in [Slots -> [valid : BOOLEAN, dirty : BOOLEAN,
                           l1 : L1Index, host : Cluster]]
    /\ lru \in Seq(Slots) /\ pendZero \subseteq Slots
    /\ l1Dirty \in BOOLEAN /\ rbDirty \subseteq Block
    /\ cursor \in Nat /\ sinceBar \in BOOLEAN
TypeProgress ==
    /\ stage \in WriteStages \cup FlushStages \cup {"idle"}
    /\ req \in [voff : VSector, len : 0..VSize, data : [VSector -> Int]]
    /\ req.voff + req.len <= VSize
    /\ consumed \in 0..req.len /\ flushIdx \in Nat
    /\ cur \in [slot : Slots, l2h : Cluster, dh : Cluster, src : Cluster,
                zpre : BOOLEAN]
TypeStaged ==
    /\ l1 \in [L1Index -> Entry] /\ win \in [Slots -> Table]
    /\ rc \in [Cluster -> Nat] /\ bounce \in [Sector -> Int]
TypeWindow ==
    /\ buf \in Seq(Step) /\ Len(buf) <= cap
    /\ \A n \in 1..Len(buf) :
          buf[n].op = "body" => /\ buf[n].from + buf[n].len <= req.len
                                /\ buf[n].at + buf[n].len <= CS
TypeDisk ==
    /\ dL1 \in [L1Index -> Entry] /\ dTab \in [Cluster -> Table]
    /\ dData \in [Cluster -> [Sector -> Int]] /\ dRc \in [Cluster -> Nat]
TypeCaller ==
    /\ pc \in {"idle", "plan", "exec", "stop", "failed"}
    /\ ret \in {"ok", "full", "refused", "needfill"}
    /\ nreq \in 0..MaxReq /\ refused \in BOOLEAN
    /\ view \in [VSector -> Int]
    /\ pc = "idle" => buf = <<>>
    /\ pc = "exec" /\ ret = "needfill" => consumed < req.len

\* Every variable holds a value of the kind its Rust counterpart can hold, the
\* window never holds more steps than its capacity, and a data step of the
\* window stays inside its cluster and inside the request it came from.
TypeOK ==
    /\ img \in Images /\ cap \in Caps
    /\ TypeState /\ TypeProgress /\ TypeStaged /\ TypeWindow /\ TypeDisk
    /\ TypeCaller

\* The table a planner call would find for L1 entry i: its slot, else the disk.
StagedTable(i) ==
    IF \E k \in Slots : slot[k].valid /\ slot[k].l1 = i
    THEN win[CHOOSE k \in Slots : slot[k].valid /\ slot[k].l1 = i]
    ELSE IF l1[i].h = 0 THEN EmptyTable ELSE dTab[l1[i].h]

\* Between two calls, the staged metadata and the device together read back
\* exactly what the requests wrote over the original image: pre-images, head
\* and tail fills, copies, evicted and reloaded tables included.
ReadsBack ==
    pc = "idle" =>
        \A s \in VSector :
            ReadEntry(StagedTable(L1Of(s))[L2Of(s)], dData, s) = view[s]

\* The number of references the device's active map holds on h.
DiskRefs(h) ==
    Cardinality({i \in L1Index : dL1[i].h = h})
    + Cardinality({x \in L1Index \X L2Index :
                      dL1[x[1]].h # 0 /\ dTab[dL1[x[1]].h][x[2]].h = h})

\* Nothing is waiting to be written back.
NoDirtySlot == \A k \in Slots : ~(slot[k].valid /\ slot[k].dirty)
Clean == pc = "idle" /\ ~l1Dirty /\ rbDirty = {} /\ NoDirtySlot

\* After a flush the device holds the requested content, its refcounts are
\* exactly the references of the active map plus the snapshots', and no
\* active entry claims with its COPIED flag a cluster that a snapshot also
\* references (what an image check verifies).
FlushedExact ==
    Clean => /\ \A s \in VSector : DiskRead(s) = view[s]
             /\ \A h \in Cluster \ {0} : dRc[h] = img.kept[h] + DiskRefs(h)
             /\ \A i \in L1Index :
                  LET t == dL1[i].h
                  IN t # 0 => /\ dL1[i].cp => dRc[t] = 1
                              /\ \A j \in L2Index :
                                   dTab[t][j].cp => dRc[dTab[t][j].h] = 1

\* Whatever a crash leaves, every sector reads as something the image held or
\* a request wrote there: no pointer to a table or a cluster not yet written.
CrashReads ==
    \A s \in VSector : \A m \in pL1 :
        IF m[L1Of(s)].h = 0 THEN Unmapped \in hist[s]
        ELSE \A t \in pTab[m[L1Of(s)].h] :
                LET e == t[L2Of(s)]
                IN IF e.fl = "none" /\ e.h # 0
                   THEN pData[e.h][s % CS] \subseteq hist[s]
                   ELSE ReadEntry(e, dData, s) \in hist[s]

\* No cluster of the device has fewer counts than references.
AllCounted == \A h \in Cluster \ {0} : dRc[h] >= img.kept[h] + DiskRefs(h)

\* A refused operation leaves an image whose references are all counted: what
\* plan_write staged for the abandoned request has not reached the device.
RefusedClean == pc = "stop" => AllCounted

\* Refcounts are written last: when a refcount block is about to be written,
\* the device has the staged L1, no L2 slot waits to be written back, and the
\* rest of the window holds no pointer, patch or data, wherever the window
\* boundaries fell.
RefcountsLast ==
    pc = "exec" /\ buf # <<>> /\ Head(buf).op = "wrb" =>
        /\ dL1 = l1 /\ ~l1Dirty /\ NoDirtySlot
        /\ \A n \in 1..Len(buf) : buf[n].op \in {"wrb", "barrier"}

\* Every planner call ends and every window is executed: a request is
\* completed or refused, whatever the capacity of the window.
Settles == (pc = "plan") ~> (pc \in {"idle", "stop", "failed"})
=============================================================================
