----------------------------- MODULE GrowthExec -----------------------------
(***************************************************************************)
(* qcow2_write_setup and grow_refcounts: an image's refcount structures    *)
(* are read, the growth planner sizes them for the run, and the new blocks *)
(* and table are written in an order meant to survive a crash: blocks,     *)
(* table, fsync, header, fsync, and only then the old table is freed.      *)
(***************************************************************************)
EXTENDS GrowthPlan, FiniteSets

CONSTANTS NCluster,    \* clusters of the device
          Images,      \* the images a behaviour may start from
          MaxWorst,    \* bound: clusters the run may allocate
          Fsync        \* the device has an fsync primitive

Cluster == 0..(NCluster - 1)
BlockIndex == 0..(EPB - 1)
RtIndex == 0..(RPC - 1)
\* A cluster no refcount block was ever written to.
NoBlock == [x \in BlockIndex |-> -1]
EmptyRt == [x \in RtIndex |-> 0]

VARIABLES
    image,      \* the image: rt and rtN (its table), blocks, used clusters
    \* staged by the operation
    rt,         \* refcount table: slot -> cluster of its block, 0 for none
    rc,         \* refcounts of the staged blocks, by cluster
    count,      \* GrowthExec.refblock_count
    dirty,      \* slots of dirty blocks
    pc,
    \* the device, and what a power cut may leave of it: any of the writes
    \* that no fsync has followed
    dHdr, dRt, dBlk, pHdr, pRt, pBlk

exec == <<image, rt, rc, count, dirty, pc>>
device == <<dHdr, dRt, dBlk, pHdr, pRt, pBlk>>
vars == <<planVars, exec, device>>

MaxOf(S) == CHOOSE x \in S : \A y \in S : y <= x

\* derive_file_end_clusters: past everything the metadata names.
FileEnd(im) ==
    1 + MaxOf(im.used \cup {0, im.rt + im.rtN - 1, im.l1}
              \cup {im.blocks[k] : k \in DOMAIN im.blocks})

Blocks(im) == Cardinality(DOMAIN im.blocks)
Held(im) == {0, im.l1} \cup im.used \cup im.rt .. (im.rt + im.rtN - 1)
            \cup {im.blocks[k] : k \in DOMAIN im.blocks}

\* What setup starts from: a table with a slot for every block; blocks within
\* the staging cap that count every cluster the image holds; and no block, and
\* nothing else the image holds, in the place of the table.
WellFormed(im) ==
    LET table == im.rt .. (im.rt + im.rtN - 1) IN
    /\ im.rt \in Nat \ {0} /\ im.rtN \in Nat \ {0} /\ im.l1 \in Nat /\ im.used \subseteq Nat
    /\ \E n \in 1..MaxBlocks :
          /\ im.blocks \in [0..(n - 1) -> Nat \ {0}]
          /\ n <= im.rtN * RPC
          /\ \A c \in Held(im) : c < n * EPB
    /\ \A j, k \in DOMAIN im.blocks : im.blocks[j] = im.blocks[k] => j = k
    /\ table \cap ({im.l1} \cup im.used) = {}
    /\ \A k \in DOMAIN im.blocks : im.blocks[k] \notin table

\* The device holds all that the staged blocks can count.
ASSUME ExecAssumption ==
    /\ NCluster \in Nat /\ MaxBlocks * EPB <= NCluster /\ MaxWorst \in Nat
    /\ \A im \in Images : WellFormed(im)

RtAt(table, i) == [x \in RtIndex |-> table[i * RPC + x]]
BlockAt(counts, k) == [x \in BlockIndex |-> counts[k * EPB + x]]
Slot == 0..(NCluster - 1)

\* The whole table and every block of the staged prefix are read first.
Init ==
    /\ image \in Images
    /\ count = Blocks(image)
    /\ rt = [k \in Slot |-> IF k \in DOMAIN image.blocks THEN image.blocks[k] ELSE 0]
    /\ rc = [c \in 0 .. (NCluster * EPB) |-> IF c \in Held(image) THEN 1 ELSE 0]
    /\ dirty = {} /\ pc = "plan"
    /\ dHdr = [start |-> image.rt, n |-> image.rtN]
    /\ dRt = [c \in Cluster |-> IF c \in image.rt .. (image.rt + image.rtN - 1)
                                THEN RtAt(rt, c - image.rt) ELSE EmptyRt]
    /\ dBlk = [c \in Cluster |->
                 IF \E k \in DOMAIN image.blocks : image.blocks[k] = c
                 THEN BlockAt(rc, CHOOSE k \in DOMAIN image.blocks : image.blocks[k] = c)
                 ELSE NoBlock]
    /\ pHdr = {dHdr}
    /\ pRt = [c \in Cluster |-> {dRt[c]}]
    /\ pBlk = [c \in Cluster |-> {dBlk[c]}]
    /\ \E w \in 0..MaxWorst :
          in = [fileEnd |-> FileEnd(image), populated |-> count,
                rtCapacity |-> image.rtN * RPC, worst |-> w]
    /\ end = BaseEnd /\ needed = 0 /\ newBlocks = 0 /\ newRt = 0
    /\ round = 0 /\ plan = "start"

\* The operation refuses before it has written anything.
Refused == pc = "plan" /\ plan = "overflow" /\ pc' = "refused"
           /\ UNCHANGED <<planVars, image, rt, rc, count, dirty, device>>

NoneNeeded == pc = "plan" /\ plan = "ok" /\ newBlocks = 0 /\ pc' = "done"
              /\ UNCHANGED <<planVars, image, rt, rc, count, dirty, device>>

Relocating == newRt > 0
BlockHost(k) == in.fileEnd + newRt + (k - in.populated)
NewSlots == in.populated .. (needed - 1)
Structures == in.fileEnd .. (in.fileEnd + newRt + newBlocks - 1)

\* Blocks with a new refcount, and every new block (#433).
DirtyBlocks == {c \div EPB : c \in Structures} \cup NewSlots

GrownCount == needed

\* The extended table, zeroed new blocks, a count for each new cluster.
StageGrowth ==
    /\ pc = "plan" /\ plan = "ok" /\ newBlocks > 0
    /\ rt' = [k \in Slot |-> IF k \in NewSlots THEN BlockHost(k) ELSE rt[k]]
    /\ rc' = [c \in DOMAIN rc |-> IF c \in Structures THEN 1 ELSE rc[c]]
    /\ count' = GrownCount
    /\ dirty' = DirtyBlocks
    /\ pc' = "blocks"
    /\ UNCHANGED <<planVars, image, device>>

WriteBlk(c, b) == /\ dBlk' = [dBlk EXCEPT ![c] = b]
                  /\ pBlk' = [pBlk EXCEPT ![c] = @ \cup {b}]
                  /\ UNCHANGED <<dHdr, dRt, pHdr, pRt>>
\* The first n entries of block k; n is all of them unless the device fails.
WriteBlock(k, n) ==
    WriteBlk(rt[k], [x \in BlockIndex |-> IF x < n THEN rc[k * EPB + x]
                                          ELSE dBlk[rt[k]][x]])

\* flush_dirty_refblocks: in slot order.
FlushBlock ==
    /\ pc \in {"blocks", "free"}
    /\ \E k \in dirty : /\ \A x \in dirty : k <= x
                        /\ WriteBlock(k, EPB)
                        /\ dirty' = dirty \ {k}
    /\ UNCHANGED <<planVars, image, rt, rc, count, pc>>

BlocksFlushed ==
    /\ pc = "blocks" /\ dirty = {}
    /\ pc' = "table"
    /\ UNCHANGED <<planVars, image, rt, rc, count, dirty, device>>

\* The table's clusters: the relocated one, or the old one in place.
TableStart == IF Relocating THEN in.fileEnd ELSE image.rt
TableLen   == IF Relocating THEN newRt ELSE image.rtN
\* Its first n entries reach the device.
WriteTable(n) ==
    LET new(c) == [x \in RtIndex |->
                     LET k == (c - TableStart) * RPC + x
                     IN IF k < n THEN rt[k] ELSE dRt[c][x]]
        cs == TableStart .. (TableStart + TableLen - 1)
    IN /\ dRt' = [c \in Cluster |-> IF c \in cs THEN new(c) ELSE dRt[c]]
       /\ pRt' = [c \in Cluster |-> IF c \in cs THEN pRt[c] \cup {new(c)} ELSE pRt[c]]
       /\ UNCHANGED <<dHdr, dBlk, pHdr, pBlk>>

WriteTableStep ==
    /\ pc = "table"
    /\ WriteTable(TableLen * RPC)
    /\ pc' = "sync1"
    /\ UNCHANGED <<planVars, image, rt, rc, count, dirty>>

\* Mutant of Sync: the barrier is left out.
SyncDropped == UNCHANGED device
\* An fsync where the device has one, else only an ordering point.
Sync == /\ IF Fsync THEN /\ pHdr' = {dHdr}
                         /\ pRt' = [c \in Cluster |-> {dRt[c]}]
                         /\ pBlk' = [c \in Cluster |-> {dBlk[c]}]
                    ELSE UNCHANGED <<pHdr, pRt, pBlk>>
        /\ UNCHANGED <<dHdr, dRt, dBlk>>

SyncTable ==
    /\ pc = "sync1" /\ Sync
    /\ pc' = IF Relocating THEN "header" ELSE "done"
    /\ UNCHANGED <<planVars, image, rt, rc, count, dirty>>

\* The commit point: 12 bytes of the header, in one sector.
FlipHeader ==
    /\ pc = "header"
    /\ dHdr' = [start |-> in.fileEnd, n |-> newRt]
    /\ pHdr' = pHdr \cup {dHdr'}
    /\ pc' = "sync2"
    /\ UNCHANGED <<planVars, image, rt, rc, count, dirty, dRt, dBlk, pRt, pBlk>>

SyncHeader ==
    /\ pc = "sync2" /\ Sync
    /\ pc' = "stagefree"
    /\ UNCHANGED <<planVars, image, rt, rc, count, dirty>>

OldTable == image.rt .. (image.rt + image.rtN - 1)
\* Mutant of StageFree: the first cluster of the old table keeps its count.
StageFreeShort ==
    /\ pc = "stagefree"
    /\ rc' = [c \in DOMAIN rc |-> IF c \in OldTable \ {image.rt} THEN 0 ELSE rc[c]]
    /\ dirty' = {c \div EPB : c \in OldTable}
    /\ pc' = "free"
    /\ UNCHANGED <<planVars, image, rt, count, device>>
StageFree ==
    /\ pc = "stagefree"
    /\ rc' = [c \in DOMAIN rc |-> IF c \in OldTable THEN 0 ELSE rc[c]]
    /\ dirty' = {c \div EPB : c \in OldTable}
    /\ pc' = "free"
    /\ UNCHANGED <<planVars, image, rt, count, device>>

Freed ==
    /\ pc = "free" /\ dirty = {}
    /\ pc' = "done"
    /\ UNCHANGED <<planVars, image, rt, rc, count, dirty, device>>

\* A write stops after any number of entries, or an fsync fails.
Fail ==
    /\ \/ /\ pc \in {"blocks", "free"}
          /\ \E k \in dirty : \E n \in 0 .. (EPB - 1) :
                (\A x \in dirty : k <= x) /\ WriteBlock(k, n)
       \/ /\ pc = "table"
          /\ \E n \in 0 .. (TableLen * RPC - 1) : WriteTable(n)
       \/ /\ pc \in {"header", "sync1", "sync2"}
          /\ UNCHANGED device
    /\ pc' = "failed"
    /\ UNCHANGED <<planVars, image, rt, rc, count, dirty>>

Planning == pc = "plan" /\ PlanStep /\ UNCHANGED <<exec, device>>
Stopped == pc \in {"done", "refused", "failed"} /\ UNCHANGED vars

Next ==
    \/ Planning \/ Refused \/ NoneNeeded \/ StageGrowth
    \/ FlushBlock \/ BlocksFlushed \/ WriteTableStep \/ SyncTable
    \/ FlipHeader \/ SyncHeader \/ StageFree \/ Freed \/ Fail \/ Stopped

Spec == Init /\ [][Next]_vars

-----------------------------------------------------------------------------

\* The slots of the table of header h, and the cluster that holds slot k.
TableSlots(h) == 0 .. (h.n * RPC - 1)
Holder(h, k) == h.start + k \div RPC

\* Clusters the image uses if a power cut leaves header h: the guest's, the table,
\* and the blocks the table names for certain.
InUse(h) == {0, image.l1} \cup image.used
            \cup h.start .. (h.start + h.n - 1)
            \cup {image.blocks[k] : k \in DOMAIN image.blocks}
\* In whatever a power cut leaves, every cluster the image uses is counted:
\* growth may leak clusters but never leaves one to be allocated twice.
CrashCounted ==
    \A h \in pHdr : \A c \in InUse(h) :
        LET k == c \div EPB
        IN /\ k \in TableSlots(h)
           /\ \A t \in pRt[Holder(h, k)] :
              t[k % RPC] # 0 /\ \A b \in pBlk[t[k % RPC]] : b[c % EPB] = 1

\* After a successful growth the device has exactly the staged refcounts and
\* table, every count is a use and every use a count, and the staged blocks
\* have room for all the clusters the run may allocate.
GrownExact ==
    pc = "done" =>
        /\ \A k \in 0 .. (count - 1) :
              /\ dRt[Holder(dHdr, k)][k % RPC] = rt[k]
              /\ dBlk[rt[k]] = BlockAt(rc, k)
        /\ \A c \in 0 .. (count * EPB - 1) :
              rc[c] = 1 <=> c \in InUse(dHdr) \cup {rt[k] : k \in 0 .. (count - 1)}
        /\ Cardinality({c \in 0 .. (count * EPB - 1) : rc[c] = 0}) >= in.worst
=============================================================================
