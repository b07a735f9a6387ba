---------------------------- MODULE GrowthProofs ----------------------------
(***************************************************************************)
(* Proofs about the growth planner and about grow_refcounts, which carries *)
(* its plans out, for every geometry, image and input.                     *)
(***************************************************************************)
EXTENDS GrowthExec, TLAPS

\* Rounding up gives enough whole units.
LEMMA CeilEnough ==
    ASSUME NEW n \in Nat, NEW d \in Nat \ {0}
    PROVE  CeilDiv(n, d) \in Nat /\ n <= CeilDiv(n, d) * d
<1> DEFINE q == (n + d - 1) \div d
<1>1. q \in Nat
  OBVIOUS
<1>2. n + d - 1 < (q + 1) * d
  OBVIOUS
<1>3. (q + 1) * d = q * d + d
  BY <1>1
<1>4. q * d \in Nat
  BY <1>1
<1> QED BY <1>1, <1>2, <1>3, <1>4 DEF CeilDiv

\* Multiplying keeps the order.
LEMMA ScaleUp ==
    ASSUME NEW a \in Nat, NEW b \in Nat, NEW d \in Nat, a <= b
    PROVE  a * d <= b * d
<1> PICK c \in Nat : b = a + c
  <2> b - a \in Nat /\ b = a + (b - a)
    OBVIOUS
  <2> QED OBVIOUS
<1>1. b * d = a * d + c * d
  OBVIOUS
<1>2. a * d \in Nat /\ c * d \in Nat
  OBVIOUS
<1> QED BY <1>1, <1>2

\* What the iteration knows: the planned sizes belong to the last slot count,
\* and once it has converged that slot count covers the end it produces.
PlanInv ==
    /\ PlanTypeOK
    /\ plan \in {"start", "iterate"} => needed \in Nat
    /\ plan = "start" => newBlocks = 0 /\ newRt = 0
    /\ plan = "converged" => /\ needed = CeilDiv(end, EPB)
                             /\ newBlocks = BlocksFor(needed)
                             /\ newRt = RtFor(needed)
                             /\ end = NextEnd(needed)
    /\ plan = "ok" => newBlocks = BlocksFor(needed) /\ needed <= MaxBlocks
    /\ PlanCovers /\ TableHolds

\* A saturated sum is a u64.
LEMMA SatType == ASSUME NEW n \in Nat PROVE Sat(n) \in 0..Top
BY PlanAssumption DEF Sat, PlanAssumption

\* The sizes a round of the planner computes are numbers of their types.
LEMMA SizesType ==
    ASSUME in \in Input, NEW n \in Nat
    PROVE  BlocksFor(n) \in Nat /\ RtFor(n) \in Nat /\ NextEnd(n) \in 0..Top
<1>1. in.populated \in Nat /\ in.rtCapacity \in Nat /\ in.fileEnd + in.worst \in Nat
  BY PlanAssumption DEF Input, PlanAssumption
<1>2. BlocksFor(n) \in Nat
  BY <1>1 DEF BlocksFor
<1>3. RtFor(n) \in Nat
  BY <1>1, CeilEnough, PlanAssumption DEF RtFor, PlanAssumption
<1>4. 0..Top \subseteq Nat
  BY PlanAssumption DEF PlanAssumption
<1>5. BaseEnd \in 0..Top
  BY <1>1, SatType DEF BaseEnd
<1>6. Sat(BaseEnd + RtFor(n)) \in 0..Top
  BY <1>3, <1>4, <1>5, SatType
<1>7. NextEnd(n) \in 0..Top
  BY <1>2, <1>4, <1>6, SatType DEF NextEnd
<1> QED BY <1>2, <1>3, <1>7

\* The planner starts from what it is given.
LEMMA PlanStart ==
    ASSUME in \in Input, end = BaseEnd, needed = 0, newBlocks = 0, newRt = 0,
           round = 0, plan = "start"
    PROVE  PlanInv
<1>1. in.fileEnd + in.worst \in Nat
  BY DEF Input
<1>2. BaseEnd \in 0..Top
  BY <1>1, SatType DEF BaseEnd
<1> QED BY <1>1, <1>2, PlanAssumption
    DEF PlanInv, PlanTypeOK, PlanCovers, TableHolds, PlanAssumption

\* plan_refcount_growth starts within its invariant.
LEMMA PlanInitInv == PlanInit => PlanInv
BY PlanStart, PlanAssumption DEF PlanInit, PlanAssumption

\* A slot count within the caps covers less than u64 can count, so an end it
\* covers has not been saturated.
LEMMA FittingIsExact ==
    ASSUME in \in Input, NEW n \in Nat, n <= MaxBlocks,
           NEW e \in 0..Top, e <= n * EPB
    PROVE  /\ e = BaseEnd => in.fileEnd + in.worst = e
           /\ e = NextEnd(n) => in.fileEnd + in.worst + RtFor(n) + BlocksFor(n) = e
<1>1. e < Top
  BY ScaleUp, PlanAssumption DEF PlanAssumption
<1>2. in.fileEnd + in.worst \in Nat
  BY DEF Input
<1>3. RtFor(n) \in Nat /\ BlocksFor(n) \in Nat
  BY SizesType
<1>4. ASSUME NEW k \in Nat, Sat(k) < Top PROVE Sat(k) = k
  BY <1>4, PlanAssumption DEF Sat, PlanAssumption
<1>5. e = BaseEnd => in.fileEnd + in.worst = e
  BY <1>1, <1>2, <1>4 DEF BaseEnd
<1>6. ASSUME e = NextEnd(n)
      PROVE  in.fileEnd + in.worst + RtFor(n) + BlocksFor(n) = e
  <2> DEFINE a == BaseEnd + RtFor(n)
  <2>0. BaseEnd \in Nat /\ Sat(a) \in Nat
    BY <1>2, <1>3, SatType, PlanAssumption DEF BaseEnd, PlanAssumption
  <2>1. Sat(a) + BlocksFor(n) = e
    BY <1>1, <1>3, <1>4, <1>6, <2>0 DEF NextEnd
  <2>2. Sat(a) < Top
    BY <1>1, <1>3, <2>0, <2>1, PlanAssumption DEF PlanAssumption
  <2>3. a \in Nat /\ Sat(a) = a
    BY <1>3, <1>4, <2>0, <2>2
  <2>4. BaseEnd < Top
    BY <1>3, <2>0, <2>2, <2>3, PlanAssumption DEF PlanAssumption
  <2>5. BaseEnd = in.fileEnd + in.worst
    BY <1>2, <1>4, <2>4 DEF BaseEnd
  <2> QED BY <1>3, <2>0, <2>1, <2>3, <2>5, <1>2
<1> QED BY <1>5, <1>6

\* Every step of the planner keeps its invariant.
LEMMA PlanNextInv == PlanInv /\ [PlanNext]_planVars => PlanInv'
<1> SUFFICES ASSUME PlanInv, [PlanNext]_planVars PROVE PlanInv'
  OBVIOUS
<1>0. /\ in \in Input /\ end \in 0..Top /\ end \in Nat /\ needed \in Nat
      /\ EPB \in Nat \ {0} /\ RPC \in Nat \ {0}
  BY PlanAssumption DEF PlanInv, PlanTypeOK, PlanAssumption
<1>1. CASE NoGrowth
  <2>1. PlanTypeOK' /\ TableHolds' /\ newRt' = 0 /\ newBlocks' = 0
    BY <1>0, <1>1 DEF NoGrowth, PlanInv, PlanTypeOK, TableHolds, Input
  <2>2. BaseEnd \in 0..Top /\ BaseEnd \in Nat /\ in.populated \in Nat
    BY <1>0, SatType, PlanAssumption DEF BaseEnd, Input, PlanAssumption
  <2>3. BaseEnd <= CeilDiv(BaseEnd, EPB) * EPB /\ CeilDiv(BaseEnd, EPB) \in Nat
    BY <1>0, <2>2, CeilEnough
  <2>4. CeilDiv(BaseEnd, EPB) * EPB <= in.populated * EPB
    BY <1>0, <1>1, <2>2, <2>3, ScaleUp DEF NoGrowth
  <2>5. BaseEnd <= in.populated * EPB
    BY <1>0, <2>2, <2>3, <2>4
  <2>6. in.fileEnd + in.worst = BaseEnd /\ in.populated <= MaxBlocks
    BY <1>0, <2>2, <2>5, FittingIsExact, PlanAssumption DEF Input, PlanAssumption
  <2>7. PlanCovers'
    BY <1>0, <1>1, <2>1, <2>2, <2>5, <2>6 DEF NoGrowth, PlanCovers
  <2>8. newBlocks' = BlocksFor(needed)' /\ needed' <= MaxBlocks
    BY <1>1, <2>1, <2>2, <2>6 DEF NoGrowth, BlocksFor
  <2> QED BY <1>1, <2>1, <2>7, <2>8 DEF NoGrowth, PlanInv, PlanTypeOK
<1>2. CASE Grow
  BY <1>2 DEF Grow, PlanInv, PlanTypeOK, PlanCovers, TableHolds
<1>3. CASE Round
  <2>1. needed' \in Nat
    BY <1>0, <1>3, CeilEnough DEF Round
  <2>2. /\ BlocksFor(needed') \in Nat /\ RtFor(needed') \in Nat
        /\ NextEnd(needed') \in 0..Top
    BY <1>0, <2>1, SizesType
  <2>3. PlanTypeOK'
    BY <1>3, <2>1, <2>2, PlanAssumption
       DEF Round, PlanInv, PlanTypeOK, PlanAssumption
  <2>4. plan' \in {"converged", "iterate"}
    BY <1>3 DEF Round
  <2>5. ASSUME plan' = "converged"
        PROVE  /\ needed' = CeilDiv(end', EPB)
               /\ newBlocks' = BlocksFor(needed)'
               /\ newRt' = RtFor(needed)'
               /\ end' = NextEnd(needed)'
    BY <1>3, <2>5 DEF Round, BlocksFor, RtFor, NextEnd, BaseEnd
  <2> QED BY <2>1, <2>3, <2>4, <2>5 DEF PlanInv, PlanCovers, TableHolds
<1>4. CASE NotConverged
  BY <1>4 DEF NotConverged, PlanInv, PlanTypeOK, PlanCovers, TableHolds
<1>5. CASE CheckCaps
  <2>1. /\ needed = CeilDiv(end, EPB) /\ newBlocks = BlocksFor(needed)
        /\ newRt = RtFor(needed) /\ end = NextEnd(needed)
    BY <1>5 DEF CheckCaps, PlanInv
  <2>2. PlanTypeOK'
    BY <1>5 DEF CheckCaps, PlanInv, PlanTypeOK
  <2>3. newRt \in Nat /\ newBlocks \in Nat /\ in.rtCapacity \in Nat
    BY <1>0, <2>1, SizesType DEF Input
  <2>4. ASSUME plan' = "ok" PROVE PlanCovers' /\ TableHolds'
    <3>1. FitsCaps(needed, newRt)
      BY <1>5, <2>4 DEF CheckCaps
    <3>2. end <= needed * EPB
      BY <1>0, <2>1, CeilEnough
    <3>3. in.fileEnd + in.worst + newRt + newBlocks = end
      BY <1>0, <2>1, <3>1, <3>2, FittingIsExact DEF FitsCaps
    <3>4. newRt > 0 => needed <= newRt * RPC
      BY <1>0, <2>1, <2>3, CeilEnough DEF RtFor
    <3>5. newRt = 0 => needed <= in.rtCapacity
      <4>1. ASSUME newRt = 0, needed > in.rtCapacity PROVE FALSE
        <5>1. needed <= 0 * RPC
          BY <1>0, <2>1, <4>1, CeilEnough DEF RtFor
        <5> QED BY <1>0, <2>3, <4>1, <5>1
      <4> QED BY <4>1, <1>0, <2>3
    <3> QED BY <1>5, <3>1, <3>2, <3>3, <3>4, <3>5
        DEF CheckCaps, PlanCovers, TableHolds, FitsCaps
  <2>5. plan' \in {"ok", "overflow"}
    BY <1>5 DEF CheckCaps
  <2>6. plan' = "ok" => newBlocks' = BlocksFor(needed)' /\ needed' <= MaxBlocks
    BY <1>5, <2>1 DEF CheckCaps, FitsCaps, BlocksFor
  <2> QED BY <2>2, <2>4, <2>5, <2>6, <1>0, <1>5
          DEF PlanInv, PlanCovers, TableHolds, CheckCaps
<1>6. CASE Planned \/ UNCHANGED planVars
  BY <1>6 DEF Planned, planVars, PlanInv, PlanTypeOK, PlanCovers, TableHolds,
     BlocksFor, RtFor, NextEnd, BaseEnd
<1> QED BY <1>1, <1>2, <1>3, <1>4, <1>5, <1>6 DEF PlanNext, PlanStep

\* A plan that plan_refcount_growth accepts covers the file, the whole run and
\* its own structures, for every geometry, file and schedule.
THEOREM GrowthCovers == PlanSpec => []PlanCovers
<1>1. PlanInv => PlanCovers
  BY DEF PlanInv
<1> QED BY PlanInitInv, PlanNextInv, <1>1, PTL DEF PlanSpec

\* The refcount table of an accepted plan has a slot for every block, in place
\* or relocated, and its image fits the buffer it is staged in.
THEOREM GrowthTableHolds == PlanSpec => []TableHolds
<1>1. PlanInv => TableHolds
  BY DEF PlanInv
<1> QED BY PlanInitInv, PlanNextInv, <1>1, PTL DEF PlanSpec

-----------------------------------------------------------------------------
(* Carrying a plan out *)

OldHdr == [start |-> image.rt, n |-> image.rtN]
NewHdr == [start |-> in.fileEnd, n |-> newRt]

\* The blocks count the clusters of S and, if fsync is one, so does whatever a
\* power cut leaves of them.
Counted(S) ==
    \A c \in S : LET h == rt[c \div EPB] IN
        /\ dBlk[h][c % EPB] = 1
        /\ Fsync => \A b \in pBlk[h] : b[c % EPB] = 1
\* The same of the table at start, which names the first n blocks.
Named(start, n) ==
    \A k \in 0..(n - 1) : LET c == start + k \div RPC IN
        /\ dRt[c][k % RPC] = rt[k]
        /\ Fsync => \A t \in pRt[c] : t[k % RPC] = rt[k]

Busy == pc \in {"blocks", "table", "sync1", "header", "sync2", "stagefree", "free"}
Going == pc \notin {"done", "failed"}
Ungrown == pc \in {"plan", "refused"} \/ (pc = "done" /\ newBlocks = 0)
\* The old table has been given up.
Moved == pc = "free" \/ (pc = "done" /\ newBlocks # 0 /\ Relocating)
\* The clusters that are in use, by what the operation has staged.
Live == (Held(image) \cup (IF Ungrown THEN {} ELSE Structures))
        \ (IF Moved THEN OldTable ELSE {})

\* Everything an image holds lies before its file end and within what its
\* blocks count.
ImagesFit ==
    \A im \in Images :
        /\ Blocks(im) \in 1..MaxBlocks /\ Blocks(im) <= im.rtN * RPC
        /\ im.blocks \in [0..(Blocks(im) - 1) -> Nat \ {0}]
        /\ Held(im) \subseteq 0..(Blocks(im) * EPB - 1)
        /\ FileEnd(im) \in Nat /\ Held(im) \subseteq 0..(FileEnd(im) - 1)

ShapeInv ==
    /\ pc \in {"plan", "refused", "blocks", "table", "sync1", "header", "sync2",
               "stagefree", "free", "done", "failed"}
    /\ dRt = [c \in Cluster |-> dRt[c]] /\ pRt = [c \in Cluster |-> pRt[c]]
    /\ dBlk = [c \in Cluster |-> dBlk[c]] /\ pBlk = [c \in Cluster |-> pBlk[c]]
    /\ rt = [k \in Slot |-> rt[k]] /\ rc = [c \in 0..(NCluster * EPB) |-> rc[c]]
    /\ ImagesFit /\ image \in Images /\ in.populated = Blocks(image)
    /\ in.fileEnd = FileEnd(image) /\ in.rtCapacity = image.rtN * RPC
\* Only an accepted plan is carried out, and the staged blocks are its blocks.
SizeInv ==
    /\ pc \notin {"plan", "refused"} => plan = "ok"
    /\ pc \notin {"plan", "refused", "done"} => newBlocks > 0
    /\ count = IF Ungrown THEN in.populated ELSE needed
\* The staged table and refcounts.
StagedInv ==
    /\ \A k \in 0..(count - 1) :
          rt[k] = IF k < in.populated THEN image.blocks[k] ELSE BlockHost(k)
    /\ pc # "failed" => \A c \in 0..(NCluster * EPB) : rc[c] = IF c \in Live THEN 1 ELSE 0
\* A block that is not dirty is on the device as it is staged.
BlocksInv ==
    pc # "failed" =>
        /\ dirty \subseteq 0..(count - 1)
        /\ pc \notin {"blocks", "free"} => dirty = {}
        /\ \A k \in 0..(count - 1) : k \notin dirty => dBlk[rt[k]] = BlockAt(rc, k)
\* Which table the header names: the old one until the flip, the new one after.
HeaderInv ==
    /\ pc \in {"plan", "refused", "blocks", "table", "sync1", "header"}
         => dHdr = OldHdr /\ pHdr = {OldHdr}
    /\ pc \in {"header", "sync2", "stagefree", "free"} => Relocating
    /\ pc = "sync2" => dHdr = NewHdr /\ pHdr = {OldHdr, NewHdr}
    /\ pc \in {"stagefree", "free"} => dHdr = NewHdr /\ (Fsync => pHdr = {NewHdr})
    /\ pc = "done" => dHdr = IF newBlocks # 0 /\ Relocating THEN NewHdr ELSE OldHdr
\* What is counted at each stage, whatever a power cut leaves.
CountsInv ==
    /\ pc \in {"plan", "refused", "blocks", "table", "sync1"} => Counted(Held(image))
    /\ pc \in {"header", "sync2", "stagefree"} => Counted(Held(image) \cup Structures)
    /\ pc = "free" => Counted(Live)
\* And which tables name the blocks that count it.
TablesInv ==
    /\ pc \in {"plan", "refused", "blocks", "table", "sync1", "header", "sync2"}
         => Named(image.rt, in.populated)
    /\ pc \in {"header", "sync2", "stagefree", "free"} => Named(in.fileEnd, count)
    /\ pc = "sync1" => \A k \in 0..(count - 1) :
                          dRt[TableStart + k \div RPC][k % RPC] = rt[k]
    /\ pc = "done" => \A k \in 0..(count - 1) : dRt[Holder(dHdr, k)][k % RPC] = rt[k]

Recoverable == Fsync => CrashCounted
ExecInv ==
    /\ PlanInv /\ ShapeInv /\ SizeInv /\ StagedInv /\ BlocksInv /\ HeaderInv
    /\ CountsInv /\ TablesInv /\ Recoverable

\* Quotient and remainder.
LEMMA DivMod ==
    ASSUME NEW y \in Nat, NEW d \in Nat \ {0}
    PROVE  /\ y \div d \in Nat /\ y % d \in 0..(d - 1)
           /\ y = (y \div d) * d + (y % d)
OBVIOUS

\* A cluster that n units of d entries count has its unit, and its entry there.
LEMMA UnitOf ==
    ASSUME NEW n \in Nat, NEW d \in Nat \ {0}, NEW c \in 0..(n * d - 1)
    PROVE  /\ c \div d \in 0..(n - 1) /\ c % d \in 0..(d - 1)
           /\ c = (c \div d) * d + (c % d)
<1>1. c \in Nat /\ n * d \in Nat /\ c < n * d
  OBVIOUS
<1>2. PICK q \in Nat, r \in 0..(d - 1) : q = c \div d /\ r = c % d /\ c = q * d + r
  BY <1>1, DivMod
<1>3. ASSUME q >= n PROVE FALSE
  <2>1. n * d <= q * d
    BY <1>3, ScaleUp
  <2>2. q * d \in Nat
    OBVIOUS
  <2> QED BY <1>1, <1>2, <2>1, <2>2
<1>4. q \in 0..(n - 1)
  BY <1>3
<1> QED BY <1>2, <1>4

\* And the other way about.
LEMMA EntryOf ==
    ASSUME NEW n \in Nat, NEW d \in Nat \ {0}, NEW k \in 0..(n - 1), NEW x \in 0..(d - 1)
    PROVE  /\ k * d + x \in 0..(n * d - 1)
           /\ (k * d + x) \div d = k /\ (k * d + x) % d = x
<1>1. k * d \in Nat /\ k * d + x \in Nat /\ (k + 1) * d = k * d + d
  OBVIOUS
<1>2. (k + 1) * d <= n * d
  BY ScaleUp
<1>3. k * d + x < n * d
  <2>1. n * d \in Nat
    OBVIOUS
  <2> QED BY <1>1, <1>2, <2>1
<1>4. PICK q \in Nat, r \in 0..(d - 1) : /\ q = (k * d + x) \div d /\ r = (k * d + x) % d
                                         /\ k * d + x = q * d + r
  BY <1>1, DivMod
<1>5. (q + 1) * d = q * d + d /\ q * d \in Nat
  OBVIOUS
<1>6. ASSUME q < k PROVE FALSE
  <2>1. (q + 1) * d <= k * d
    BY <1>6, ScaleUp
  <2> QED BY <1>1, <1>4, <1>5, <2>1
<1>7. ASSUME q > k PROVE FALSE
  <2>1. (k + 1) * d <= q * d
    BY <1>7, ScaleUp
  <2> QED BY <1>1, <1>4, <1>5, <2>1
<1>8. q = k
  BY <1>6, <1>7
<1>9. r = x
  BY <1>4, <1>8, <1>1
<1>10. k * d + x \in 0..(n * d - 1)
  BY <1>1, <1>3
<1> QED BY <1>4, <1>8, <1>9, <1>10

\* The geometry of a growth: where the image's clusters lie, ...
Fits ==
    /\ in.populated \in Nat \ {0} /\ in.fileEnd \in Nat /\ in.worst \in Nat
    /\ newRt \in Nat /\ newBlocks \in Nat /\ needed \in Nat
    /\ image.rt \in Nat \ {0} /\ image.rtN \in Nat \ {0}
    /\ in.populated <= image.rtN * RPC /\ in.populated * EPB <= NCluster
    /\ image.blocks \in [0..(in.populated - 1) -> Nat \ {0}]
    /\ \A j, k \in 0..(in.populated - 1) : image.blocks[j] = image.blocks[k] => j = k
    /\ OldTable \cap ({0, image.l1} \cup image.used) = {}
    /\ \A k \in 0..(in.populated - 1) : image.blocks[k] \notin OldTable
    /\ Held(image) \subseteq 0..(in.populated * EPB - 1)
    /\ Held(image) \subseteq 0..(in.fileEnd - 1)
\* ... and that an accepted plan has room for the new ones.
Room ==
    /\ needed = in.populated + newBlocks /\ needed * EPB <= NCluster
    /\ in.fileEnd + in.worst + newRt + newBlocks <= needed * EPB
    /\ Structures \subseteq 0..(needed * EPB - 1)
    /\ needed <= TableLen * RPC

\* The parameters that all of what follows uses.
LEMMA Params ==
    /\ EPB \in Nat \ {0} /\ RPC \in Nat \ {0} /\ MaxBlocks \in Nat /\ NCluster \in Nat
    /\ MaxBlocks * EPB <= NCluster
BY PlanAssumption, ExecAssumption DEF PlanAssumption, ExecAssumption

\* The geometry holds in every state of a growth.
LEMMA Geometry == PlanInv /\ ShapeInv => Fits
<1> SUFFICES ASSUME PlanInv, ShapeInv PROVE Fits
  OBVIOUS
<1>1. image \in Images /\ in.populated = Blocks(image) /\ in.fileEnd = FileEnd(image)
  BY DEF ShapeInv
<1>2. /\ image.rt \in Nat \ {0} /\ image.rtN \in Nat \ {0}
      /\ in.populated \in 1..MaxBlocks /\ in.populated <= image.rtN * RPC
      /\ image.blocks \in [0..(in.populated - 1) -> Nat \ {0}]
      /\ Held(image) \subseteq 0..(in.populated * EPB - 1)
      /\ in.fileEnd \in Nat /\ Held(image) \subseteq 0..(in.fileEnd - 1)
  <2>1. WellFormed(image) /\ ImagesFit
    BY <1>1, ExecAssumption DEF ExecAssumption, ShapeInv
  <2>2. image.rt \in Nat \ {0} /\ image.rtN \in Nat \ {0}
    BY <2>1 DEF WellFormed
  <2> QED BY <1>1, <2>1, <2>2 DEF ImagesFit
<1>3. in.worst \in Nat /\ newRt \in Nat /\ newBlocks \in Nat /\ needed \in Nat
  BY DEF PlanInv, PlanTypeOK, Input
<1>4. in.populated * EPB <= NCluster
  <2>1. in.populated * EPB <= MaxBlocks * EPB
    BY <1>2, Params, ScaleUp
  <2>2. in.populated * EPB \in Nat /\ MaxBlocks * EPB \in Nat
    BY <1>2, Params
  <2> QED BY <2>1, <2>2, Params
<1>5. WellFormed(image)
  BY <1>1, ExecAssumption DEF ExecAssumption
<1>6. /\ \A j, k \in DOMAIN image.blocks : image.blocks[j] = image.blocks[k] => j = k
      /\ OldTable \cap ({image.l1} \cup image.used) = {}
      /\ \A k \in DOMAIN image.blocks : image.blocks[k] \notin OldTable
  BY <1>5 DEF WellFormed, OldTable
<1>7. 0 \notin OldTable
  BY <1>2 DEF OldTable
<1>8. DOMAIN image.blocks = 0..(in.populated - 1) /\ in.populated \in Nat \ {0}
  BY <1>2
<1>9. OldTable \cap ({0, image.l1} \cup image.used) = {}
  BY <1>6, <1>7
<1> QED BY <1>2, <1>3, <1>4, <1>6, <1>8, <1>9 DEF Fits

\* And so does the room, once a plan that grows is accepted.
LEMMA RoomFor == PlanInv /\ ShapeInv /\ plan = "ok" /\ newBlocks > 0 => Room
<1> SUFFICES ASSUME PlanInv, ShapeInv, plan = "ok", newBlocks > 0 PROVE Room
  OBVIOUS
<1>1. Fits
  BY Geometry
<1>2. /\ in.populated \in Nat /\ in.fileEnd \in Nat /\ in.worst \in Nat /\ newRt \in Nat
      /\ newBlocks \in Nat /\ needed \in Nat
  BY <1>1 DEF Fits
<1>3. needed = in.populated + newBlocks /\ needed <= MaxBlocks
  BY <1>2 DEF PlanInv, BlocksFor
<1>4. needed * EPB \in Nat /\ MaxBlocks * EPB \in Nat /\ needed * EPB <= MaxBlocks * EPB
  BY <1>2, <1>3, Params, ScaleUp
<1>5. needed * EPB <= NCluster
  BY <1>4, Params
<1>6. in.fileEnd + in.worst + newRt + newBlocks <= needed * EPB
  BY DEF PlanInv, PlanCovers
<1>7. Structures \subseteq 0..(needed * EPB - 1)
  BY <1>2, <1>4, <1>6 DEF Structures
<1>8. needed <= TableLen * RPC
  BY <1>2, <1>3 DEF PlanInv, TableHolds, TableLen, Relocating, ShapeInv
<1> QED BY <1>3, <1>5, <1>6, <1>7, <1>8 DEF Room

\* The places of the staged blocks: clusters of the device, no two the same.
Placed ==
    /\ count \in Nat /\ in.populated <= count /\ count * EPB <= NCluster
    /\ \A k \in 0..(count - 1) : rt[k] \in Cluster /\ rt[k] # 0
    /\ \A j, k \in 0..(count - 1) : rt[j] = rt[k] => j = k

\* The staged blocks are placed so, before and after the growth is staged.
LEMMA Placement == PlanInv /\ ShapeInv /\ SizeInv /\ StagedInv => Placed
<1> SUFFICES ASSUME PlanInv, ShapeInv, SizeInv, StagedInv PROVE Placed
  OBVIOUS
<1>1. Fits
  BY Geometry
<1>2. in.populated \in Nat /\ in.fileEnd \in Nat /\ newRt \in Nat /\ newBlocks \in Nat
  BY <1>1 DEF Fits
<1>3. ASSUME NEW k \in 0..(in.populated - 1)
      PROVE  /\ image.blocks[k] \in Nat \ {0} /\ image.blocks[k] < in.fileEnd
             /\ image.blocks[k] < NCluster
  <2>1. image.blocks[k] \in Held(image)
    BY <1>1 DEF Held, Fits
  <2>2. /\ image.blocks[k] \in 0..(in.fileEnd - 1) /\ image.blocks[k] \in 0..(in.populated * EPB - 1)
        /\ image.blocks[k] \in Nat \ {0} /\ in.populated * EPB <= NCluster
    BY <1>1, <2>1 DEF Fits
  <2>3. in.populated * EPB \in Nat
    BY <1>2, Params
  <2> QED BY <1>2, <2>2, <2>3, Params
<1>4. CASE Ungrown
  <2>1. count = in.populated /\ \A k \in 0..(count - 1) : rt[k] = image.blocks[k]
    BY <1>2, <1>4 DEF SizeInv, StagedInv
  <2>2. \A j, k \in 0..(in.populated - 1) : image.blocks[j] = image.blocks[k] => j = k
    BY <1>1 DEF Fits
  <2>3. \A k \in 0..(count - 1) : rt[k] \in Cluster /\ rt[k] # 0
    BY <1>3, <2>1, Params DEF Cluster
  <2>4. count * EPB <= NCluster
    BY <1>1, <2>1 DEF Fits
  <2> QED BY <1>2, <2>1, <2>2, <2>3, <2>4 DEF Placed
<1>5. CASE ~Ungrown
  <2>1. plan = "ok" /\ newBlocks > 0
    BY <1>2, <1>5 DEF SizeInv, Ungrown
  <2>2. count = needed /\ Room
    BY <1>5, <2>1, RoomFor DEF SizeInv
  <2>3. count = in.populated + newBlocks /\ count * EPB <= NCluster
    BY <2>2 DEF Room
  <2>4. \A k \in 0..(count - 1) : rt[k] = IF k < in.populated THEN image.blocks[k]
                                          ELSE in.fileEnd + newRt + (k - in.populated)
    BY DEF StagedInv, BlockHost
  <2>5. in.fileEnd + newRt + newBlocks <= NCluster
    <3>1. in.fileEnd + in.worst + newRt + newBlocks <= count * EPB /\ in.worst \in Nat
      BY <1>1, <2>2 DEF Room, Fits
    <3>2. count * EPB \in Nat
      BY <1>2, <2>3, Params
    <3> QED BY <1>2, <2>3, <3>1, <3>2, Params
  <2>6. ASSUME NEW k \in 0..(count - 1) PROVE rt[k] \in Cluster /\ rt[k] # 0
    <3>1. CASE k < in.populated
      <4>1. k \in 0..(in.populated - 1)
        BY <1>2, <3>1
      <4> QED BY <1>3, <2>4, <3>1, <4>1, Params DEF Cluster
    <3>2. CASE ~(k < in.populated)
      <4>1. in.fileEnd > 0
        BY <1>1 DEF Fits, Held
      <4> QED BY <1>2, <2>3, <2>4, <2>5, <3>2, <4>1, Params DEF Cluster
    <3> QED BY <3>1, <3>2
  <2>7. ASSUME NEW j \in 0..(count - 1), NEW k \in 0..(count - 1), rt[j] = rt[k] PROVE j = k
    <3>1. CASE j < in.populated /\ k < in.populated
      <4>1. j \in 0..(in.populated - 1) /\ k \in 0..(in.populated - 1)
        BY <1>2, <3>1
      <4>2. image.blocks[j] = image.blocks[k]
        BY <2>4, <2>7, <3>1
      <4> QED BY <1>1, <4>1, <4>2 DEF Fits
    <3>2. ASSUME NEW a \in 0..(count - 1), NEW b \in 0..(count - 1),
                 a < in.populated, ~(b < in.populated)
          PROVE  rt[a] # rt[b]
      <4>1. a \in 0..(in.populated - 1)
        BY <1>2, <3>2
      <4>2. rt[a] < in.fileEnd /\ rt[a] \in Nat
        BY <1>3, <2>4, <3>2, <4>1
      <4>3. rt[b] \in Nat /\ rt[b] >= in.fileEnd
        BY <1>2, <2>3, <2>4, <3>2
      <4> QED BY <1>2, <4>2, <4>3
    <3>3. CASE ~(j < in.populated) /\ ~(k < in.populated)
      BY <1>2, <2>3, <2>4, <2>7, <3>3
    <3> QED BY <2>7, <3>1, <3>2, <3>3
  <2> QED BY <1>2, <2>3, <2>6, <2>7 DEF Placed
<1> QED BY <1>4, <1>5

\* A header whose table names n blocks that count all that is in use under it
\* leaves nothing uncounted.
Safe(h) ==
    \A c \in InUse(h) :
        LET k == c \div EPB
        IN /\ k \in TableSlots(h)
           /\ \A t \in pRt[Holder(h, k)] :
              t[k % RPC] # 0 /\ \A b \in pBlk[t[k % RPC]] : b[c % EPB] = 1

\* CrashCounted, header by header.
LEMMA SafeHeaders == CrashCounted <=> \A h \in pHdr : Safe(h)
BY DEF CrashCounted, Safe

\* What makes a header safe.
LEMMA HeaderSafe ==
    ASSUME NEW h, NEW n \in Nat, h.n * RPC \in Nat, n <= h.n * RPC, Fsync,
           \A k \in 0..(n - 1) : rt[k] # 0,
           Named(h.start, n), InUse(h) \subseteq 0..(n * EPB - 1), Counted(InUse(h))
    PROVE  Safe(h)
<1> SUFFICES ASSUME NEW c \in InUse(h)
             PROVE  /\ c \div EPB \in TableSlots(h)
                    /\ \A t \in pRt[Holder(h, c \div EPB)] :
                       /\ t[(c \div EPB) % RPC] # 0
                       /\ \A b \in pBlk[t[(c \div EPB) % RPC]] : b[c % EPB] = 1
  BY DEF Safe
<1>1. c \in 0..(n * EPB - 1)
  OBVIOUS
<1>2. PICK k \in 0..(n - 1) : k = c \div EPB
  BY <1>1, UnitOf, Params
<1>3. k \in TableSlots(h)
  BY DEF TableSlots
<1>4. \A b \in pBlk[rt[k]] : b[c % EPB] = 1
  BY <1>2 DEF Counted
<1>5. \A t \in pRt[h.start + k \div RPC] : t[k % RPC] = rt[k] /\ rt[k] # 0
  BY DEF Named
<1> QED BY <1>2, <1>3, <1>4, <1>5 DEF Holder

\* The same for the two headers there are.
LEMMA OldSafe ==
    ASSUME Fits, Placed, Fsync, Named(image.rt, in.populated), Counted(Held(image))
    PROVE  Safe(OldHdr)
<1>1. OldHdr.start = image.rt /\ OldHdr.n = image.rtN
  BY DEF OldHdr
<1>2. InUse(OldHdr) = Held(image)
  BY <1>1 DEF InUse, Held
<1>3. in.populated \in Nat /\ image.rtN * RPC \in Nat /\ in.populated <= image.rtN * RPC
  BY Params DEF Fits
<1>4. \A k \in 0..(in.populated - 1) : rt[k] # 0
  BY <1>3 DEF Placed
<1>5. Held(image) \subseteq 0..(in.populated * EPB - 1)
  BY DEF Fits
<1> QED BY <1>1, <1>2, <1>3, <1>4, <1>5, HeaderSafe

\* Under the new header the old table is not in use.
LEMMA InUseNew ==
    ASSUME Fits, newBlocks > 0
    PROVE  InUse(NewHdr) \subseteq (Held(image) \cup Structures) \ OldTable
<1>1. NewHdr.start = in.fileEnd /\ NewHdr.n = newRt
  BY DEF NewHdr
<1>2. InUse(NewHdr) = {0, image.l1} \cup image.used \cup in.fileEnd..(in.fileEnd + newRt - 1)
                      \cup {image.blocks[k] : k \in DOMAIN image.blocks}
  BY <1>1 DEF InUse
<1>3. in.fileEnd..(in.fileEnd + newRt - 1) \subseteq Structures
  BY DEF Structures, Fits
<1>4. OldTable \subseteq Held(image) /\ OldTable \subseteq Nat
  BY DEF Held, OldTable, Fits
<1>5. OldTable \cap in.fileEnd..(in.fileEnd + newRt - 1) = {}
  <2>1. \A c \in OldTable : c \in 0..(in.fileEnd - 1)
    BY <1>4 DEF Fits
  <2> QED BY <2>1 DEF Fits
<1>6. {image.blocks[k] : k \in DOMAIN image.blocks} \cap OldTable = {}
  BY DEF Fits
<1>7. ({0, image.l1} \cup image.used) \cap OldTable = {}
  BY DEF Fits
<1>8. {0, image.l1} \cup image.used \cup {image.blocks[k] : k \in DOMAIN image.blocks}
        \subseteq Held(image)
  BY DEF Held
<1> QED BY <1>2, <1>3, <1>5, <1>6, <1>7, <1>8

\* The new header is safe with the old table given up.
LEMMA NewSafe ==
    ASSUME Fits, Placed, Room, Relocating, newBlocks > 0, count = needed, Fsync,
           Named(in.fileEnd, count),
           Counted((Held(image) \cup Structures) \ OldTable)
    PROVE  Safe(NewHdr)
<1>1. NewHdr.start = in.fileEnd /\ NewHdr.n = newRt
  BY DEF NewHdr
<1>2. Counted(InUse(NewHdr))
  BY InUseNew DEF Counted
<1>3. count \in Nat /\ newRt * RPC \in Nat /\ count <= newRt * RPC
  BY Params DEF Fits, Room, Placed, TableLen
<1>4. \A k \in 0..(count - 1) : rt[k] # 0
  BY DEF Placed
<1>5. InUse(NewHdr) \subseteq 0..(count * EPB - 1)
  <2>1. Held(image) \subseteq 0..(in.populated * EPB - 1) /\ in.populated \in Nat
    BY DEF Fits
  <2>2. in.populated * EPB <= count * EPB
    BY <1>3, <2>1, ScaleUp, Params DEF Placed
  <2>3. in.populated * EPB \in Nat /\ count * EPB \in Nat
    BY <1>3, <2>1, Params
  <2>4. 0..(in.populated * EPB - 1) \subseteq 0..(count * EPB - 1)
    BY <2>2, <2>3
  <2>5. Structures \subseteq 0..(count * EPB - 1)
    BY DEF Room
  <2> QED BY <2>1, <2>4, <2>5, InUseNew
<1> QED BY <1>1, <1>2, <1>3, <1>4, <1>5, HeaderSafe

\* So every header that a power cut may leave is safe: the old one, the new
\* one, or either.
LEMMA CrashOld ==
    /\ Fits /\ Placed /\ Named(image.rt, in.populated) /\ Counted(Held(image))
    /\ pHdr = {OldHdr}
    => Recoverable
BY OldSafe, SafeHeaders DEF Recoverable

\* The same once only the new header is left.
LEMMA CrashNew ==
    /\ Fits /\ Placed /\ Room /\ Relocating /\ newBlocks > 0 /\ count = needed
    /\ Named(in.fileEnd, count) /\ Counted((Held(image) \cup Structures) \ OldTable)
    /\ (Fsync => pHdr = {NewHdr})
    => Recoverable
BY NewSafe, SafeHeaders DEF Recoverable

\* At every stage the invariant makes every header that is left safe.
LEMMA CrashSafe ==
    /\ PlanInv /\ ShapeInv /\ SizeInv /\ StagedInv /\ HeaderInv /\ CountsInv /\ TablesInv
    /\ Going
    => Recoverable
<1> SUFFICES ASSUME PlanInv, ShapeInv, SizeInv, StagedInv, HeaderInv, CountsInv, TablesInv,
                    Fsync, Going
             PROVE  CrashCounted
  BY DEF Recoverable
<1>1. Fits /\ Placed
  BY Geometry, Placement
<1>2. CASE pc \in {"plan", "refused", "blocks", "table", "sync1"}
  BY <1>1, <1>2, CrashOld DEF HeaderInv, CountsInv, TablesInv, Recoverable
<1>3. CASE pc \in {"header", "sync2", "stagefree", "free"}
  <2>1. plan = "ok" /\ newBlocks > 0 /\ count = needed /\ Relocating
    BY <1>3 DEF SizeInv, Ungrown, HeaderInv
  <2>2. Room
    BY <2>1, RoomFor
  <2>3. pc \in {"header", "sync2"} => Safe(OldHdr)
    <3> SUFFICES ASSUME pc \in {"header", "sync2"} PROVE Safe(OldHdr)
      OBVIOUS
    <3>1. Counted(Held(image)) /\ Named(image.rt, in.populated)
      BY DEF CountsInv, TablesInv, Counted
    <3> QED BY <1>1, <3>1, OldSafe
  <2>4. Safe(NewHdr)
    <3>1. Counted((Held(image) \cup Structures) \ OldTable)
      <4>1. CASE pc = "free"
        <5>1. Live = (Held(image) \cup Structures) \ OldTable
          BY <4>1 DEF Live, Ungrown, Moved
        <5> QED BY <4>1, <5>1 DEF CountsInv
      <4>2. CASE pc # "free"
        BY <1>3, <4>2 DEF CountsInv, Counted
      <4> QED BY <4>1, <4>2
    <3>2. Named(in.fileEnd, count)
      BY <1>3 DEF TablesInv
    <3> QED BY <1>1, <2>1, <2>2, <3>1, <3>2, NewSafe
  <2>5. \A h \in pHdr : Safe(h)
    BY <1>3, <2>3, <2>4 DEF HeaderInv
  <2> QED BY <2>5, SafeHeaders
<1> QED BY <1>2, <1>3 DEF ShapeInv, Going

\* A write of a block, whole or cut short, keeps what is counted if the staged
\* block counts it.
LEMMA BlockWriteKeeps ==
    ASSUME ShapeInv, Placed, NEW k \in 0..(count - 1), NEW n \in 0..EPB, WriteBlock(k, n),
           rt' = rt, NEW S \in SUBSET (0..(count * EPB - 1)), Counted(S),
           \A c \in S : rc[c] = 1
    PROVE  Counted(S)'
<1> SUFFICES ASSUME NEW c \in S
             PROVE  /\ dBlk'[rt[c \div EPB]][c % EPB] = 1
                    /\ Fsync => \A b \in pBlk'[rt[c \div EPB]] : b[c % EPB] = 1
  BY DEF Counted
<1>1. c \in 0..(count * EPB - 1) /\ count \in Nat
  BY DEF Placed
<1>2. PICK j \in 0..(count - 1), x \in 0..(EPB - 1) :
         j = c \div EPB /\ x = c % EPB /\ c = j * EPB + x
  <2>1. /\ c \div EPB \in 0..(count - 1) /\ c % EPB \in 0..(EPB - 1)
        /\ c = (c \div EPB) * EPB + (c % EPB)
    BY <1>1, UnitOf, Params
  <2> QED BY <2>1
<1>3. /\ dBlk[rt[j]][x] = 1 /\ (Fsync => \A b \in pBlk[rt[j]] : b[x] = 1)
  BY <1>2 DEF Counted
<1> DEFINE w == [y \in BlockIndex |-> IF y < n THEN rc[k * EPB + y] ELSE dBlk[rt[k]][y]]
<1>4. dBlk' = [dBlk EXCEPT ![rt[k]] = w] /\ pBlk' = [pBlk EXCEPT ![rt[k]] = @ \cup {w}]
  BY DEF WriteBlock, WriteBlk
<1>5. rt[k] \in Cluster /\ rt[j] \in Cluster
  BY DEF Placed
<1>6. CASE j = k
  <2>1. w[x] = 1
    BY <1>2, <1>3, <1>6 DEF BlockIndex
  <2>2. dBlk'[rt[j]] = w /\ pBlk'[rt[j]] = pBlk[rt[j]] \cup {w}
    BY <1>4, <1>5, <1>6 DEF ShapeInv
  <2> HIDE DEF w
  <2> QED BY <1>2, <1>3, <2>1, <2>2
<1>7. CASE j # k
  <2>1. rt[j] # rt[k]
    BY <1>7 DEF Placed
  <2>2. dBlk'[rt[j]] = dBlk[rt[j]] /\ pBlk'[rt[j]] = pBlk[rt[j]]
    <3> HIDE DEF w
    <3> QED BY <1>4, <1>5, <2>1 DEF ShapeInv
  <2> QED BY <1>2, <1>3, <2>2
<1> QED BY <1>6, <1>7

\* A write of the table, whole or cut short, leaves the old blocks named.
LEMMA TableWriteKeeps ==
    ASSUME ShapeInv, Fits, Placed, Room, NEW n \in 0..(TableLen * RPC), WriteTable(n), rt' = rt,
           Named(image.rt, in.populated), count = needed, image' = image, in' = in
    PROVE  /\ Named(image.rt, in.populated)'
           /\ n = TableLen * RPC => \A k \in 0..(count - 1) :
                                       dRt'[TableStart + k \div RPC][k % RPC] = rt[k]
<1> DEFINE new(c) == [x \in RtIndex |-> IF (c - TableStart) * RPC + x < n
                                        THEN rt[(c - TableStart) * RPC + x] ELSE dRt[c][x]]
           cs == TableStart .. (TableStart + TableLen - 1)
<1>1. /\ dRt' = [c \in Cluster |-> IF c \in cs THEN new(c) ELSE dRt[c]]
      /\ pRt' = [c \in Cluster |-> IF c \in cs THEN pRt[c] \cup {new(c)} ELSE pRt[c]]
  BY DEF WriteTable
<1>2. /\ in.populated \in Nat /\ in.fileEnd \in Nat /\ image.rt \in Nat /\ image.rtN \in Nat
      /\ newRt \in Nat /\ count \in Nat /\ in.populated <= count
      /\ in.populated <= image.rtN * RPC /\ count <= TableLen * RPC
      /\ TableStart \in Nat /\ TableLen \in Nat
  BY DEF Fits, Placed, Room, TableStart, TableLen
<1>3. OldTable \subseteq Cluster /\ OldTable \subseteq 0..(in.fileEnd - 1)
  <2>1. OldTable \subseteq Held(image)
    BY DEF OldTable, Held
  <2>2. in.populated * EPB \in Nat /\ in.populated * EPB <= NCluster
    <3>1. in.populated * EPB \in Nat
      BY <1>2, Params
    <3> QED BY <3>1 DEF Fits
  <2>3. 0..(in.populated * EPB - 1) \subseteq Cluster
    BY <2>2, Params DEF Cluster
  <2> QED BY <2>1, <2>3 DEF Fits
<1>4. ASSUME Relocating PROVE cs \cap OldTable = {}
  <2>1. \A c \in cs : c >= in.fileEnd
    BY <1>2, <1>4 DEF TableStart
  <2>2. \A c \in OldTable : c < in.fileEnd /\ c \in Nat
    BY <1>2, <1>3
  <2>3. \A c \in cs : c \in Nat
    BY <1>2
  <2> HIDE DEF cs
  <2> QED BY <1>2, <2>1, <2>2, <2>3
\* The entry for slot k.
<1>5. ASSUME NEW k \in Nat, k < TableLen * RPC
      PROVE  /\ TableStart + k \div RPC \in cs /\ k % RPC \in RtIndex
             /\ new(TableStart + k \div RPC)[k % RPC]
                  = IF k < n THEN rt[k] ELSE dRt[TableStart + k \div RPC][k % RPC]
  <2>1. k \in 0..(TableLen * RPC - 1)
    BY <1>2, <1>5, Params
  <2>2. PICK q \in 0..(TableLen - 1), x \in 0..(RPC - 1) :
           q = k \div RPC /\ x = k % RPC /\ k = q * RPC + x
    <3>1. /\ k \div RPC \in 0..(TableLen - 1) /\ k % RPC \in 0..(RPC - 1)
          /\ k = (k \div RPC) * RPC + (k % RPC)
      BY <1>2, <2>1, UnitOf, Params
    <3> QED BY <3>1
  <2>3. x \in RtIndex /\ TableStart + q \in cs
    BY <1>2, <2>2 DEF RtIndex
  <2>4. (TableStart + q) - TableStart = q
    BY <1>2
  <2>5. new(TableStart + q)[x] = IF k < n THEN rt[k] ELSE dRt[TableStart + q][x]
    BY <2>2, <2>3, <2>4
  <2> HIDE DEF new, cs
  <2> QED BY <2>2, <2>3, <2>5
<1>6. Named(image.rt, in.populated)'
  <2> SUFFICES ASSUME NEW k \in 0..(in.populated - 1)
               PROVE  /\ dRt'[image.rt + k \div RPC][k % RPC] = rt[k]
                      /\ Fsync => \A t \in pRt'[image.rt + k \div RPC] : t[k % RPC] = rt[k]
    BY DEF Named
  <2> DEFINE c == image.rt + k \div RPC
  <2>1. c \in OldTable /\ c \in Cluster
    <3>1. k \in 0..(image.rtN * RPC - 1)
      BY <1>2, Params
    <3>2. k \div RPC \in 0..(image.rtN - 1)
      BY <1>2, <3>1, UnitOf, Params
    <3>3. c \in OldTable
      BY <1>2, <3>2 DEF OldTable
    <3> QED BY <1>3, <3>3
  <2>2. dRt[c][k % RPC] = rt[k] /\ (Fsync => \A t \in pRt[c] : t[k % RPC] = rt[k])
    BY DEF Named
  <2>3. CASE Relocating
    <3>1. c \notin cs
      BY <1>4, <2>1, <2>3
    <3>2. dRt'[c] = dRt[c] /\ pRt'[c] = pRt[c]
      <4> HIDE DEF new, cs, c
      <4> QED BY <1>1, <2>1, <3>1
    <3> HIDE DEF c
    <3> QED BY <2>2, <3>2 DEF c
  <2>4. CASE ~Relocating
    <3>0. TableStart = image.rt /\ TableLen = image.rtN
      BY <2>4 DEF TableStart, TableLen
    <3>1. c = TableStart + k \div RPC /\ k \in Nat /\ k < TableLen * RPC
      <4>1. image.rtN * RPC \in Nat /\ k \in Nat /\ k < in.populated
        BY <1>2, Params
      <4>2. k < image.rtN * RPC
        BY <1>2, <4>1
      <4> QED BY <3>0, <4>1, <4>2
    <3>2. c \in cs /\ new(c)[k % RPC] = IF k < n THEN rt[k] ELSE dRt[c][k % RPC]
      BY <1>5, <3>1
    <3>3. dRt'[c] = new(c) /\ pRt'[c] = pRt[c] \cup {new(c)}
      <4> HIDE DEF new, cs, c
      <4> QED BY <1>1, <2>1, <3>2
    <3> HIDE DEF c, new
    <3> QED BY <2>2, <3>2, <3>3 DEF c
  <2> QED BY <2>3, <2>4
<1>7. ASSUME n = TableLen * RPC, NEW k \in 0..(count - 1)
      PROVE  dRt'[TableStart + k \div RPC][k % RPC] = rt[k]
  <2> DEFINE c == TableStart + k \div RPC
  <2>1. k \in Nat /\ k < TableLen * RPC
    BY <1>2, Params
  <2>2. c \in cs /\ new(c)[k % RPC] = rt[k]
    BY <1>5, <1>7, <2>1
  <2>3. cs \subseteq Cluster
    <3>1. CASE Relocating
      <4>1. cs \subseteq Structures
        BY <1>2, <3>1 DEF TableStart, TableLen, Structures, Fits
      <4>2. count * EPB <= NCluster /\ count * EPB \in Nat
        BY <1>2, Params DEF Placed
      <4>3. 0..(count * EPB - 1) \subseteq Cluster
        BY <4>2, Params DEF Cluster
      <4> QED BY <4>1, <4>3 DEF Room
    <3>2. CASE ~Relocating
      BY <1>3, <3>2 DEF OldTable, TableStart, TableLen
    <3> QED BY <3>1, <3>2
  <2>4. dRt'[c] = new(c)
    <3> HIDE DEF new, cs, c
    <3> QED BY <1>1, <2>2, <2>3
  <2> HIDE DEF new
  <2> QED BY <2>2, <2>4
<1> QED BY <1>6, <1>7

\* Everything in use is within what the staged blocks count.
LEMMA LiveFits ==
    ASSUME PlanInv, ShapeInv, SizeInv, StagedInv
    PROVE  /\ Held(image) \subseteq 0..(count * EPB - 1) /\ Live \subseteq 0..(count * EPB - 1)
           /\ ~Ungrown => Structures \subseteq 0..(count * EPB - 1)
           /\ 0..(count * EPB - 1) \subseteq 0..(NCluster * EPB)
           /\ 0..(count * EPB - 1) \subseteq Cluster
<1>1. Fits /\ Placed
  BY Geometry, Placement
<1>2. count \in Nat /\ in.populated \in Nat /\ in.populated <= count /\ count * EPB <= NCluster
  BY <1>1 DEF Fits, Placed
<1>3. in.populated * EPB <= count * EPB
  BY <1>2, ScaleUp, Params
<1>4. in.populated * EPB \in Nat /\ count * EPB \in Nat
  BY <1>2, Params
<1>5. Held(image) \subseteq 0..(count * EPB - 1)
  <2>1. Held(image) \subseteq 0..(in.populated * EPB - 1)
    BY <1>1 DEF Fits
  <2>2. 0..(in.populated * EPB - 1) \subseteq 0..(count * EPB - 1)
    BY <1>3, <1>4
  <2> QED BY <2>1, <2>2
<1>6. ASSUME ~Ungrown PROVE Structures \subseteq 0..(count * EPB - 1)
  <2>1. plan = "ok" /\ newBlocks > 0
    BY <1>1, <1>6 DEF SizeInv, Ungrown, Fits
  <2>2. Room /\ count = needed
    BY <1>6, <2>1, RoomFor DEF SizeInv
  <2> QED BY <2>2 DEF Room
<1>7. Live \subseteq 0..(count * EPB - 1)
  BY <1>5, <1>6 DEF Live
<1>8. NCluster <= NCluster * EPB
  <2>1. 1 * NCluster <= EPB * NCluster
    BY ScaleUp, Params
  <2> QED BY <2>1, Params
<1>9. /\ 0..(count * EPB - 1) \subseteq 0..(NCluster * EPB)
      /\ 0..(count * EPB - 1) \subseteq Cluster
  <2>1. NCluster * EPB \in Nat
    BY Params
  <2> QED BY <1>2, <1>4, <1>8, <2>1, Params DEF Cluster
<1> QED BY <1>5, <1>6, <1>7, <1>9

\* The entry of a block for a cluster that it counts.
LEMMA EntryAt ==
    ASSUME NEW n \in Nat, NEW c \in 0..(n * EPB - 1)
    PROVE  /\ c \div EPB \in 0..(n - 1) /\ c % EPB \in BlockIndex
           /\ BlockAt(rc, c \div EPB)[c % EPB] = rc[c]
<1>1. /\ c \div EPB \in 0..(n - 1) /\ c % EPB \in 0..(EPB - 1)
      /\ c = (c \div EPB) * EPB + (c % EPB)
  BY UnitOf, Params
<1>2. PICK j \in 0..(n - 1), x \in 0..(EPB - 1) : j = c \div EPB /\ x = c % EPB /\ c = j * EPB + x
  BY <1>1
<1>3. BlockAt(rc, j)[x] = rc[j * EPB + x]
  BY DEF BlockAt, BlockIndex
<1> QED BY <1>2, <1>3 DEF BlockIndex

\* With nothing dirty the device counts all that is in use.
LEMMA DeviceCounts ==
    ASSUME PlanInv, ShapeInv, SizeInv, StagedInv, BlocksInv, pc # "failed", dirty = {}
    PROVE  \A c \in Live : dBlk[rt[c \div EPB]][c % EPB] = 1
<1> SUFFICES ASSUME NEW c \in Live PROVE dBlk[rt[c \div EPB]][c % EPB] = 1
  OBVIOUS
<1>1. c \in 0..(count * EPB - 1) /\ c \in 0..(NCluster * EPB) /\ count \in Nat
  BY LiveFits, Placement DEF Placed
<1>2. rc[c] = 1
  BY <1>1 DEF StagedInv
<1>3. c \div EPB \in 0..(count - 1) /\ BlockAt(rc, c \div EPB)[c % EPB] = rc[c]
  BY <1>1, EntryAt
<1>4. dBlk[rt[c \div EPB]] = BlockAt(rc, c \div EPB)
  BY <1>3 DEF BlocksInv
<1> QED BY <1>2, <1>3, <1>4

\* After an fsync a power cut leaves what is on the device.
LEMMA SyncCounts ==
    ASSUME Sync, rt' = rt, Placed, NEW S \in SUBSET (0..(count * EPB - 1)),
           \A c \in S : dBlk[rt[c \div EPB]][c % EPB] = 1
    PROVE  Counted(S)'
<1> SUFFICES ASSUME NEW c \in S
             PROVE  /\ dBlk'[rt[c \div EPB]][c % EPB] = 1
                    /\ Fsync => \A b \in pBlk'[rt[c \div EPB]] : b[c % EPB] = 1
  BY DEF Counted
<1>1. count \in Nat /\ c \in 0..(count * EPB - 1)
  BY DEF Placed
<1>2. c \div EPB \in 0..(count - 1)
  BY <1>1, EntryAt
<1>3. rt[c \div EPB] \in Cluster
  BY <1>2 DEF Placed
<1>4. dBlk' = dBlk /\ (Fsync => pBlk' = [d \in Cluster |-> {dBlk[d]}])
  BY DEF Sync
<1> QED BY <1>3, <1>4

\* The same for the table: what it names on the device is all it can name.
LEMMA SyncNames ==
    ASSUME Sync, rt' = rt, NEW start, NEW n,
           \A k \in 0..(n - 1) : /\ start + k \div RPC \in Cluster
                                 /\ dRt[start + k \div RPC][k % RPC] = rt[k]
    PROVE  \A k \in 0..(n - 1) :
              /\ dRt'[start + k \div RPC][k % RPC] = rt'[k]
              /\ Fsync => \A t \in pRt'[start + k \div RPC] : t[k % RPC] = rt'[k]
<1>1. dRt' = dRt /\ (Fsync => pRt' = [d \in Cluster |-> {dRt[d]}])
  BY DEF Sync
<1> QED BY <1>1

\* A table of len clusters at start, on the device, holds its slots there.
LEMMA SlotCluster ==
    ASSUME NEW start \in Nat, NEW len \in Nat, NEW k \in Nat, k < len * RPC
    PROVE  start + k \div RPC \in start..(start + len - 1)
<1>1. k \in 0..(len * RPC - 1)
  BY Params
<1>2. k \div RPC \in 0..(len - 1)
  BY <1>1, UnitOf, Params
<1> QED BY <1>2

\* The clusters of both tables are clusters of the device.
LEMMA TablesOnDevice ==
    ASSUME Fits
    PROVE  /\ \A k \in 0..(in.populated - 1) : image.rt + k \div RPC \in Cluster
           /\ Placed /\ Room /\ count = needed
                => \A k \in 0..(count - 1) : TableStart + k \div RPC \in Cluster
<1>1. /\ in.populated \in Nat /\ image.rt \in Nat /\ image.rtN \in Nat /\ in.fileEnd \in Nat
      /\ newRt \in Nat /\ newBlocks \in Nat /\ in.populated <= image.rtN * RPC
  BY DEF Fits
<1>2. OldTable \subseteq Cluster
  <2>1. OldTable \subseteq Held(image)
    BY DEF OldTable, Held
  <2>2. in.populated * EPB \in Nat /\ in.populated * EPB <= NCluster
    BY <1>1, Params DEF Fits
  <2>3. 0..(in.populated * EPB - 1) \subseteq Cluster
    BY <2>2, Params DEF Cluster
  <2> QED BY <2>1, <2>3 DEF Fits
<1>3. ASSUME NEW k \in 0..(in.populated - 1) PROVE image.rt + k \div RPC \in Cluster
  <2>1. image.rtN * RPC \in Nat
    BY <1>1, Params
  <2>2. k \in Nat /\ k < image.rtN * RPC
    BY <1>1, <2>1
  <2> QED BY <1>1, <1>2, <2>2, SlotCluster DEF OldTable
<1>4. ASSUME Placed, Room, count = needed, NEW k \in 0..(count - 1)
      PROVE  TableStart + k \div RPC \in Cluster
  <2>1. TableStart \in Nat /\ TableLen \in Nat /\ count \in Nat /\ count <= TableLen * RPC
    BY <1>1, <1>4 DEF TableStart, TableLen, Placed, Room
  <2>2. TableLen * RPC \in Nat
    BY <2>1, Params
  <2>3. k \in Nat /\ k < TableLen * RPC
    BY <2>1, <2>2
  <2>4. TableStart + k \div RPC \in TableStart..(TableStart + TableLen - 1)
    BY <2>1, <2>3, SlotCluster
  <2>5. CASE Relocating
    <3>1. TableStart..(TableStart + TableLen - 1) \subseteq Structures
      BY <1>1, <2>5 DEF TableStart, TableLen, Structures
    <3>2. count * EPB \in Nat /\ count * EPB <= NCluster
      BY <1>4, <2>1, Params DEF Placed
    <3>3. 0..(count * EPB - 1) \subseteq Cluster
      BY <3>2, Params DEF Cluster
    <3>4. Structures \subseteq 0..(count * EPB - 1)
      BY <1>4 DEF Room
    <3> QED BY <2>4, <3>1, <3>3, <3>4
  <2>6. CASE ~Relocating
    BY <1>2, <2>4, <2>6 DEF OldTable, TableStart, TableLen
  <2> QED BY <2>5, <2>6
<1> QED BY <1>3, <1>4

\* What a power cut leaves does not change while the device does not.
LEMMA CrashKept ==
    ASSUME CrashCounted, UNCHANGED <<image, pHdr, pRt, pBlk>>
    PROVE  CrashCounted'
BY DEF CrashCounted, InUse, TableSlots, Holder

\* A step of the execution leaves the plan and the image as they are.
Fixed == UNCHANGED <<planVars, image>>

\* So it leaves every size and place that is computed from them.
LEMMA FixedFacts ==
    ASSUME PlanInv, Fixed
    PROVE  /\ PlanInv'
           /\ Held(image)' = Held(image) /\ Structures' = Structures /\ OldTable' = OldTable
           /\ OldHdr' = OldHdr /\ NewHdr' = NewHdr /\ Relocating' = Relocating
           /\ TableStart' = TableStart /\ TableLen' = TableLen
           /\ in' = in /\ newBlocks' = newBlocks /\ needed' = needed /\ newRt' = newRt
           /\ plan' = plan /\ image' = image
<1>1. PlanInv'
  BY PlanNextInv DEF Fixed
<1> QED BY <1>1 DEF Fixed, planVars, Held, Structures, OldTable, OldHdr, NewHdr, Relocating,
           TableStart, TableLen

\* The staged sizes and places survive a step that keeps the staged table.
LEMMA ShapeKept ==
    ASSUME ShapeInv, image' = image, in' = in, rt' = rt, rc' = rc,
           pc' \in {"plan", "refused", "blocks", "table", "sync1", "header", "sync2",
                    "stagefree", "free", "done", "failed"},
           dRt' = [c \in Cluster |-> dRt'[c]], pRt' = [c \in Cluster |-> pRt'[c]],
           dBlk' = [c \in Cluster |-> dBlk'[c]], pBlk' = [c \in Cluster |-> pBlk'[c]]
    PROVE  ShapeInv'
BY DEF ShapeInv, Blocks, FileEnd

\* A block that is on the device as it is staged stays so in a step that keeps
\* both, if none is left to write where the next stage expects none.
LEMMA BlocksKept ==
    ASSUME BlocksInv, pc # "failed", UNCHANGED <<rt, rc, count, dirty, dBlk>>,
           pc' \in {"blocks", "free"} \/ dirty = {}
    PROVE  BlocksInv'
<1>1. \A k : BlockAt(rc, k)' = BlockAt(rc, k)
  BY DEF BlockAt
<1>2. /\ dirty \subseteq 0..(count - 1)
      /\ \A k \in 0..(count - 1) : k \notin dirty => dBlk[rt[k]] = BlockAt(rc, k)
  BY DEF BlocksInv
<1> QED BY <1>1, <1>2 DEF BlocksInv

\* A step of the planner touches neither what is staged nor the device.
LEMMA PlanningInv == ASSUME ExecInv, Planning PROVE ExecInv'
<1>1. PlanInv' /\ in' = in
  BY PlanNextInv DEF Planning, PlanNext, ExecInv, PlanStep, NoGrowth, Grow, Round, NotConverged,
     CheckCaps
<1>2. pc = "plan" /\ UNCHANGED <<image, rt, rc, count, dirty, pc, dHdr, dRt, dBlk, pHdr, pRt, pBlk>>
  BY DEF Planning, exec, device
<1>3. ShapeInv'
  BY <1>1, <1>2, ShapeKept DEF ExecInv, ShapeInv
<1>4. SizeInv'
  BY <1>1, <1>2 DEF ExecInv, SizeInv, Ungrown
<1>5. Live = Held(image) /\ Live' = Held(image)
  BY <1>2 DEF Live, Ungrown, Moved, Held
<1>6. StagedInv'
  <2>1. count = in.populated /\ in.populated \in Nat
    BY <1>2, Geometry DEF ExecInv, SizeInv, Ungrown, Fits
  <2>2. \A k \in 0..(count - 1) : k < in.populated
    BY <2>1
  <2> QED BY <1>1, <1>2, <1>5, <2>2 DEF ExecInv, StagedInv
<1>7. BlocksInv' /\ CountsInv' /\ TablesInv'
  <2>1. BlocksInv'
    <3>1. BlocksInv /\ pc = "plan" /\ dirty = {}
      BY <1>2 DEF ExecInv, BlocksInv
    <3> QED BY <1>2, <3>1, BlocksKept
  <2>2. Counted(Held(image))'
    <3>1. Counted(Held(image)) /\ Held(image)' = Held(image)
      BY <1>2 DEF ExecInv, CountsInv, Held
    <3> QED BY <1>2, <3>1 DEF Counted
  <2>3. Named(image.rt, in.populated)'
    BY <1>1, <1>2 DEF ExecInv, TablesInv, Named
  <2> QED BY <1>2, <2>1, <2>2, <2>3 DEF CountsInv, TablesInv
<1>8. HeaderInv'
  BY <1>1, <1>2 DEF ExecInv, HeaderInv, OldHdr
<1>9. Recoverable'
  BY <1>2, CrashKept DEF ExecInv, Recoverable
<1> QED BY <1>1, <1>3, <1>4, <1>6, <1>7, <1>8, <1>9 DEF ExecInv

\* The operation ends without having grown anything.
LEMMA EndsUngrown ==
    ASSUME ExecInv, pc = "plan",
           \/ pc' = "refused"
           \/ pc' = "done" /\ plan = "ok" /\ newBlocks = 0,
           UNCHANGED <<planVars, image, rt, rc, count, dirty, device>>
    PROVE  ExecInv'
<1>1. UNCHANGED <<image, rt, rc, count, dirty, dHdr, dRt, dBlk, pHdr, pRt, pBlk>> /\ Fixed
  BY DEF device, Fixed
<1>2. /\ PlanInv' /\ Held(image)' = Held(image) /\ OldHdr' = OldHdr /\ in' = in
      /\ newBlocks' = newBlocks /\ plan' = plan /\ Structures' = Structures
  BY <1>1, FixedFacts DEF ExecInv
<1>3. ShapeInv'
  BY <1>1, <1>2, ShapeKept DEF ExecInv, ShapeInv
<1>4. Ungrown /\ Ungrown' /\ ~Moved /\ ~Moved' /\ pc' \in {"refused", "done"}
  BY <1>2 DEF Ungrown, Moved
<1>5. SizeInv'
  BY <1>1, <1>2, <1>4 DEF ExecInv, SizeInv
<1>6. Live = Held(image) /\ Live' = Held(image)
  BY <1>2, <1>4 DEF Live
<1>7. StagedInv'
  <2>1. count = in.populated /\ in.populated \in Nat
    BY <1>4, Geometry DEF ExecInv, SizeInv, Fits
  <2>2. \A k \in 0..(count - 1) : k < in.populated
    BY <2>1
  <2>3. /\ \A k \in 0..(count - 1) : rt[k] = image.blocks[k]
        /\ \A c \in 0..(NCluster * EPB) : rc[c] = IF c \in Live THEN 1 ELSE 0
    BY <2>2 DEF ExecInv, StagedInv
  <2> QED BY <1>1, <1>2, <1>6, <2>2, <2>3 DEF StagedInv
<1>8. BlocksInv'
  <2>1. BlocksInv /\ dirty = {}
    BY DEF ExecInv, BlocksInv
  <2> QED BY <1>1, <2>1, BlocksKept
<1>9. HeaderInv'
  BY <1>1, <1>2, <1>4 DEF ExecInv, HeaderInv
<1>10. Counted(Held(image)) /\ Named(image.rt, in.populated) /\ dHdr = OldHdr /\ count = in.populated
  BY <1>4 DEF ExecInv, CountsInv, TablesInv, HeaderInv, SizeInv
<1>11. Counted(Held(image))' /\ Named(image.rt, in.populated)'
  BY <1>1, <1>2, <1>10 DEF Counted, Named
<1>12. \A k \in 0..(count - 1) : dRt[Holder(dHdr, k)][k % RPC] = rt[k]
  BY <1>10 DEF Named, Holder, OldHdr
<1>13. CountsInv' /\ TablesInv'
  BY <1>1, <1>4, <1>11, <1>12 DEF CountsInv, TablesInv, Holder
<1>14. Recoverable'
  BY <1>1, CrashKept DEF ExecInv, Recoverable
<1> QED BY <1>2, <1>3, <1>5, <1>7, <1>8, <1>9, <1>13, <1>14 DEF ExecInv

\* grow_refcounts stages the plan: the device does not change, and every block
\* whose staged counts differ from it is dirty.
LEMMA StageGrowthInv == ASSUME ExecInv, StageGrowth PROVE ExecInv'
<1>1. /\ pc = "plan" /\ plan = "ok" /\ newBlocks > 0 /\ pc' = "blocks" /\ count' = needed
      /\ rt' = [k \in Slot |-> IF k \in NewSlots THEN BlockHost(k) ELSE rt[k]]
      /\ rc' = [c \in DOMAIN rc |-> IF c \in Structures THEN 1 ELSE rc[c]]
      /\ dirty' = DirtyBlocks
      /\ UNCHANGED <<dHdr, dRt, dBlk, pHdr, pRt, pBlk>> /\ Fixed
  BY DEF StageGrowth, GrownCount, device, Fixed
<1>2. /\ PlanInv' /\ Held(image)' = Held(image) /\ Structures' = Structures /\ OldHdr' = OldHdr
      /\ in' = in /\ newBlocks' = newBlocks /\ needed' = needed /\ newRt' = newRt
      /\ plan' = plan /\ image' = image
  BY <1>1, FixedFacts DEF ExecInv
<1>3. Fits /\ Room
  BY <1>1, Geometry, RoomFor DEF ExecInv
<1>4. /\ in.populated \in Nat /\ needed \in Nat /\ newBlocks \in Nat
      /\ needed = in.populated + newBlocks /\ in.fileEnd \in Nat /\ newRt \in Nat
  BY <1>3 DEF Fits, Room
<1>5. count = in.populated
  BY <1>1 DEF ExecInv, SizeInv, Ungrown
<1>6. needed <= NCluster /\ needed * EPB <= NCluster /\ needed * EPB \in Nat
  <2>1. needed * EPB <= NCluster /\ needed * EPB \in Nat
    BY <1>3, <1>4, Params DEF Room
  <2>2. 1 * needed <= EPB * needed
    BY <1>4, ScaleUp, Params
  <2> QED BY <1>4, <2>1, <2>2, Params
<1>7. ASSUME NEW k \in 0..(needed - 1)
      PROVE  rt'[k] = IF k < in.populated THEN rt[k] ELSE BlockHost(k)
  <2>1. k \in Slot /\ (k \in NewSlots <=> ~(k < in.populated))
    BY <1>4, <1>6, Params DEF Slot, NewSlots
  <2> QED BY <1>1, <2>1
<1>8. DOMAIN rc = 0..(NCluster * EPB)
  BY DEF ExecInv, ShapeInv
<1>9. ShapeInv'
  BY <1>1, <1>2, <1>8 DEF ExecInv, ShapeInv, Blocks, FileEnd
<1>10. SizeInv'
  BY <1>1, <1>2 DEF SizeInv, Ungrown
<1>11. Live = Held(image) /\ Live' = Held(image) \cup Structures
  BY <1>1, <1>2 DEF Live, Ungrown, Moved
<1>12. StagedInv'
  <2>1. \A c \in 0..(NCluster * EPB) : rc'[c] = IF c \in Live' THEN 1 ELSE 0
    BY <1>1, <1>8, <1>11 DEF ExecInv, StagedInv
  <2>2. ASSUME NEW k \in 0..(needed - 1)
        PROVE  rt'[k] = IF k < in.populated THEN image.blocks[k] ELSE BlockHost(k)
    <3>1. k < in.populated => rt[k] = image.blocks[k]
      BY <1>4, <1>5 DEF ExecInv, StagedInv
    <3> QED BY <1>7, <3>1
  <2>3. \A k : BlockHost(k)' = BlockHost(k)
    BY <1>2 DEF BlockHost
  <2> QED BY <1>1, <1>2, <2>1, <2>2, <2>3 DEF StagedInv
<1>13. DirtyBlocks \subseteq 0..(needed - 1) /\ NewSlots \subseteq DirtyBlocks
  <2>1. ASSUME NEW c \in Structures PROVE c \div EPB \in 0..(needed - 1)
    BY <1>3, <1>4, UnitOf, Params DEF Room
  <2>2. NewSlots \subseteq 0..(needed - 1)
    BY <1>4 DEF NewSlots
  <2> QED BY <2>1, <2>2 DEF DirtyBlocks
<1>14. BlocksInv'
  <2>1. ASSUME NEW k \in 0..(needed - 1), k \notin DirtyBlocks
        PROVE  dBlk[rt'[k]] = BlockAt(rc', k)
    <3>1. k < in.populated
      BY <1>4, <1>13, <2>1 DEF NewSlots
    <3>2. rt'[k] = rt[k] /\ dBlk[rt[k]] = BlockAt(rc, k)
      <4>1. k \in 0..(count - 1) /\ dirty = {}
        BY <1>1, <1>4, <1>5, <3>1 DEF ExecInv, BlocksInv
      <4>2. dBlk[rt[k]] = BlockAt(rc, k)
        BY <1>1, <4>1 DEF ExecInv, BlocksInv
      <4> QED BY <1>7, <3>1, <4>2
    <3>3. ASSUME NEW x \in BlockIndex PROVE rc'[k * EPB + x] = rc[k * EPB + x]
      <4>1. k * EPB + x \in 0..(needed * EPB - 1) /\ (k * EPB + x) \div EPB = k
        <5>1. x \in 0..(EPB - 1) /\ EPB \in Nat \ {0}
          BY Params DEF BlockIndex
        <5> QED BY <1>4, <5>1, EntryOf
      <4>2. k * EPB + x \notin Structures
        BY <2>1, <4>1 DEF DirtyBlocks
      <4>3. k * EPB + x \in DOMAIN rc
        <5>1. 1 * NCluster <= EPB * NCluster
          BY ScaleUp, Params
        <5>2. NCluster * EPB \in Nat /\ NCluster <= NCluster * EPB
          BY <5>1, Params
        <5> HIDE DEF ExecInv
        <5> QED BY <1>6, <1>8, <4>1, <5>2, Params
      <4> QED BY <1>1, <4>2, <4>3
    <3> QED BY <3>2, <3>3 DEF BlockAt
  <2> QED BY <1>1, <1>13, <2>1 DEF BlocksInv
<1>15. HeaderInv'
  BY <1>1, <1>2 DEF ExecInv, HeaderInv
<1>16. \A k \in 0..(in.populated - 1) : rt'[k] = rt[k]
  BY <1>4, <1>7
<1>17. Counted(Held(image))'
  <2>1. ASSUME NEW c \in Held(image) PROVE rt'[c \div EPB] = rt[c \div EPB]
    <3>1. c \in 0..(in.populated * EPB - 1)
      BY <1>3 DEF Fits
    <3>2. c \div EPB \in 0..(in.populated - 1)
      BY <1>4, <3>1, UnitOf, Params
    <3> QED BY <1>16, <3>2
  <2>2. Counted(Held(image))
    BY <1>1 DEF ExecInv, CountsInv
  <2> QED BY <1>1, <1>2, <2>1, <2>2 DEF Counted
<1>18. Named(image.rt, in.populated)'
  <2>1. Named(image.rt, in.populated)
    BY <1>1 DEF ExecInv, TablesInv
  <2> QED BY <1>1, <1>2, <1>16, <2>1 DEF Named
<1>19. CountsInv' /\ TablesInv'
  BY <1>1, <1>17, <1>18 DEF CountsInv, TablesInv
<1>20. Recoverable'
  BY <1>1, <1>2, CrashKept DEF ExecInv, Recoverable
<1> QED BY <1>2, <1>9, <1>10, <1>12, <1>14, <1>15, <1>19, <1>20 DEF ExecInv

\* What a step between two stages of a growth starts from.
LEMMA BusyFacts ==
    ASSUME ExecInv, Busy
    PROVE  /\ plan = "ok" /\ newBlocks > 0 /\ newBlocks \in Nat /\ count = needed /\ ~Ungrown
           /\ Fits /\ Room /\ Placed /\ pc # "failed"
<1>1. pc \notin {"plan", "refused", "done", "failed"}
  BY DEF Busy
<1>2. plan = "ok" /\ newBlocks > 0 /\ ~Ungrown /\ count = needed
  BY <1>1 DEF ExecInv, SizeInv, Ungrown
<1>3. Fits /\ Room /\ Placed
  BY <1>2, Geometry, RoomFor, Placement DEF ExecInv
<1> QED BY <1>1, <1>2, <1>3 DEF Fits

\* The invariants a step from one stage to another keeps if it leaves what is
\* staged alone.
LEMMA StageKept ==
    ASSUME ExecInv, Busy, Fixed, UNCHANGED <<rt, rc, count>>,
           Busy' \/ pc' = "done", Moved' = Moved
    PROVE  SizeInv' /\ StagedInv' /\ Live' = Live
<1>1. /\ Held(image)' = Held(image) /\ Structures' = Structures /\ OldTable' = OldTable
      /\ in' = in /\ newBlocks' = newBlocks /\ needed' = needed /\ newRt' = newRt
      /\ plan' = plan /\ image' = image
  BY FixedFacts DEF ExecInv
<1>2. plan = "ok" /\ newBlocks > 0 /\ newBlocks \in Nat /\ count = needed /\ ~Ungrown
  BY BusyFacts
<1>3. ~Ungrown' /\ pc' \notin {"plan", "refused", "failed"} /\ pc # "failed"
  BY <1>1, <1>2 DEF Ungrown, Busy
<1>4. SizeInv'
  BY <1>1, <1>2, <1>3 DEF SizeInv
<1>5. Live' = Live
  BY <1>1, <1>2, <1>3 DEF Live
<1>6. \A k : BlockHost(k)' = BlockHost(k)
  BY <1>1 DEF BlockHost
<1>7. StagedInv'
  BY <1>1, <1>3, <1>5, <1>6 DEF ExecInv, StagedInv
<1> QED BY <1>4, <1>5, <1>7

\* A whole block reaches the device.
LEMMA FlushBlockInv == ASSUME ExecInv, FlushBlock PROVE ExecInv'
<1>1. /\ pc \in {"blocks", "free"} /\ pc' = pc /\ Fixed /\ UNCHANGED <<rt, rc, count>>
  BY DEF FlushBlock, Fixed
<1>2. PICK k \in dirty : WriteBlock(k, EPB) /\ dirty' = dirty \ {k}
  BY DEF FlushBlock
<1>3. /\ PlanInv' /\ Held(image)' = Held(image) /\ Structures' = Structures /\ OldTable' = OldTable
      /\ OldHdr' = OldHdr /\ NewHdr' = NewHdr /\ Relocating' = Relocating
      /\ in' = in /\ newBlocks' = newBlocks /\ image' = image
  BY <1>1, FixedFacts DEF ExecInv
<1>4. Busy /\ Busy' /\ Moved' = Moved
  BY <1>1, <1>3 DEF Busy, Moved
<1>5. /\ newBlocks > 0 /\ count = needed /\ ~Ungrown /\ Fits /\ Room /\ Placed
      /\ pc # "failed"
  BY <1>4, BusyFacts
<1>6. k \in 0..(count - 1) /\ dirty \subseteq 0..(count - 1)
  BY <1>5 DEF ExecInv, BlocksInv
<1> DEFINE w == [y \in BlockIndex |-> IF y < EPB THEN rc[k * EPB + y] ELSE dBlk[rt[k]][y]]
<1>7. /\ dBlk' = [dBlk EXCEPT ![rt[k]] = w] /\ pBlk' = [pBlk EXCEPT ![rt[k]] = @ \cup {w}]
      /\ UNCHANGED <<dHdr, dRt, pHdr, pRt>>
  BY <1>2 DEF WriteBlock, WriteBlk
<1>8. w = BlockAt(rc, k)
  BY Params DEF BlockAt, BlockIndex
<1>9. ShapeInv'
  <2>1. dBlk' = [c \in Cluster |-> dBlk'[c]] /\ pBlk' = [c \in Cluster |-> pBlk'[c]]
    <3> HIDE DEF w
    <3> QED BY <1>7 DEF ExecInv, ShapeInv
  <2>2. dRt' = [c \in Cluster |-> dRt'[c]] /\ pRt' = [c \in Cluster |-> pRt'[c]]
    BY <1>7 DEF ExecInv, ShapeInv
  <2> QED BY <1>1, <1>3, <2>1, <2>2, ShapeKept DEF ExecInv
<1>10. SizeInv' /\ StagedInv' /\ Live' = Live
  BY <1>1, <1>4, StageKept
<1>11. BlocksInv'
  <2>1. ASSUME NEW j \in 0..(count - 1), j \notin dirty'
        PROVE  dBlk'[rt[j]] = BlockAt(rc, j)
    <3>1. rt[j] \in Cluster /\ rt[k] \in Cluster /\ (rt[j] = rt[k] => j = k)
      BY <1>5, <1>6 DEF Placed
    <3>2. CASE j = k
      <4> HIDE DEF w
      <4> QED BY <1>7, <1>8, <3>1, <3>2 DEF ExecInv, ShapeInv
    <3>3. CASE j # k
      <4>1. j \notin dirty
        BY <1>2, <2>1, <3>3
      <4>2. dBlk[rt[j]] = BlockAt(rc, j)
        BY <1>5, <4>1 DEF ExecInv, BlocksInv
      <4> HIDE DEF w
      <4> QED BY <1>7, <3>1, <3>3, <4>2 DEF ExecInv, ShapeInv
    <3> QED BY <3>2, <3>3
  <2> QED BY <1>1, <1>2, <1>6, <2>1 DEF BlocksInv, BlockAt
<1>12. HeaderInv'
  BY <1>1, <1>3, <1>7 DEF ExecInv, HeaderInv
<1>13. \A c \in Live : c \in 0..(NCluster * EPB) /\ rc[c] = 1
  BY <1>5, LiveFits DEF ExecInv, StagedInv
<1>14. /\ pc = "blocks" => Counted(Held(image))'
       /\ pc = "free" => Counted(Live)'
  <2>1. Held(image) \subseteq 0..(count * EPB - 1) /\ Live \subseteq 0..(count * EPB - 1)
    BY LiveFits DEF ExecInv
  <2>2. EPB \in 0..EPB
    BY Params
  <2>3. ASSUME pc = "blocks" PROVE Counted(Held(image))'
    <3>1. Held(image) \subseteq Live
      BY <2>3 DEF Live, Moved
    <3>2. Counted(Held(image))
      BY <2>3 DEF ExecInv, CountsInv
    <3>3. \A c \in Held(image) : rc[c] = 1
      BY <1>13, <3>1
    <3> DEFINE S == Held(image)
    <3>4. ASSUME S' = S PROVE Counted(S)'
      <4> HIDE DEF S
      <4> QED BY <1>1, <1>2, <1>5, <1>6, <2>1, <2>2, <3>2, <3>3, <3>4, BlockWriteKeeps
            DEF ExecInv, S, Counted
    <3> QED BY <1>3, <3>4
  <2>4. ASSUME pc = "free" PROVE Counted(Live)'
    <3>2. Counted(Live)
      BY <2>4 DEF ExecInv, CountsInv
    <3> QED BY <1>1, <1>2, <1>5, <1>6, <1>10, <1>13, <2>1, <2>2, <3>2, BlockWriteKeeps
            DEF ExecInv, Counted
  <2> QED BY <2>3, <2>4
<1>15. CountsInv'
  BY <1>1, <1>14 DEF CountsInv
<1>16. TablesInv'
  BY <1>1, <1>3, <1>7 DEF ExecInv, TablesInv, Named
<1>17. Recoverable'
  <2>1. Going'
    BY <1>1 DEF Going
  <2> QED BY <1>3, <1>9, <1>10, <1>12, <1>15, <1>16, <2>1, CrashSafe, PTL
<1> QED BY <1>3, <1>9, <1>10, <1>11, <1>12, <1>15, <1>16, <1>17 DEF ExecInv

\* With every dirty block written the table is next.
LEMMA BlocksFlushedInv == ASSUME ExecInv, BlocksFlushed PROVE ExecInv'
<1>1. /\ pc = "blocks" /\ dirty = {} /\ pc' = "table" /\ Fixed
      /\ UNCHANGED <<rt, rc, count, dirty, dHdr, dRt, dBlk, pHdr, pRt, pBlk>>
  BY DEF BlocksFlushed, Fixed, device
<1>2. /\ PlanInv' /\ Held(image)' = Held(image) /\ OldHdr' = OldHdr /\ in' = in /\ image' = image
  BY <1>1, FixedFacts DEF ExecInv
<1>3. Busy /\ Busy' /\ Moved' = Moved
  BY <1>1 DEF Busy, Moved
<1>4. ShapeInv'
  BY <1>1, <1>2, ShapeKept DEF ExecInv, ShapeInv
<1>5. SizeInv' /\ StagedInv' /\ Live' = Live
  BY <1>1, <1>3, StageKept
<1>6. BlocksInv'
  <2>1. BlocksInv /\ dirty = {}
    BY <1>1 DEF ExecInv, BlocksInv
  <2> QED BY <1>1, <2>1, BlocksKept
<1>7. HeaderInv'
  BY <1>1, <1>2 DEF ExecInv, HeaderInv
<1>8. Counted(Held(image))' /\ Named(image.rt, in.populated)'
  BY <1>1, <1>2 DEF ExecInv, CountsInv, Counted, TablesInv, Named
<1>9. CountsInv' /\ TablesInv'
  BY <1>1, <1>8 DEF CountsInv, TablesInv
<1>10. Recoverable'
  BY <1>1, <1>2, CrashKept DEF ExecInv, Recoverable
<1> QED BY <1>2, <1>4, <1>5, <1>6, <1>7, <1>9, <1>10 DEF ExecInv

\* The whole table reaches the device, in place or at its new home.
LEMMA WriteTableStepInv == ASSUME ExecInv, WriteTableStep PROVE ExecInv'
<1>1. /\ pc = "table" /\ pc' = "sync1" /\ Fixed /\ WriteTable(TableLen * RPC)
      /\ UNCHANGED <<rt, rc, count, dirty>>
  BY DEF WriteTableStep, Fixed
<1>2. /\ PlanInv' /\ Held(image)' = Held(image) /\ OldHdr' = OldHdr /\ in' = in /\ image' = image
      /\ TableStart' = TableStart
  BY <1>1, FixedFacts DEF ExecInv
<1>3. Busy /\ Busy' /\ Moved' = Moved
  BY <1>1 DEF Busy, Moved
<1>4. count = needed /\ Fits /\ Room /\ Placed
  BY <1>3, BusyFacts
<1>5. /\ UNCHANGED <<dHdr, dBlk, pHdr, pBlk>>
      /\ dRt' = [c \in Cluster |-> dRt'[c]] /\ pRt' = [c \in Cluster |-> pRt'[c]]
  BY <1>1 DEF WriteTable
<1>6. ShapeInv'
  BY <1>1, <1>2, <1>5, ShapeKept DEF ExecInv, ShapeInv
<1>7. SizeInv' /\ StagedInv' /\ Live' = Live
  BY <1>1, <1>3, StageKept
<1>8. BlocksInv'
  <2>1. BlocksInv /\ dirty = {}
    BY <1>1 DEF ExecInv, BlocksInv
  <2> QED BY <1>1, <1>5, <2>1, BlocksKept
<1>9. HeaderInv'
  BY <1>1, <1>2, <1>5 DEF ExecInv, HeaderInv
<1>10. Counted(Held(image))'
  BY <1>1, <1>2, <1>5 DEF ExecInv, CountsInv, Counted
<1>11. /\ Named(image.rt, in.populated)'
       /\ \A k \in 0..(count - 1) : dRt'[TableStart + k \div RPC][k % RPC] = rt[k]
  <2>1. TableLen * RPC \in 0..(TableLen * RPC)
    <3>1. TableLen * RPC \in Nat
      <4>1. TableLen \in Nat
        BY <1>4 DEF Fits, TableLen
      <4> QED BY <4>1, Params
    <3> QED BY <3>1
  <2>2. Named(image.rt, in.populated)
    BY <1>1 DEF ExecInv, TablesInv
  <2> QED BY <1>1, <1>2, <1>4, <2>1, <2>2, TableWriteKeeps DEF ExecInv
<1>12. CountsInv' /\ TablesInv'
  BY <1>1, <1>2, <1>10, <1>11 DEF CountsInv, TablesInv
<1>13. Recoverable'
  <2>1. Going'
    BY <1>1 DEF Going
  <2> QED BY <1>2, <1>6, <1>7, <1>9, <1>12, <2>1, CrashSafe, PTL
<1> QED BY <1>2, <1>6, <1>7, <1>8, <1>9, <1>12, <1>13 DEF ExecInv

\* The first fsync: after it the whole plan is on the device, whatever happens.
LEMMA SyncTableInv == ASSUME ExecInv, SyncTable PROVE ExecInv'
<1>1. /\ pc = "sync1" /\ Sync /\ Fixed /\ pc' = IF Relocating THEN "header" ELSE "done"
      /\ UNCHANGED <<rt, rc, count, dirty>>
  BY DEF SyncTable, Fixed
<1>2. /\ PlanInv' /\ Held(image)' = Held(image) /\ Structures' = Structures
      /\ OldHdr' = OldHdr /\ Relocating' = Relocating /\ NewHdr' = NewHdr
      /\ in' = in /\ image' = image /\ newBlocks' = newBlocks /\ needed' = needed
  BY <1>1, FixedFacts DEF ExecInv
<1>3. Busy /\ (Busy' \/ pc' = "done") /\ Moved' = Moved
  BY <1>1, <1>2 DEF Busy, Moved
<1>4. newBlocks > 0 /\ newBlocks \in Nat /\ count = needed /\ Fits /\ Room /\ Placed /\ ~Ungrown
  BY <1>3, BusyFacts
<1>5. /\ UNCHANGED <<dHdr, dRt, dBlk>> /\ dHdr = OldHdr /\ pHdr = {OldHdr}
      /\ pHdr' = {OldHdr} /\ dirty = {}
      /\ pRt' = [c \in Cluster |-> pRt'[c]] /\ pBlk' = [c \in Cluster |-> pBlk'[c]]
  BY <1>1 DEF Sync, ExecInv, HeaderInv, BlocksInv, ShapeInv
<1>6. ShapeInv'
  BY <1>1, <1>2, <1>5, ShapeKept DEF ExecInv, ShapeInv
<1>7. SizeInv' /\ StagedInv' /\ Live' = Live
  BY <1>1, <1>3, StageKept
<1>8. BlocksInv'
  <2>1. BlocksInv /\ dirty = {}
    BY <1>1 DEF ExecInv, BlocksInv
  <2> QED BY <1>1, <1>5, <2>1, BlocksKept
<1>9. HeaderInv'
  BY <1>1, <1>2, <1>4, <1>5 DEF HeaderInv
<1>10. Counted(Held(image) \cup Structures)' /\ Counted(Held(image))'
  <2>1. Live = Held(image) \cup Structures /\ Live \subseteq 0..(count * EPB - 1)
    BY <1>1, <1>4, LiveFits DEF Live, Moved, ExecInv
  <2>2. \A c \in Live : dBlk[rt[c \div EPB]][c % EPB] = 1
    BY <1>1, <1>5, DeviceCounts DEF ExecInv
  <2>3. Counted(Live)'
    BY <1>1, <1>4, <1>7, <2>1, <2>2, SyncCounts DEF Counted
  <2> QED BY <1>2, <1>7, <2>1, <2>3 DEF Counted
<1>11. /\ Named(image.rt, in.populated)'
       /\ Relocating => Named(in.fileEnd, count)'
  <2>1. \A k \in 0..(in.populated - 1) : /\ image.rt + k \div RPC \in Cluster
                                         /\ dRt[image.rt + k \div RPC][k % RPC] = rt[k]
    BY <1>1, <1>4, TablesOnDevice DEF ExecInv, TablesInv, Named
  <2>2. \A k \in 0..(count - 1) : /\ TableStart + k \div RPC \in Cluster
                                  /\ dRt[TableStart + k \div RPC][k % RPC] = rt[k]
    BY <1>1, <1>4, TablesOnDevice DEF ExecInv, TablesInv
  <2>3. Named(image.rt, in.populated)'
    <3>1. \A k \in 0..(in.populated - 1) :
             /\ dRt'[image.rt + k \div RPC][k % RPC] = rt'[k]
             /\ Fsync => \A t \in pRt'[image.rt + k \div RPC] : t[k % RPC] = rt'[k]
      BY <1>1, <2>1, SyncNames
    <3> QED BY <1>2, <3>1 DEF Named
  <2>4. ASSUME Relocating PROVE Named(in.fileEnd, count)'
    <3>1. TableStart = in.fileEnd
      BY <2>4 DEF TableStart
    <3>2. \A k \in 0..(count - 1) : /\ in.fileEnd + k \div RPC \in Cluster
                                    /\ dRt[in.fileEnd + k \div RPC][k % RPC] = rt[k]
      BY <2>2, <3>1
    <3>3. \A k \in 0..(count - 1) :
             /\ dRt'[in.fileEnd + k \div RPC][k % RPC] = rt'[k]
             /\ Fsync => \A t \in pRt'[in.fileEnd + k \div RPC] : t[k % RPC] = rt'[k]
      BY <1>1, <3>2, SyncNames
    <3> QED BY <1>1, <1>2, <3>3 DEF Named
  <2> QED BY <2>3, <2>4
<1>12. ~Relocating => \A k \in 0..(count - 1) : dRt[Holder(OldHdr, k)][k % RPC] = rt[k]
  BY <1>1 DEF ExecInv, TablesInv, Holder, OldHdr, TableStart
<1>13. CountsInv' /\ TablesInv'
  <2>1. CASE Relocating
    BY <1>1, <1>10, <1>11, <2>1 DEF CountsInv, TablesInv
  <2>2. CASE ~Relocating
    BY <1>1, <1>5, <1>12, <2>2 DEF CountsInv, TablesInv, Holder
  <2> QED BY <2>1, <2>2
<1>14. Recoverable'
  <2>1. Fits' /\ Placed'
    BY <1>2, <1>6, <1>7, Geometry, Placement, PTL
  <2>2. (pHdr = {OldHdr})'
    BY <1>2, <1>5
  <2> QED BY <1>10, <1>11, <2>1, <2>2, CrashOld, PTL
<1> QED BY <1>2, <1>6, <1>7, <1>8, <1>9, <1>13, <1>14 DEF ExecInv

\* The commit point.
LEMMA FlipHeaderInv == ASSUME ExecInv, FlipHeader PROVE ExecInv'
<1>1. /\ pc = "header" /\ pc' = "sync2" /\ Fixed /\ dHdr' = NewHdr /\ pHdr' = pHdr \cup {NewHdr}
      /\ UNCHANGED <<rt, rc, count, dirty, dRt, dBlk, pRt, pBlk>>
  BY DEF FlipHeader, Fixed, NewHdr
<1>2. /\ PlanInv' /\ Held(image)' = Held(image) /\ Structures' = Structures
      /\ OldHdr' = OldHdr /\ Relocating' = Relocating /\ NewHdr' = NewHdr
      /\ in' = in /\ image' = image
  BY <1>1, FixedFacts DEF ExecInv
<1>3. Busy /\ Busy' /\ Moved' = Moved
  BY <1>1 DEF Busy, Moved
<1>4. ShapeInv'
  BY <1>1, <1>2, ShapeKept DEF ExecInv, ShapeInv
<1>5. SizeInv' /\ StagedInv' /\ Live' = Live
  BY <1>1, <1>3, StageKept
<1>6. BlocksInv'
  <2>1. BlocksInv /\ dirty = {}
    BY <1>1 DEF ExecInv, BlocksInv
  <2> QED BY <1>1, <2>1, BlocksKept
<1>7. HeaderInv'
  BY <1>1, <1>2 DEF ExecInv, HeaderInv
<1>8. Counted(Held(image) \cup Structures)'
  BY <1>1, <1>2 DEF ExecInv, CountsInv, Counted
<1>9. Named(image.rt, in.populated)' /\ Named(in.fileEnd, count)'
  BY <1>1, <1>2 DEF ExecInv, TablesInv, Named
<1>10. CountsInv' /\ TablesInv'
  BY <1>1, <1>8, <1>9 DEF CountsInv, TablesInv
<1>11. Recoverable'
  <2>1. Going'
    BY <1>1 DEF Going
  <2> QED BY <1>2, <1>4, <1>5, <1>7, <1>10, <2>1, CrashSafe, PTL
<1> QED BY <1>2, <1>4, <1>5, <1>6, <1>7, <1>10, <1>11 DEF ExecInv

\* The second fsync: the old header can no longer come back.
LEMMA SyncHeaderInv == ASSUME ExecInv, SyncHeader PROVE ExecInv'
<1>1. /\ pc = "sync2" /\ Sync /\ Fixed /\ pc' = "stagefree" /\ UNCHANGED <<rt, rc, count, dirty>>
  BY DEF SyncHeader, Fixed
<1>2. /\ PlanInv' /\ Held(image)' = Held(image) /\ Structures' = Structures
      /\ OldHdr' = OldHdr /\ Relocating' = Relocating /\ NewHdr' = NewHdr
      /\ in' = in /\ image' = image
  BY <1>1, FixedFacts DEF ExecInv
<1>3. Busy /\ Busy' /\ Moved' = Moved
  BY <1>1 DEF Busy, Moved
<1>4. count = needed /\ Fits /\ Room /\ Placed /\ ~Ungrown /\ Relocating
  BY <1>1, <1>3, BusyFacts DEF ExecInv, HeaderInv
<1>5. /\ UNCHANGED <<dHdr, dRt, dBlk>> /\ dHdr = NewHdr /\ (Fsync => pHdr' = {NewHdr})
      /\ pRt' = [c \in Cluster |-> pRt'[c]] /\ pBlk' = [c \in Cluster |-> pBlk'[c]]
  BY <1>1 DEF Sync, ExecInv, HeaderInv, ShapeInv
<1>6. ShapeInv'
  BY <1>1, <1>2, <1>5, ShapeKept DEF ExecInv, ShapeInv
<1>7. SizeInv' /\ StagedInv' /\ Live' = Live
  BY <1>1, <1>3, StageKept
<1>8. BlocksInv'
  <2>1. BlocksInv /\ dirty = {}
    BY <1>1 DEF ExecInv, BlocksInv
  <2> QED BY <1>1, <1>5, <2>1, BlocksKept
<1>9. HeaderInv'
  BY <1>1, <1>2, <1>4, <1>5 DEF HeaderInv
<1>10. Counted(Held(image) \cup Structures)'
  <2>1. (Held(image) \cup Structures) \subseteq 0..(count * EPB - 1)
    BY <1>4, LiveFits DEF ExecInv
  <2>2. \A c \in Held(image) \cup Structures : dBlk[rt[c \div EPB]][c % EPB] = 1
    BY <1>1 DEF ExecInv, CountsInv, Counted
  <2> QED BY <1>1, <1>2, <1>4, <2>1, <2>2, SyncCounts DEF Counted
<1>11. Named(in.fileEnd, count)'
  <2>1. \A k \in 0..(count - 1) : /\ in.fileEnd + k \div RPC \in Cluster
                                  /\ dRt[in.fileEnd + k \div RPC][k % RPC] = rt[k]
    BY <1>1, <1>4, TablesOnDevice DEF ExecInv, TablesInv, Named, TableStart
  <2>2. \A k \in 0..(count - 1) :
           /\ dRt'[in.fileEnd + k \div RPC][k % RPC] = rt'[k]
           /\ Fsync => \A t \in pRt'[in.fileEnd + k \div RPC] : t[k % RPC] = rt'[k]
    BY <1>1, <2>1, SyncNames
  <2> QED BY <1>1, <1>2, <2>2 DEF Named
<1>12. CountsInv' /\ TablesInv'
  BY <1>1, <1>10, <1>11 DEF CountsInv, TablesInv
<1>13. Recoverable'
  <2>1. Going'
    BY <1>1 DEF Going
  <2> QED BY <1>2, <1>6, <1>7, <1>9, <1>12, <2>1, CrashSafe, PTL
<1> QED BY <1>2, <1>6, <1>7, <1>8, <1>9, <1>12, <1>13 DEF ExecInv

\* The old table is given up once no header can name it.
LEMMA StageFreeInv == ASSUME ExecInv, StageFree PROVE ExecInv'
<1>1. /\ pc = "stagefree" /\ pc' = "free" /\ Fixed
      /\ rc' = [c \in DOMAIN rc |-> IF c \in OldTable THEN 0 ELSE rc[c]]
      /\ dirty' = {c \div EPB : c \in OldTable}
      /\ UNCHANGED <<rt, count, dHdr, dRt, dBlk, pHdr, pRt, pBlk>>
  BY DEF StageFree, Fixed, device
<1>2. /\ PlanInv' /\ Held(image)' = Held(image) /\ Structures' = Structures /\ OldTable' = OldTable
      /\ OldHdr' = OldHdr /\ Relocating' = Relocating /\ NewHdr' = NewHdr
      /\ in' = in /\ image' = image /\ plan' = plan /\ newBlocks' = newBlocks /\ needed' = needed
      /\ newRt' = newRt
  BY <1>1, FixedFacts DEF ExecInv
<1>3. Busy
  BY <1>1 DEF Busy
<1>4. /\ count = needed /\ Fits /\ Room /\ Placed /\ ~Ungrown /\ plan = "ok"
      /\ newBlocks > 0
  BY <1>3, BusyFacts
<1>5. DOMAIN rc = 0..(NCluster * EPB)
  BY DEF ExecInv, ShapeInv
<1>6. ShapeInv'
  BY <1>1, <1>2, <1>5 DEF ExecInv, ShapeInv, Blocks, FileEnd
<1>7. SizeInv'
  BY <1>1, <1>2, <1>4 DEF SizeInv, Ungrown
<1>8. /\ Live = Held(image) \cup Structures
      /\ Live' = (Held(image) \cup Structures) \ OldTable
  BY <1>1, <1>2, <1>4 DEF Live, Moved, Ungrown
<1>9. StagedInv'
  <2>1. \A c \in 0..(NCluster * EPB) : rc'[c] = IF c \in Live' THEN 1 ELSE 0
    BY <1>1, <1>5, <1>8 DEF ExecInv, StagedInv
  <2>2. \A k : BlockHost(k)' = BlockHost(k)
    BY <1>2 DEF BlockHost
  <2> QED BY <1>1, <1>2, <2>1, <2>2 DEF ExecInv, StagedInv
<1>10. BlocksInv'
  <2>1. count \in Nat /\ count * EPB \in Nat
    BY <1>4, Params DEF Placed
  <2>2. OldTable \subseteq 0..(count * EPB - 1)
    BY LiveFits DEF ExecInv, OldTable, Held
  <2>3. dirty' \subseteq 0..(count - 1)
    <3>1. ASSUME NEW c \in OldTable PROVE c \div EPB \in 0..(count - 1)
      <4>1. c \in 0..(count * EPB - 1)
        BY <2>2
      <4> QED BY <2>1, <4>1, UnitOf, Params
    <3> QED BY <1>1, <3>1
  <2>4. ASSUME NEW k \in 0..(count - 1), k \notin dirty' PROVE dBlk[rt[k]] = BlockAt(rc', k)
    <3>1. dBlk[rt[k]] = BlockAt(rc, k)
      BY <1>1 DEF ExecInv, BlocksInv
    <3>2. ASSUME NEW x \in BlockIndex PROVE rc'[k * EPB + x] = rc[k * EPB + x]
      <4>1. k * EPB + x \in 0..(count * EPB - 1) /\ (k * EPB + x) \div EPB = k
        <5>1. x \in 0..(EPB - 1) /\ EPB \in Nat \ {0}
          BY Params DEF BlockIndex
        <5> QED BY <2>1, <5>1, EntryOf
      <4>2. k * EPB + x \notin OldTable
        BY <1>1, <2>4, <4>1
      <4>3. k * EPB + x \in DOMAIN rc
        BY <1>5, <4>1, LiveFits DEF ExecInv
      <4> QED BY <1>1, <4>2, <4>3
    <3> QED BY <3>1, <3>2 DEF BlockAt
  <2> QED BY <1>1, <2>3, <2>4 DEF BlocksInv
<1>11. HeaderInv'
  BY <1>1, <1>2 DEF ExecInv, HeaderInv
<1>12. Counted(Live)'
  BY <1>1, <1>8 DEF ExecInv, CountsInv, Counted
<1>13. Named(in.fileEnd, count)'
  BY <1>1, <1>2 DEF ExecInv, TablesInv, Named
<1>14. CountsInv' /\ TablesInv'
  BY <1>1, <1>12, <1>13 DEF CountsInv, TablesInv
<1>15. Recoverable'
  BY <1>1, <1>2, CrashKept DEF ExecInv, Recoverable
<1> QED BY <1>2, <1>6, <1>7, <1>9, <1>10, <1>11, <1>14, <1>15 DEF ExecInv

\* The growth ends once the blocks of the old table are written.
LEMMA FreedInv == ASSUME ExecInv, Freed PROVE ExecInv'
<1>1. /\ pc = "free" /\ dirty = {} /\ pc' = "done" /\ Fixed
      /\ UNCHANGED <<rt, rc, count, dirty, dHdr, dRt, dBlk, pHdr, pRt, pBlk>>
  BY DEF Freed, Fixed, device
<1>2. /\ PlanInv' /\ Held(image)' = Held(image) /\ Relocating' = Relocating /\ NewHdr' = NewHdr
      /\ in' = in /\ image' = image /\ newBlocks' = newBlocks
  BY <1>1, FixedFacts DEF ExecInv
<1>3. Busy /\ newBlocks > 0 /\ newBlocks \in Nat /\ Relocating /\ dHdr = NewHdr
  BY <1>1, BusyFacts DEF Busy, ExecInv, HeaderInv
<1>4. Moved' = Moved
  BY <1>1, <1>2, <1>3 DEF Moved
<1>5. ShapeInv'
  BY <1>1, <1>2, ShapeKept DEF ExecInv, ShapeInv
<1>6. SizeInv' /\ StagedInv' /\ Live' = Live
  BY <1>1, <1>3, <1>4, StageKept
<1>7. BlocksInv'
  BY <1>1, BlocksKept DEF ExecInv
<1>8. HeaderInv'
  <2>1. pc' = "done" /\ newBlocks' # 0 /\ Relocating' /\ dHdr' = NewHdr'
    BY <1>1, <1>2, <1>3
  <2> QED BY <2>1 DEF HeaderInv
<1>9. \A k \in 0..(count - 1) : dRt[Holder(dHdr, k)][k % RPC] = rt[k]
  BY <1>1, <1>3 DEF ExecInv, TablesInv, Named, Holder, NewHdr
<1>10. CountsInv' /\ TablesInv'
  BY <1>1, <1>9 DEF CountsInv, TablesInv, Holder
<1>11. Recoverable'
  BY <1>1, <1>2, CrashKept DEF ExecInv, Recoverable
<1> QED BY <1>2, <1>5, <1>6, <1>7, <1>8, <1>10, <1>11 DEF ExecInv

\* A write that stops half-way, or an fsync that fails, ends the growth with an
\* image that still counts all that it uses.
LEMMA FailInv == ASSUME ExecInv, Fail PROVE ExecInv'
<1>1. /\ pc' = "failed" /\ Fixed /\ UNCHANGED <<rt, rc, count, dirty>> /\ Busy
  BY DEF Fail, Fixed, Busy
<1>2. /\ PlanInv' /\ Held(image)' = Held(image) /\ Structures' = Structures /\ OldTable' = OldTable
      /\ OldHdr' = OldHdr /\ NewHdr' = NewHdr /\ Relocating' = Relocating
      /\ in' = in /\ newBlocks' = newBlocks /\ needed' = needed /\ newRt' = newRt /\ plan' = plan
      /\ image' = image
  BY <1>1, FixedFacts DEF ExecInv
<1>3. /\ plan = "ok" /\ newBlocks > 0 /\ newBlocks \in Nat /\ count = needed /\ ~Ungrown
      /\ Fits /\ Room /\ Placed /\ pc # "failed"
  BY <1>1, BusyFacts
<1>4. SizeInv' /\ StagedInv' /\ BlocksInv' /\ HeaderInv' /\ CountsInv' /\ TablesInv'
  <2>1. SizeInv'
    BY <1>1, <1>2, <1>3 DEF SizeInv, Ungrown
  <2>2. \A k : BlockHost(k)' = BlockHost(k)
    BY <1>2 DEF BlockHost
  <2>3. StagedInv'
    BY <1>1, <1>2, <2>2 DEF ExecInv, StagedInv
  <2> QED BY <1>1, <2>1, <2>3 DEF BlocksInv, HeaderInv, CountsInv, TablesInv
<1>5. ASSUME ShapeInv' PROVE Fits' /\ Placed' /\ Room'
  <2>1. (plan = "ok")' /\ (newBlocks > 0)'
    BY <1>2, <1>3
  <2> QED BY <1>2, <1>4, <1>5, <2>1, Geometry, Placement, RoomFor, PTL
<1>6. CASE /\ pc \in {"blocks", "free"}
           /\ \E k \in dirty : \E n \in 0 .. (EPB - 1) :
                 (\A x \in dirty : k <= x) /\ WriteBlock(k, n)
  <2>1. PICK k \in dirty, n \in 0..(EPB - 1) : WriteBlock(k, n)
    BY <1>6
  <2>2. k \in 0..(count - 1) /\ n \in 0..EPB
    <3>1. dirty \subseteq 0..(count - 1)
      BY <1>3 DEF ExecInv, BlocksInv
    <3>2. n \in 0..EPB
      BY Params
    <3> QED BY <3>1, <3>2
  <2>3. /\ dBlk' = [c \in Cluster |-> dBlk'[c]] /\ pBlk' = [c \in Cluster |-> pBlk'[c]]
        /\ UNCHANGED <<dHdr, dRt, pHdr, pRt>>
    BY <2>1 DEF WriteBlock, WriteBlk, ExecInv, ShapeInv
  <2>4. ShapeInv'
    BY <1>1, <1>2, <2>3, ShapeKept DEF ExecInv, ShapeInv
  <2>5. \A c \in Live : c \in 0..(count * EPB - 1) /\ rc[c] = 1
    BY <1>3, LiveFits DEF ExecInv, StagedInv
  <2>6. CASE pc = "blocks"
    <3>1. Held(image) \subseteq Live
      BY <2>6 DEF Live, Moved
    <3>2. Held(image) \subseteq 0..(count * EPB - 1) /\ \A c \in Held(image) : rc[c] = 1
      BY <2>5, <3>1
    <3>3. Counted(Held(image)) /\ Named(image.rt, in.populated) /\ pHdr = {OldHdr}
      BY <2>6 DEF ExecInv, CountsInv, TablesInv, HeaderInv
    <3>4. Counted(Held(image))'
      BY <1>1, <1>2, <1>3, <2>1, <2>2, <3>2, <3>3, BlockWriteKeeps DEF ExecInv, Counted
    <3>5. Named(image.rt, in.populated)' /\ (pHdr = {OldHdr})'
      BY <1>1, <1>2, <2>3, <3>3 DEF Named
    <3>6. Recoverable'
      BY <1>5, <2>4, <3>4, <3>5, CrashOld, PTL
    <3> QED BY <1>2, <1>4, <2>4, <3>6 DEF ExecInv
  <2>7. CASE pc = "free"
    <3>1. Live = (Held(image) \cup Structures) \ OldTable
      BY <1>3, <2>7 DEF Live, Moved
    <3>2. Counted(Live) /\ Named(in.fileEnd, count) /\ (Fsync => pHdr = {NewHdr}) /\ Relocating
      BY <2>7 DEF ExecInv, CountsInv, TablesInv, HeaderInv
    <3>3. Counted((Held(image) \cup Structures) \ OldTable)'
      <4>1. PICK S \in SUBSET (0..(count * EPB - 1)) :
               S = (Held(image) \cup Structures) \ OldTable
        BY <2>5, <3>1
      <4>2. Counted(S) /\ \A c \in S : rc[c] = 1
        BY <2>5, <3>1, <3>2, <4>1
      <4>3. ShapeInv /\ Placed /\ rt' = rt
        BY <1>1, <1>3 DEF ExecInv
      <4>4. Counted(S)'
        BY <2>1, <2>2, <4>2, <4>3, BlockWriteKeeps
      <4>5. ((Held(image) \cup Structures) \ OldTable)' = S
        BY <1>2, <4>1
      <4> QED BY <4>4, <4>5 DEF Counted
    <3>4. /\ Named(in.fileEnd, count)' /\ (Fsync => pHdr = {NewHdr})' /\ Relocating'
          /\ (newBlocks > 0)' /\ (count = needed)'
      BY <1>1, <1>2, <1>3, <2>3, <3>2 DEF Named
    <3>5. Recoverable'
      BY <1>5, <2>4, <3>3, <3>4, CrashNew, PTL
    <3> QED BY <1>2, <1>4, <2>4, <3>5 DEF ExecInv
  <2> QED BY <1>6, <2>6, <2>7
<1>7. CASE pc = "table" /\ \E n \in 0 .. (TableLen * RPC - 1) : WriteTable(n)
  <2>1. PICK n \in 0..(TableLen * RPC - 1) : WriteTable(n)
    BY <1>7
  <2>2. TableLen * RPC \in Nat
    <3>1. TableLen \in Nat
      BY <1>3 DEF Fits, TableLen
    <3> QED BY <3>1, Params
  <2>3. n \in 0..(TableLen * RPC)
    BY <2>2
  <2>4. Named(image.rt, in.populated) /\ Counted(Held(image)) /\ pHdr = {OldHdr}
    BY <1>7 DEF ExecInv, CountsInv, TablesInv, HeaderInv
  <2>5. Named(image.rt, in.populated)'
    BY <1>1, <1>2, <1>3, <2>1, <2>3, <2>4, TableWriteKeeps DEF ExecInv
  <2>6. /\ UNCHANGED <<dHdr, dBlk, pHdr, pBlk>>
        /\ dRt' = [c \in Cluster |-> dRt'[c]] /\ pRt' = [c \in Cluster |-> pRt'[c]]
    BY <2>1 DEF WriteTable
  <2>7. ShapeInv'
    BY <1>1, <1>2, <2>6, ShapeKept DEF ExecInv, ShapeInv
  <2>8. Counted(Held(image))' /\ (pHdr = {OldHdr})'
    BY <1>1, <1>2, <2>4, <2>6 DEF Counted
  <2>9. Recoverable'
    BY <1>5, <2>5, <2>7, <2>8, CrashOld, PTL
  <2> QED BY <1>2, <1>4, <2>7, <2>9 DEF ExecInv
<1>8. CASE UNCHANGED device
  <2>1. UNCHANGED <<dHdr, dRt, dBlk, pHdr, pRt, pBlk>>
    BY <1>8 DEF device
  <2>2. ShapeInv'
    BY <1>1, <1>2, <2>1, ShapeKept DEF ExecInv, ShapeInv
  <2>3. Recoverable'
    BY <1>2, <2>1, CrashKept DEF ExecInv, Recoverable
  <2> QED BY <1>2, <1>4, <2>2, <2>3 DEF ExecInv
<1> QED BY <1>6, <1>7, <1>8 DEF Fail

\* A step of another part of the run changes nothing here.
LEMMA ExecStutter == ASSUME ExecInv, UNCHANGED vars PROVE ExecInv'
<1>1. /\ Fixed
      /\ UNCHANGED <<rt, rc, count, dirty, pc, dHdr, dRt, dBlk, pHdr, pRt, pBlk>>
  BY DEF vars, Fixed, exec, device
<1>2. /\ PlanInv' /\ Held(image)' = Held(image) /\ Structures' = Structures /\ OldTable' = OldTable
      /\ OldHdr' = OldHdr /\ NewHdr' = NewHdr /\ Relocating' = Relocating
      /\ TableStart' = TableStart /\ in' = in /\ newBlocks' = newBlocks /\ needed' = needed
      /\ newRt' = newRt /\ plan' = plan /\ image' = image
  BY <1>1, FixedFacts DEF ExecInv
<1>3. ShapeInv'
  BY <1>1, <1>2, ShapeKept DEF ExecInv, ShapeInv
<1>4. Live' = Live /\ Ungrown' = Ungrown
  BY <1>1, <1>2 DEF Live, Ungrown, Moved
<1>5. SizeInv' /\ BlocksInv' /\ HeaderInv'
  <2>1. SizeInv'
    BY <1>1, <1>2, <1>4 DEF ExecInv, SizeInv
  <2>2. BlocksInv'
    <3>1. \A k : BlockAt(rc, k)' = BlockAt(rc, k)
      BY <1>1 DEF BlockAt
    <3> QED BY <1>1, <3>1 DEF ExecInv, BlocksInv
  <2>3. HeaderInv'
    BY <1>1, <1>2 DEF ExecInv, HeaderInv
  <2> QED BY <2>1, <2>2, <2>3
<1>6. StagedInv'
  BY <1>1, <1>2, <1>4 DEF ExecInv, StagedInv, BlockHost
<1>7. CountsInv'
  BY <1>1, <1>2, <1>4 DEF ExecInv, CountsInv, Counted
<1>8. TablesInv'
  BY <1>1, <1>2 DEF ExecInv, TablesInv, Named, Holder
<1>9. Recoverable'
  BY <1>1, <1>2, CrashKept DEF ExecInv, Recoverable
<1> QED BY <1>2, <1>3, <1>5, <1>6, <1>7, <1>8, <1>9 DEF ExecInv

\* Every step of a growth keeps the invariant.
LEMMA NextExec == ExecInv /\ [Next]_vars => ExecInv'
<1> SUFFICES ASSUME ExecInv, [Next]_vars PROVE ExecInv'
  OBVIOUS
<1>1. CASE Refused \/ NoneNeeded
  BY <1>1, EndsUngrown DEF Refused, NoneNeeded
<1>2. CASE Stopped \/ UNCHANGED vars
  BY <1>2, ExecStutter DEF Stopped
<1> QED BY <1>1, <1>2, PlanningInv, StageGrowthInv, FlushBlockInv, BlocksFlushedInv,
           WriteTableStepInv, SyncTableInv, FlipHeaderInv, SyncHeaderInv, StageFreeInv, FreedInv,
           FailInv
    DEF Next
=============================================================================
