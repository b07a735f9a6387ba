----------------------------- MODULE GrowthPlan -----------------------------
(***************************************************************************)
(* plan_refcount_growth: how many refcount blocks a run needs before its   *)
(* first write.  The new blocks and a relocated refcount table need        *)
(* refcounts themselves, so the size is a fixed point, found by iterating  *)
(* at most Rounds times.  All arithmetic saturates at Top (u64::MAX).      *)
(***************************************************************************)
EXTENDS Integers

CONSTANTS EPB,      \* entries_per_refblock
          RPC,      \* refcount table entries in a cluster (cluster_size / 8)
          Rounds,   \* GROWTH_FIXED_POINT_ROUNDS
          Top,      \* u64::MAX
          MaxBlocks,   \* min of the caps on staged refblocks
          MaxRtSlots,  \* caps.max_rt_slots
          Inputs       \* the requests a behaviour may start from

\* What the caller knows: the file end, the staged blocks, the slots of the
\* refcount table on disk, and the clusters the run may allocate.  The staged
\* blocks are within the caps: the caller has refused larger images.
Input == [fileEnd : Nat, populated : 0..MaxBlocks, rtCapacity : Nat,
          worst : Nat]

\* A saturated size must exceed the caps, or it would be taken for a real one.
ASSUME PlanAssumption ==
    /\ EPB \in Nat \ {0} /\ RPC \in Nat \ {0} /\ Rounds \in Nat
    /\ Top \in Nat /\ MaxBlocks \in Nat /\ MaxRtSlots \in Nat
    /\ MaxBlocks * EPB < Top
    /\ Inputs \subseteq Input

VARIABLES in, end, needed, newBlocks, newRt, round, plan

planVars == <<in, end, needed, newBlocks, newRt, round, plan>>

Sat(n) == IF n > Top THEN Top ELSE n
CeilDiv(n, d) == (n + d - 1) \div d
BaseEnd == Sat(in.fileEnd + in.worst)

PlanInit ==
    /\ in \in Inputs
    /\ end = BaseEnd /\ needed = 0 /\ newBlocks = 0 /\ newRt = 0
    /\ round = 0 /\ plan = "start"

\* The staged blocks already cover the worst case.
NoGrowth ==
    /\ plan = "start" /\ CeilDiv(BaseEnd, EPB) <= in.populated
    /\ needed' = in.populated
    /\ plan' = "ok"
    /\ UNCHANGED <<in, end, newBlocks, newRt, round>>

Grow ==
    /\ plan = "start" /\ CeilDiv(BaseEnd, EPB) > in.populated
    /\ plan' = "iterate"
    /\ UNCHANGED <<in, end, needed, newBlocks, newRt, round>>

\* Blocks and table clusters that n slots need on top of what there is.
BlocksFor(n) == IF n > in.populated THEN n - in.populated ELSE 0
RtFor(n) == IF n > in.rtCapacity THEN CeilDiv(n, RPC) ELSE 0

\* Mutant of NextEnd: the table's own clusters are not counted.
NextEndNoRt(n) == Sat(BaseEnd + BlocksFor(n))
NextEnd(n) == Sat(Sat(BaseEnd + RtFor(n)) + BlocksFor(n))

\* One round of the fixed point.
Round ==
    /\ plan = "iterate" /\ round < Rounds
    /\ needed' = CeilDiv(end, EPB)
    /\ newBlocks' = BlocksFor(needed')
    /\ newRt' = RtFor(needed')
    /\ round' = round + 1
    /\ end' = NextEnd(needed')
    /\ plan' = IF end' = end THEN "converged" ELSE "iterate"
    /\ UNCHANGED in

NotConverged ==
    /\ plan = "iterate" /\ round = Rounds
    /\ plan' = "overflow"
    /\ UNCHANGED <<in, end, needed, newBlocks, newRt, round>>

FitsCaps(n, rt) == n <= MaxBlocks /\ n <= MaxRtSlots /\ rt * RPC <= MaxRtSlots

CheckCaps ==
    /\ plan = "converged"
    /\ plan' = IF FitsCaps(needed, newRt) THEN "ok" ELSE "overflow"
    /\ UNCHANGED <<in, end, needed, newBlocks, newRt, round>>

PlanStep == NoGrowth \/ Grow \/ Round \/ NotConverged \/ CheckCaps

Planned == plan \in {"ok", "overflow"} /\ UNCHANGED planVars

PlanNext == PlanStep \/ Planned

PlanSpec == PlanInit /\ [][PlanNext]_planVars

-----------------------------------------------------------------------------
\* The planner's variables hold values of their Rust types: no sum exceeds
\* u64 and the loop never runs past its bound.
PlanTypeOK ==
    /\ in \in Input
    /\ end \in 0..Top
    /\ needed \in Nat /\ newBlocks \in Nat /\ newRt \in Nat
    /\ round \in 0..Rounds
    /\ plan \in {"start", "iterate", "converged", "ok", "overflow"}

\* An accepted plan covers the existing file, everything the run may allocate
\* and the new structures themselves, counted without saturation: the run
\* cannot run out of refcounts part-way (the planner's promise).
PlanCovers ==
    plan = "ok" =>
        in.fileEnd + in.worst + newRt + newBlocks <= needed * EPB

\* An accepted plan has a refcount table with a slot for every block, and the
\* table image fits the staging buffer it is built in.
TableHolds ==
    plan = "ok" =>
        /\ newRt = 0 => (needed <= in.rtCapacity \/ newBlocks = 0)
        /\ newRt > 0 => needed <= newRt * RPC /\ newRt * RPC <= MaxRtSlots

=============================================================================
