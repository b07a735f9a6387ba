------------------------------ MODULE Measure ------------------------------
(***************************************************************************)
(* instar measure: how long a conversion of an image will make its output, *)
(* from a scan of the image's table and the target's layout alone.  Here   *)
(* the prediction stands beside the writers of Convert.                    *)
(***************************************************************************)
EXTENDS Convert

\* VhdxState::scan_allocation refuses an image with a block that is present
\* and has no place.
VhdxMalformed(d) ==
    \E k \in DOMAIN d.map : d.map[k].flag \in {"present", "partial"} /\ d.map[k].at = NoPlace
\* detect_and_scan: the formats it knows, with a differencing image refused.
Scanned(j) == /\ j.chain[1].fmt \in {"raw", "qcow2", "vmdk", "vhd", "vhdx"}
              /\ ~j.chain[1].diff
              /\ j.chain[1].fmt = "vhdx" => ~VhdxMalformed(j.chain[1])
\* A raw image is as long as its device, in whole sectors.
VirtualSize(j) == IF j.chain[1].fmt = "raw" THEN AlignUp(j.len, j.ss) ELSE j.len

\* Whether the scan of a qcow2 image counts granule g of entry k: data, and
\* compressed data.
Counted(d, k, g) ==
    LET e == d.map[k]
    IN IF e.flag = "ext" THEN SubType(e, g) = "std"
       ELSE ClusterLookup(<<d>>, 1, k * d.cs).k \in {"std", "comp"}
\* The counted runs of a qcow2 image, in order, cut at its end.
CountedRuns(d, v) ==
    LET here(x) == /\ x \div d.cs \in DOMAIN d.map
                   /\ Counted(d, x \div d.cs, (x % d.cs) \div d.gr)
        first(x) == \/ x % d.cs = 0
                    \/ ~here(x - 1)
        last(x) == Max({y \in x..(v - 1) : /\ y \div d.cs = x \div d.cs
                                           /\ \A z \in x..y : here(z)})
        starts == {x \in 0..(v - 1) : here(x) /\ first(x)}
    IN [i \in 1..Cardinality(starts) |->
          LET x == CHOOSE y \in starts : Cardinality({z \in starts : z < y}) = i - 1
          IN [at |-> x, len |-> last(x) - x + 1]]
\* The scans of the other formats count entries: grains that are not the
\* empty one (a zeroed grain is counted), blocks with a place, and present
\* blocks of the image.
CountedGrains(d) == Cardinality({k \in DOMAIN d.map : d.map[k].at # NoPlace})
CountedVhdBlocks(d) == Cardinality({k \in DOMAIN d.map : d.map[k].at # NoPlace})
CountedVhdxBlocks(d, v) ==
    Cardinality({k \in DOMAIN d.map : k * d.cs < v /\ d.map[k].flag \in {"present", "partial"}})
\* AllocationSummary::clamp: never more than the image.
AllocatedBytes(d, v) ==
    CASE d.fmt = "qcow2" -> FoldLeft(LAMBDA n, r : n + r.len, 0, CountedRuns(d, v))
      [] d.fmt = "vmdk" -> Min({v, CountedGrains(d) * d.cs})
      [] d.fmt = "vhd" -> Min({v, CountedVhdBlocks(d) * d.cs})
      [] d.fmt = "vhdx" -> Min({v, CountedVhdxBlocks(d, v) * d.cs})

\* TargetUnitTracker::observe_allocated: t is the count and the last unit.
Observe(t, r, unit) ==
    LET first == r.at \div unit
        last == (r.at + r.len - 1) \div unit
        new == IF t.last = NoPlace \/ first > t.last THEN last - first + 1
               ELSE Max({0, last - t.last})
    IN [n |-> t.n + new, last |-> Max({t.last, last})]
DataUnitsPacked(j) ==
    CeilDiv(IF j.chain[1].fmt = "raw" THEN VirtualSize(j)
            ELSE AllocatedBytes(j.chain[1], VirtualSize(j)), UnitSize(j))
\* The units of the target the image's data needs: counted for raw and qcow2
\* images, and for the others as if the data were in one piece.
DataUnits(j) ==
    LET d == j.chain[1]
        v == VirtualSize(j)
        unit == UnitSize(j)
        tracked == FoldLeft(LAMBDA t, r : Observe(t, r, unit),
                            [n |-> 0, last |-> NoPlace], CountedRuns(d, v))
    IN CASE d.fmt = "raw" -> CeilDiv(v, unit)
         [] d.fmt = "qcow2" -> tracked.n
         [] OTHER -> CeilDiv(AllocatedBytes(d, v), unit)

\* The calculators, for n units of data.  calculate_refcount_layout here
\* sizes the counts for a full image whatever n is.
MeasureQcow2(j, n) ==
    LET v == VirtualSize(j)
        l2 == CeilDiv(v, OutCluster * PerTable(j))
        l1 == CeilDiv(l2 * TopWidth, OutCluster)
        lay == RefcountLayout(1 + l1 + l2 + CeilDiv(v, OutCluster))
    IN (1 + l1 + l2 + n + lay.table + lay.blocks) * OutCluster
MeasureStream(j, n) ==
    LET gts == CeilDiv(CeilDiv(VirtualSize(j), Grain), GtEntries)
        body == 2 * Small + n * (Grain + Small) + gts * (Small + AlignUp(GtEntries, Small))
                + Small + Max({Small, AlignUp(gts, Small)})
    IN AlignUp(body + 3 * Small, Big)
Sizing(j) == [j EXCEPT !.len = VirtualSize(j)]
MeasureVhdx(j, n) == VhdxData(Sizing(j)) + n * AlignUp(VBlock, MbAlign)
Measured(j, n) ==
    CASE j.fmt = "raw" -> VirtualSize(j)
      [] j.fmt = "flat" -> Small + VirtualSize(j)
      [] j.fmt \in Qcow2Out -> MeasureQcow2(j, n)
      [] j.fmt = "vmdkc" -> MeasureStream(j, n)
      [] j.fmt = "vhdx" -> MeasureVhdx(j, n)
      [] j.fmt = "vhdxf" -> VhdxFixedLen(Sizing(j))
Required(j) == Measured(j, DataUnits(j))
FullyAllocated(j) == Measured(j, CeilDiv(VirtualSize(j), UnitSize(j)))

\* The targets whose sizes do not depend on the output device's sector size,
\* which measure takes to be the smallest.
Sized == {"raw", "flat", "vhdx", "vhdxf", "vmdkc"} \cup Qcow2Out

\* What measure promises of an image it scans holds of its conversion: the
\* file is never longer than the fully allocated size, whatever is packed,
\* padded or counted in it; and where the scan counts target units, a
\* conversion that leaves out zeros is no longer than the required size.
MeasureCovers ==
    (/\ phase = "ok" /\ job.fmt \in Sized
     /\ Len(job.chain) = 1 /\ ~job.dd /\ job.len > 0 /\ Scanned(job)) =>
      /\ size <= FullyAllocated(job)
      /\ job.skip /\ job.chain[1].fmt \in {"raw", "qcow2"} => size <= Required(job)
=============================================================================
