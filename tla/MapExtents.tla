---------------------------- MODULE MapExtents -----------------------------
(***************************************************************************)
(* instar map: the guest walks an image's block table in order, joins what *)
(* belongs together into extents, and sends those that meet the window.    *)
(* A step is one table entry.  An empty directory entry stands for the     *)
(* empty entries under it.                                                 *)
(***************************************************************************)
EXTENDS ChainRead, SequencesExt

CONSTANT Maps   \* what may be mapped

(***************************************************************************)
(* A map job is a record: src the image, vsize its virtual size, backed    *)
(* whether it names a backing file, from and max the window asked for, max *)
(* 0 for no limit.  An extent is a record: start, len, its state, and at   *)
(* the place in the file, NoPlace for a state that names none.             *)
(***************************************************************************)
VARIABLES
    map,      \* the map job
    entry,    \* the next table entry
    walk,     \* the coalescer: its pending extent, what was sent, aborted
    mphase    \* "idle", "walk", "ok", "refused", "failed"

mapVars == <<map, entry, walk, mphase>>

NoWalk == [pending |-> <<>>, sent |-> <<>>, aborted |-> FALSE]
Ends(x) == x.start + x.len
\* resolve_window.
WindowStart(m) == Min({m.from, m.vsize})
WindowEnd(m) == IF m.max = 0 THEN m.vsize ELSE Min({m.from + m.max, m.vsize})

\* clip_to_window, with advanced_by.
ClipStays(x, a, b) ==
    [x EXCEPT !.start = Max({x.start, a}), !.len = Min({Ends(x), b}) - Max({x.start, a})]
Clip(x, a, b) ==
    LET s == Max({x.start, a})
    IN [x EXCEPT !.start = s, !.len = Min({Ends(x), b}) - s,
                 !.at = IF @ = NoPlace THEN @ ELSE @ + (s - x.start)]
\* The emit closure: the extents sent, and whether to go on.
Emit(m, sent, x) ==
    LET a == WindowStart(m)
        b == WindowEnd(m)
    IN IF Ends(x) <= a \/ x.start >= b THEN sent ELSE Append(sent, Clip(x, a, b))
GoesOn(m, x) == Ends(x) < WindowEnd(m)

\* extents_mergeable.
Mergeable(x, y) ==
    /\ Ends(x) = y.start
    /\ x.state = y.state
    /\ y.at = IF x.at = NoPlace THEN NoPlace ELSE x.at + x.len
\* MapExtentCoalescer::push and finish.
Push(m, c, y) ==
    IF c.aborted \/ y.len = 0 THEN c
    ELSE IF c.pending = <<>> THEN [c EXCEPT !.pending = <<y>>]
    ELSE LET x == c.pending[1]
         IN IF Mergeable(x, y) THEN [c EXCEPT !.pending = <<[x EXCEPT !.len = @ + y.len]>>]
            ELSE [sent |-> Emit(m, c.sent, x), aborted |-> ~GoesOn(m, x),
                  pending |-> IF GoesOn(m, x) THEN <<y>> ELSE <<>>]
Flush(m, c) ==
    IF c.aborted \/ c.pending = <<>> THEN c
    ELSE [c EXCEPT !.sent = Emit(m, @, c.pending[1]), !.pending = <<>>]

\* map_state_for: the extent of n units at v, of lookup kind k and place at.
Extent(v, n, k, at) ==
    [start |-> v, len |-> n,
     state |-> CASE k \in {"std", "comp", "part"} -> "data"
                 [] k = "zero" -> "zero"
                 [] k = "none" -> "hole",
     at |-> at]
\* classify_qcow2_l2_extended: one extent for each run of subclusters that
\* starts in the image.
RECURSIVE SubExtents(_, _, _, _, _)
SubExtents(d, e, v, n, g) ==
    LET from == g * d.gr
    IN IF from >= n THEN <<>>
       ELSE LET len == SubRun(d, e, g) * d.gr
            IN <<Extent(v + from, Min({len, n - from}), SubType(e, g),
                        IF e.at = NoPlace THEN NoPlace ELSE e.at + from)>>
               \o SubExtents(d, e, v, n, g + SubRun(d, e, g))
\* classify_qcow2_l2_standard: a zero cluster may name a place too.
Qcow2Extents(d, k, n) ==
    LET e == Entry(d, k * d.cs)
    IN IF e.flag = "ext" THEN SubExtents(d, e, k * d.cs, n, 0)
       ELSE <<Extent(k * d.cs, n, ClusterLookup(<<d>>, 1, k * d.cs).k, e.at)>>
\* The entries of the other formats name a place for data alone.
GrainExtents(d, k, n) ==
    LET l == GrainLookup(d, k * d.cs)
    IN <<Extent(k * d.cs, n, l.k, IF l.k = "zero" THEN NoPlace ELSE l.e.at)>>
VhdExtents(d, k, n) ==
    LET l == VhdLookup(d, k * d.cs) IN <<Extent(k * d.cs, n, l.k, l.e.at)>>
\* A partial block is data here even in an image without a parent, where a
\* read refuses it.
VhdxKind(e) ==
    CASE e.flag \in {"plain", "undefined", "unmapped"} -> "none"
      [] e.flag = "zero" -> "zero"
      [] e.flag \in {"present", "partial"} -> "std"
VhdxExtents(d, k, n) ==
    LET e == Entry(d, k * d.cs)
    IN <<Extent(k * d.cs, n, VhdxKind(e), IF VhdxKind(e) = "std" THEN e.at ELSE NoPlace)>>
\* The extents of entry k, cut at the end of the image.
Classified(m, k) ==
    LET d == m.src
        n == Min({d.cs, m.vsize - k * d.cs})
    IN CASE d.fmt = "qcow2" -> Qcow2Extents(d, k, n)
         [] d.fmt = "vmdk" -> GrainExtents(d, k, n)
         [] d.fmt = "vhd" -> VhdExtents(d, k, n)
         [] d.fmt = "vhdx" -> VhdxExtents(d, k, n)
\* An entry that ends the walk: a qcow2 entry no read accepts, or a VHDX block
\* that is present and has no place.
Malformed(m, k) ==
    CASE m.src.fmt = "qcow2" -> ClusterLookup(<<m.src>>, 1, k * m.src.cs).k = "bad"
      [] m.src.fmt = "vhdx" -> LET e == Entry(m.src, k * m.src.cs)
                               IN VhdxKind(e) = "std" /\ e.at = NoPlace
      [] OTHER -> FALSE
Entries(m) == Cardinality({k \in DOMAIN m.src.map : k * m.src.cs < m.vsize})

\* _start: an image that names a parent is refused.
MapInit ==
    /\ map \in Maps
    /\ entry = 0
    /\ walk = NoWalk
    /\ mphase = IF map.backed \/ map.src.diff THEN "refused" ELSE "walk"

Dense(m) == m.src.fmt \in {"raw", "fixed"}
\* raw::map_extents, and a fixed vhd: one extent.
MapDense ==
    /\ mphase = "walk" /\ Dense(map)
    /\ walk' = IF map.vsize = 0 THEN walk
               ELSE [walk EXCEPT !.sent = Emit(map, @, Extent(0, map.vsize, "std", 0))]
    /\ mphase' = "ok"
    /\ UNCHANGED <<map, entry>>
\* One entry: refused, or its extents pushed in order.
MapEntry ==
    /\ mphase = "walk" /\ ~Dense(map) /\ entry < Entries(map) /\ ~walk.aborted
    /\ IF Malformed(map, entry)
       THEN mphase' = "failed" /\ UNCHANGED walk
       ELSE /\ walk' = FoldLeft(LAMBDA c, x : Push(map, c, x), walk, Classified(map, entry))
            /\ UNCHANGED mphase
    /\ entry' = entry + 1
    /\ UNCHANGED map
\* The end of the table, or of the window: what no entry covered is a hole.
MapEnd ==
    /\ mphase = "walk" /\ ~Dense(map) /\ (entry < Entries(map) => walk.aborted)
    /\ LET v == Min({entry * map.src.cs, map.vsize})
       IN walk' = Flush(map, Push(map, walk, Extent(v, map.vsize - v, "none", NoPlace)))
    /\ mphase' = "ok"
    /\ UNCHANGED <<map, entry>>
\* A table sector cannot be read.
MapFault ==
    /\ mphase = "walk" /\ ~Dense(map)
    /\ mphase' = "failed"
    /\ UNCHANGED <<map, entry, walk>>

MapNext == MapDense \/ MapEntry \/ MapEnd \/ MapFault

\* What a guest reads at an offset an extent covers.
Reads(x, v) == IF x.state = "data" THEN Stored(<<map.src>>, 1, x.at + (v - x.start)) ELSE Zero

\* The extents sent so far tile the window from its start, in order, none
\* could be joined to the next, and each says where a guest's bytes at every
\* offset are, or that they are zeros; a walk that ends well has covered the
\* window.
MapExact ==
    LET s == walk.sent IN
    /\ \A i \in 1..Len(s) :
         /\ s[i].len > 0
         /\ s[i].start = IF i = 1 THEN WindowStart(map) ELSE Ends(s[i - 1])
         /\ i > 1 => ~Mergeable(s[i - 1], s[i])
         /\ \A v \in s[i].start..(Ends(s[i]) - 1) :
              Reads(s[i], v) = ChainByte(<<map.src>>, 1, v)
    /\ mphase = "ok" =>
         WindowEnd(map) <= IF s = <<>> THEN WindowStart(map) ELSE Ends(s[Len(s)])
=============================================================================
