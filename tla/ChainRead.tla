----------------------------- MODULE ChainRead -----------------------------
(***************************************************************************)
(* read_chain_virtual_cluster: a chunk of guest data out of a chain of     *)
(* images, each layer answering for what it holds and passing the rest     *)
(* down.  Offsets and lengths are in units, and a unit of data is named by *)
(* the file and the place that store it.  The reader is a function of its  *)
(* arguments and of the one thing it keeps between calls, the staging      *)
(* buffer for inflated clusters.                                           *)
(***************************************************************************)
EXTENDS Integers, Sequences, FiniteSetsExt

CONSTANT MaxCluster   \* units the staging buffer holds

(***************************************************************************)
(* A device is a record: fmt its format, cs its cluster, grain or block    *)
(* size, cap the units in its file, map its table, gr the granule its      *)
(* bitmaps count in, diff whether it names a parent, packed whether its    *)
(* grains are compressed, data the device that holds its clusters (itself, *)
(* an external data file, or the first extent of a flat descriptor), size  *)
(* the length of an extent, holes the units of the file that are zero.     *)
(* A table entry is a record: at the place it names, flag its state bits,  *)
(* own and zero the granules its bitmap marks.                             *)
(***************************************************************************)
Zero == <<0, 0, 0>>
Stale == <<9, 0, 0>>
Refused == <<8, 0, 0>>
Zeros(n) == [j \in 1..n |-> Zero]
NoPlace == -1
NoEntry == [at |-> NoPlace, flag |-> "plain", own |-> {}, zero |-> {}]

Stored(chain, i, u) == IF u \in chain[i].holes THEN Zero ELSE <<1, i, u>>
Host(chain, i, at, n) == [j \in 1..n |-> Stored(chain, i, at + j - 1)]
InFile(chain, i, u) == IF u < chain[i].cap THEN Stored(chain, i, u) ELSE Zero

Good(b, st) == [ok |-> TRUE, bytes |-> b, st |-> st]
Fail(st) == [ok |-> FALSE, bytes |-> <<>>, st |-> st]
Then(a, b) == IF a.ok /\ b.ok THEN Good(a.bytes \o b.bytes, b.st) ELSE Fail(b.st)

\* read_cluster_sectors and read_offset_sectors: a sector past the file fails.
Sectors(chain, i, at, n, st) ==
    IF at + n > chain[i].cap THEN Fail(st) ELSE Good(Host(chain, i, at, n), st)
\* read_raw_sectors: past the file there are zeros.
RawSectors(chain, i, at, n, st) ==
    Good([j \in 1..n |-> InFile(chain, i, at + j - 1)], st)

(***************************************************************************)
(* The table lookups.  An offset past the table, or under an empty         *)
(* directory entry, has no entry.                                          *)
(***************************************************************************)
Entry(d, off) ==
    IF off \div d.cs \in DOMAIN d.map THEN d.map[off \div d.cs] ELSE NoEntry
Found(k, e, d, off) == [k |-> k, at |-> e.at + (off % d.cs), e |-> e]

Judged(kind(_), e, d, off) == Found(kind(e), e, d, off)

GrainLookup(d, off) ==
    LET kind(e) == CASE e.at = NoPlace -> "none"
                     [] e.at # NoPlace /\ e.flag = "zeroed" -> "zero"
                     [] e.at # NoPlace /\ e.flag # "zeroed" ->
                          IF d.packed THEN "comp" ELSE "std"
    IN Judged(kind, Entry(d, off), d, off)
VhdLookup(d, off) ==
    LET kind(e) == IF e.at = NoPlace THEN "none" ELSE "std"
    IN Judged(kind, Entry(d, off), d, off)
VhdxLookup(d, off) ==
    LET wrong(e) == e.at = NoPlace \/ (e.flag = "partial" /\ ~d.diff)
        kind(e) == CASE e.flag \in {"plain", "undefined", "unmapped"} -> "none"
                     [] e.flag = "zero" -> "zero"
                     [] e.flag = "present" -> IF wrong(e) THEN "bad" ELSE "std"
                     [] e.flag = "partial" -> IF wrong(e) THEN "bad" ELSE "part"
    IN Judged(kind, Entry(d, off), d, off)
VdiLookup(d, off) ==
    LET kind(e) == IF e.at = NoPlace \/ e.flag = "discarded" THEN "none" ELSE "std"
    IN Judged(kind, Entry(d, off), d, off)
ParallelsLookup(d, off) ==
    LET kind(e) == IF e.at = NoPlace THEN "none" ELSE "std"
    IN Judged(kind, Entry(d, off), d, off)
Qcow1Lookup(d, off) ==
    LET kind(e) == IF e.at = NoPlace THEN "none"
                   ELSE IF e.flag = "comp" THEN "comp" ELSE "std"
    IN Judged(kind, Entry(d, off), d, off)
DmgLookup(d, off) ==
    LET kind(e) == IF e = NoEntry THEN "gap" ELSE e.flag
    IN Judged(kind, Entry(d, off), d, off)

\* subcluster_type: one granule of an extended entry, judged with the whole.
SubType(e, g) ==
    CASE e.at # NoPlace /\ e.own \cap e.zero # {} -> "bad"
      [] e.at = NoPlace /\ e.own # {} -> "bad"
      [] OTHER -> IF g \in e.own THEN "std"
                  ELSE IF g \in e.zero THEN "zero" ELSE "none"
\* subcluster_range: the granules from g on that share its type.
SubRun(d, e, g) ==
    Max({h \in (g + 1)..(d.cs \div d.gr) :
           \A x \in g..(h - 1) : SubType(e, x) = SubType(e, g)}) - g
\* cluster_lookup with classify_l2_entry.
ClusterLookup(chain, i, off) ==
    LET d == chain[i]
        class(e) == CASE e.flag = "comp" -> "comp"
                      [] e.flag = "zero" -> "zero"
                      [] e.flag = "plain" -> IF e.at = NoPlace THEN "none" ELSE "std"
                      [] e.flag = "ext" -> IF SubRun(d, e, 0) < d.cs \div d.gr
                                           THEN "sub" ELSE SubType(e, 0)
        checked(k, at) == IF /\ d.data # i
                             /\ k # "bad"
                             /\ k = "comp" \/ at \notin {NoPlace, off - (off % d.cs)}
                          THEN "bad" ELSE k
        kind(e) == checked(class(e), e.at)
    IN Judged(kind, Entry(d, off), d, off)

(***************************************************************************)
(* The staging buffer: staging_cluster_offset, and what staging_buf holds. *)
(***************************************************************************)
NoKey == -1
FreshStaging == [key |-> NoKey, buf |-> [u \in 0..(MaxCluster - 1) |-> Stale]]
Inflate(chain, i, e, st, key) ==
    [key |-> key,
     buf |-> [u \in DOMAIN st.buf |->
                IF u < chain[i].cs THEN Stored(chain, i, e.at + u) ELSE st.buf[u]]]
FromStaging(st, u, n) == Good([j \in 1..n |-> st.buf[u + j - 1]], st)

\* A cluster that fits the chunk is inflated in place, a larger one into the
\* staging buffer, where it is kept under its virtual offset.
Compressed(chain, i, off, n, st, e) ==
    LET cs == chain[i].cs
        base == off - (off % cs)
        held == IF st.key = base THEN st ELSE Inflate(chain, i, e, st, base)
    IN CASE cs <= n -> Good(Host(chain, i, e.at, cs), st)
         [] cs > n /\ cs > MaxCluster -> Fail(st)
         [] cs > n /\ cs <= MaxCluster -> FromStaging(held, off - base, n)

\* A qcow1 cluster always goes through the buffer, and leaves no key.
Qcow1Compressed(chain, i, off, n, st, e) ==
    LET held == Inflate(chain, i, e, st, NoKey)
    IN IF e.at >= chain[i].cap THEN Fail(held)
       ELSE FromStaging(held, off % chain[i].cs, n)

\* A dmg chunk is kept under its place in the file, tagged so that no virtual
\* offset equals it.
DmgKey(e) == -2 - e.at
DmgCompressed(chain, i, off, n, st, e) ==
    LET held == IF st.key = DmgKey(e) THEN st
                ELSE Inflate(chain, i, e, st, DmgKey(e))
    IN IF st.key # DmgKey(e) /\ (chain[i].cs > MaxCluster \/ e.at >= chain[i].cap)
       THEN Fail(st) ELSE FromStaging(held, off % chain[i].cs, n)

(***************************************************************************)
(* The arms of the reader.                                                 *)
(***************************************************************************)
RECURSIVE Read(_, _, _, _, _), Split(_, _, _, _, _), Runs(_, _, _, _, _, _)

\* chunk_crosses_granule.
Crosses(d, off, n) == (off % d.cs) + n > d.cs
\* read_chain_split_at_granule; the parallels, qcow1 and dmg arms loop the
\* same way.
Split(chain, i, off, n, st) ==
    LET rest(span, a) == IF ~a.ok \/ span = n THEN a
                         ELSE Then(a, Split(chain, i, off + span, n - span, a.st))
        first(span) == rest(span, Read(chain, i, off, span, st))
    IN first(Min({n, chain[i].cs - (off % chain[i].cs)}))

\* The runs of equal subclusters of one cluster.
Runs(chain, i, off, n, st, e) ==
    LET d == chain[i]
        intra == off % d.cs
        g == intra \div d.gr
        run(k, len) == CASE k = "std" -> Sectors(chain, d.data, e.at + intra, len, st)
                         [] k = "zero" -> Good(Zeros(len), st)
                         [] k = "none" -> Read(chain, i + 1, off, len, st)
                         [] k = "bad" -> Fail(st)
        rest(len, a) == IF ~a.ok \/ len = n THEN a
                        ELSE Then(a, Runs(chain, i, off + len, n - len, a.st, e))
        first(len) == rest(len, run(SubType(e, g), len))
    IN first(Min({n, (g + SubRun(d, e, g)) * d.gr - intra}))

Qcow2(chain, i, off, n, st) ==
    LET arm(l) == CASE l.k = "none" -> Read(chain, i + 1, off, n, st)
                    [] l.k = "zero" -> Good(Zeros(n), st)
                    [] l.k = "sub" -> Runs(chain, i, off, n, st, l.e)
                    [] l.k = "std" -> Sectors(chain, chain[i].data, l.at, n, st)
                    [] l.k = "comp" -> Compressed(chain, i, off, n, st, l.e)
                    [] l.k = "bad" -> Fail(st)
    IN arm(ClusterLookup(chain, i, off))

Vmdk(chain, i, off, n, st) ==
    LET arm(l) == CASE l.k = "none" -> Read(chain, i + 1, off, n, st)
                    [] l.k = "zero" -> Good(Zeros(n), st)
                    [] l.k = "std" -> Sectors(chain, i, l.at, n, st)
                    [] l.k = "comp" -> Compressed(chain, i, off, n, st, l.e)
    IN arm(GrainLookup(chain[i], off))

\* A differencing image at the bottom of the chain has nowhere to look.
Parent(chain, i, off, n, st) ==
    IF i = Len(chain) /\ chain[i].diff THEN Fail(st)
    ELSE Read(chain, i + 1, off, n, st)

\* A block shared with the parent, granule by granule: the chunk is the
\* parent's, with the runs this image owns put over it.
Shared(chain, i, off, n, st, l) ==
    LET d == chain[i]
        over(mine, own, below) ==
            IF ~own.ok \/ ~below.ok THEN Fail(below.st)
            ELSE Good([j \in 1..n |-> IF j \in mine THEN own.bytes[j]
                                      ELSE below.bytes[j]], below.st)
        merged(mine, own, below) ==
            CASE mine = 1..n -> own
              [] mine = {} -> below
              [] mine \notin {{}, 1..n} -> over(mine, own, below)
    IN IF Crosses(d, off, n) THEN Fail(st)
       ELSE merged({j \in 1..n : (((off + j - 1) % d.cs) \div d.gr) \in l.e.own},
                   Sectors(chain, i, l.at, n, st), Parent(chain, i, off, n, st))

Vhd(chain, i, off, n, st) ==
    LET arm(l) == IF l.k = "none" THEN Parent(chain, i, off, n, st)
                  ELSE IF chain[i].diff THEN Shared(chain, i, off, n, st, l)
                  ELSE Sectors(chain, i, l.at, n, st)
    IN arm(VhdLookup(chain[i], off))

Vhdx(chain, i, off, n, st) ==
    LET arm(l) == CASE l.k = "none" -> Parent(chain, i, off, n, st)
                    [] l.k = "zero" -> Good(Zeros(n), st)
                    [] l.k = "std" -> Sectors(chain, i, l.at, n, st)
                    [] l.k = "part" -> Shared(chain, i, off, n, st, l)
                    [] l.k = "bad" -> Fail(st)
    IN arm(VhdxLookup(chain[i], off))

Vdi(chain, i, off, n, st) ==
    LET arm(l) == IF l.k = "none" THEN Read(chain, i + 1, off, n, st)
                  ELSE RawSectors(chain, i, l.at, n, st)
    IN arm(VdiLookup(chain[i], off))

Parallels(chain, i, off, n, st) ==
    LET arm(l) == IF l.k = "none" THEN Good(Zeros(n), st)
                  ELSE RawSectors(chain, i, l.at, n, st)
    IN arm(ParallelsLookup(chain[i], off))

Qcow1(chain, i, off, n, st) ==
    LET arm(l) == CASE l.k = "none" -> Read(chain, i + 1, off, n, st)
                    [] l.k = "std" -> RawSectors(chain, i, l.at, n, st)
                    [] l.k = "comp" -> Qcow1Compressed(chain, i, off, n, st, l.e)
    IN arm(Qcow1Lookup(chain[i], off))

Dmg(chain, i, off, n, st) ==
    LET arm(l) == CASE l.k = "zero" -> Good(Zeros(n), st)
                    [] l.k = "raw" -> Sectors(chain, i, l.at, n, st)
                    [] l.k = "zlib" -> DmgCompressed(chain, i, off, n, st, l.e)
                    [] l.k = "gap" -> Fail(st)
    IN arm(DmgLookup(chain[i], off))

\* A flat descriptor's bytes are in its extents, the data devices from the
\* first on; the chunk is read from the extent it starts in.
Extents(chain, i) ==
    {x \in chain[i].data..Len(chain) :
       \A y \in chain[i].data..x : chain[y].fmt = "data" /\ chain[y].size > 0}
ExtentStart(chain, i, x) ==
    MapThenSumSet(LAMBDA y : chain[y].size, chain[i].data..(x - 1))
ExtentsAt(chain, i, off) ==
    {x \in Extents(chain, i) : /\ ExtentStart(chain, i, x) <= off
                               /\ off < ExtentStart(chain, i, x) + chain[x].size}
Flat(chain, i, off, n, st) ==
    LET at == ExtentsAt(chain, i, off)
    IN IF at = {} THEN Good(Zeros(n), st)
       ELSE RawSectors(chain, Min(at), off - ExtentStart(chain, i, Min(at)), n, st)

\* read_chain_virtual_cluster from device i on.  A data device is no layer.
Read(chain, i, off, n, st) ==
    IF i > Len(chain) THEN Good(Zeros(n), st)
    ELSE LET d == chain[i] IN
         CASE d.fmt = "data" -> Read(chain, i + 1, off, n, st)
           [] d.fmt \in {"raw", "fixed"} -> RawSectors(chain, i, off, n, st)
           [] d.fmt = "flat" -> Flat(chain, i, off, n, st)
           [] d.fmt = "vhd" -> Vhd(chain, i, off, n, st)
           [] d.fmt = "vhdx" -> Vhdx(chain, i, off, n, st)
           [] d.fmt = "vdi" -> Vdi(chain, i, off, n, st)
           [] d.fmt \in {"qcow2", "vmdk", "parallels", "qcow1", "dmg"} ->
                CASE Crosses(d, off, n) -> Split(chain, i, off, n, st)
                  [] ~Crosses(d, off, n) ->
                     CASE d.fmt = "qcow2" -> Qcow2(chain, i, off, n, st)
                       [] d.fmt = "vmdk" -> Vmdk(chain, i, off, n, st)
                       [] d.fmt = "parallels" -> Parallels(chain, i, off, n, st)
                       [] d.fmt = "qcow1" -> Qcow1(chain, i, off, n, st)
                       [] d.fmt = "dmg" -> Dmg(chain, i, off, n, st)

\* read_chain_virtual_range, and the piece loops of the writers: reads of at
\* most step units, none past a multiple of top.
RECURSIVE Gather(_, _, _, _, _, _)
Gather(chain, off, n, top, step, st) ==
    LET rest(piece, a) ==
            IF ~a.ok \/ piece = n THEN a
            ELSE Then(a, Gather(chain, off + piece, n - piece, top, step, a.st))
        first(piece) == rest(piece, Read(chain, 1, off, piece, st))
    IN first(Min({step, n, top - (off % top)}))

(***************************************************************************)
(* What a guest sees at one offset, without chunks, splits or buffers: the *)
(* first layer that holds the unit gives it.                               *)
(***************************************************************************)
Layer(chain, i, v) ==
    LET d == chain[i] IN
    CASE d.fmt = "qcow2" -> ClusterLookup(chain, i, v)
      [] d.fmt = "vmdk" -> GrainLookup(d, v)
      [] d.fmt = "vhd" -> VhdLookup(d, v)
      [] d.fmt = "vhdx" -> VhdxLookup(d, v)
      [] d.fmt = "vdi" -> VdiLookup(d, v)
      [] d.fmt = "parallels" -> ParallelsLookup(d, v)
      [] d.fmt = "qcow1" -> Qcow1Lookup(d, v)
      [] d.fmt = "dmg" -> DmgLookup(d, v)
RECURSIVE ChainByte(_, _, _)
ChainByte(chain, i, v) ==
    IF i > Len(chain) THEN Zero
    ELSE LET d == chain[i]
             below == ChainByte(chain, i + 1, v)
         IN CASE d.fmt = "data" -> below
              [] d.fmt \in {"raw", "fixed"} -> InFile(chain, i, v)
              [] d.fmt = "flat" ->
                   LET x == ExtentsAt(chain, i, v)
                   IN IF x = {} THEN Zero
                      ELSE InFile(chain, Min(x), v - ExtentStart(chain, i, Min(x)))
              [] OTHER ->
                   LET g == (v % d.cs) \div d.gr
                       shared(l) == \/ l.k \in {"sub", "part"}
                                    \/ d.fmt = "vhd" /\ d.diff /\ l.k = "std"
                       shown(l) ==
                         CASE l.k \in {"bad", "gap"} -> Refused
                           [] l.k = "zero" -> Zero
                           [] l.k = "none" \/ (shared(l) /\ g \notin l.e.own) ->
                                CASE d.fmt = "parallels" -> Zero
                                  [] g \in l.e.zero -> Zero
                                  [] d.diff /\ i = Len(chain) -> Refused
                                  [] OTHER -> below
                           [] OTHER -> InFile(chain, d.data, l.at)
                   IN shown(Layer(chain, i, v))
=============================================================================
