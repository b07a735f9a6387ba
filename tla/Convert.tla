------------------------------ MODULE Convert ------------------------------
(***************************************************************************)
(* instar convert and dd: the guest copies a window of an input chain into *)
(* a new file of the target format, sector by sector, and the host sets    *)
(* the file's final length.  A step is one iteration of a writer's loop or *)
(* one sector reaching the output device; the guest may be stopped between *)
(* any two of them.                                                        *)
(***************************************************************************)
EXTENDS ChainRead, SequencesExt

CONSTANTS
    Jobs,        \* what may be asked for
    Small,       \* the 512-byte sector
    Big,         \* MAX_SECTOR_SIZE
    OutCluster,  \* cluster size of a qcow2 output
    L2Entries,   \* entries of one of its L2 tables
    Grain,       \* grain size of a vmdk output
    GtEntries,   \* entries of one of its grain tables
    VBlock,      \* block size of a vhd or vhdx output
    MbAlign,     \* alignment of vhdx regions and blocks
    ChsUnit,     \* what a vhd size is rounded up to
    Headroom,    \* capacity beyond the data a structured output gets
    CompLens,    \* lengths a compressor may return, 0 for none
    MaxCounts    \* host clusters the compressing writer can count

(***************************************************************************)
(* A job is a record: chain the input, fmt the target, start and len the   *)
(* window, skip whether zeros are left out, dd whether it is a windowed    *)
(* copy, ss the sector size asked for.                                     *)
(***************************************************************************)
VARIABLES
    job,    \* the job
    w,      \* the writer's own state: see Start
    st,     \* the reader's staging buffer
    todo,   \* sectors on their way to the device, in order
    dev,    \* what the output device holds
    size,   \* the length of the output file
    phase   \* "copy", "closing", "done", "ok", "failed", "halted"

vars == <<job, w, st, todo, dev, size, phase>>

CeilDiv(a, b) == (a + b - 1) \div b
AlignUp(a, b) == CeilDiv(a, b) * b
Padded(s, n) == s \o Zeros(n - Len(s))
AllZero(s) == \A j \in DOMAIN s : s[j] = Zero
\* What a cell of the output may hold besides data.
Ones == <<3, 0, 0>>
Plain(pos, zero) == <<2, pos, zero>>
Packed(pos, len) == <<5, pos, len>>
Deflated(b, len) == [x \in 1..len |-> <<6, b, x>>]
Counts(a, b) == <<7, a, b>>
Bits(own) == <<11, own, 0>>
Marker(len) == <<10, len, 0>>
Header(fields) == <<4, fields, 0>>

Raw == {"raw", "flat"}
Qcow2Out == {"qcow2", "extl2", "qcow2c"}
\* execute_convert: the sector size the output device offers.
Oss(j) == CASE j.fmt \in {"qcow2c", "vmdkc"} -> Small
            [] j.fmt \in {"qcow2", "extl2"} -> Min({j.ss, OutCluster})
            [] OTHER -> j.ss
ChsRounded(n) == AlignUp(n, ChsUnit)
\* _start: the size each writer declares.
Declared(j) == IF j.fmt = "vhd"
               THEN (IF j.dd THEN ChsRounded(j.len) ELSE j.len)
               ELSE AlignUp(j.len, Small)
UnitSize(j) == CASE j.fmt \in Qcow2Out -> OutCluster
                 [] j.fmt \in {"vmdk", "vmdkc"} -> Grain
                 [] OTHER -> VBlock
Units(j) == CeilDiv(Declared(j), UnitSize(j))

\* vhdx::layout.
BatIndex(k) == 2 * k   \* a sector bitmap slot after every payload entry
VhdxBatEntries(j) == IF Units(j) = 0 THEN 0 ELSE BatIndex(Units(j) - 1) + 1
VhdxLog == AlignUp(5 * Big, MbAlign)
VhdxBat == VhdxLog + MbAlign
VhdxMeta(j) == VhdxBat + Max({MbAlign, AlignUp(VhdxBatEntries(j), MbAlign)})
VhdxData(j) == VhdxMeta(j) + MbAlign
VhdxFixedData(j) == VhdxMeta(j) + 5 * MbAlign
VhdxFixedLen(j) == VhdxFixedData(j) + Declared(j)

\* compute_output_capacity, and the rounding of a raw output's last sector.
OutputCapacity(j) ==
    LET n == IF j.fmt = "vhd" THEN Declared(j) ELSE j.len
    IN CASE j.fmt \in Raw -> AlignUp(j.len, j.ss)
         [] j.fmt = "vhdxf" -> VhdxFixedLen(j)
         [] j.fmt = "vhdx" -> VhdxData(j) + Units(j) * VBlock
         [] j.fmt = "vhd" -> n + CeilDiv(n, VBlock) * Big + Headroom
         [] OTHER -> n + Headroom
\* The device offers its capacity in whole sectors, rounded up, and the file
\* refuses a write past the capacity itself.
DeviceSectors(j) == CeilDiv(OutputCapacity(j), Oss(j))

\* write_bytes_to_output: the buffer's sectors from the one the offset is in,
\* whatever the buffer holds past the count.
SectorsOf(j, at, cells) ==
    LET oss == Oss(j)
        full == cells \o [x \in 1..(AlignUp(Len(cells), oss) - Len(cells)) |-> Stale]
    IN [s \in 1..(Len(full) \div oss) |->
          [sector |-> (at \div oss) + s - 1,
           cells |-> SubSeq(full, (s - 1) * oss + 1, s * oss)]]
Put(j, writes) == FlattenSeq([x \in DOMAIN writes |->
                                SectorsOf(j, writes[x].at, writes[x].cells)])
At(at, cells) == [at |-> at, cells |-> cells]

\* One cluster of the top device, or a sector of a device without clusters.
TopCluster(j) == IF j.chain[1].cs > 0 THEN j.chain[1].cs ELSE j.ss
\* read_chain_virtual_range at an offset of the window.
Window(j, off, n, s) ==
    LET top == IF j.chain[1].cs > 0 THEN j.chain[1].cs ELSE n
    IN IF n = 0 THEN Good(<<>>, s)
       ELSE Gather(j.chain, j.start + off, n, top, Min({top, n}), s)
\* The piece loops of the qcow2 writers.
Pieces(j, off, n, s) ==
    IF n = 0 THEN Good(<<>>, s)
    ELSE Gather(j.chain, j.start + off, n, TopCluster(j),
                Min({TopCluster(j), OutCluster}), s)
\* How much of unit k the window has.
Span(j, k) == Max({0, Min({UnitSize(j), j.len - k * UnitSize(j)})})

(***************************************************************************)
(* The writers.  Each takes the writer's state w and gives the next one    *)
(* with the writes it makes: w.k the units done (for a raw output, the     *)
(* units of the window read), w.next the next free place, w.tab the table  *)
(* being filled, w.at its place, w.top the table above, w.rc the tracked   *)
(* reference counts, w.acc what a raw output has gathered.                 *)
(***************************************************************************)
Step(v, puts) == [w |-> v, puts |-> puts]

\* convert_to_raw: one chunk.  Whole sectors are written and the remainder is
\* carried to the front of the buffer; the last one is padded.
RawSpan(j, off, held) ==
    Min({TopCluster(j), Big, j.len - off, Max({Big, OutCluster}) - held,
         TopCluster(j) - ((j.start + off) % TopCluster(j))})
RawChunk(j, v, b) ==
    LET acc == v.acc \o b
        ends == v.k + Len(b) >= j.len
        n == IF ends THEN AlignUp(Len(acc), Oss(j)) ELSE Len(acc) - (Len(acc) % Oss(j))
        read == [v EXCEPT !.k = @ + Len(b), !.acc = acc]
    IN CASE Len(acc) < Oss(j) /\ ~ends -> Step(read, <<>>)
         [] (Len(acc) >= Oss(j) \/ ends) /\ j.skip /\ AllZero(acc) ->
              Step([read EXCEPT !.acc = <<>>, !.next = @ + Len(acc)], <<>>)
         [] (Len(acc) >= Oss(j) \/ ends) /\ ~(j.skip /\ AllZero(acc)) ->
              Step([read EXCEPT !.acc = SubSeq(acc, n + 1, Len(acc)), !.next = @ + n],
                   <<At(v.next, SubSeq(Padded(acc, n), 1, n))>>)

PerTable(j) == CASE j.fmt = "extl2" -> L2Entries \div 2
                 [] j.fmt \in {"qcow2", "qcow2c"} -> L2Entries
                 [] j.fmt \in {"vmdk", "vmdkc"} -> GtEntries
                 [] OTHER -> Max({1, Units(j)})
Tables(j) == CeilDiv(Units(j), PerTable(j))
Width(j) == IF j.fmt \in Qcow2Out THEN OutCluster \div PerTable(j) ELSE 1
TopWidth == OutCluster \div L2Entries
L1Clusters(j) == Max({1, CeilDiv(Tables(j) * TopWidth, OutCluster)})
TabLen(j) == IF j.fmt \in Qcow2Out THEN OutCluster ELSE AlignUp(GtEntries, Oss(j))
TopLen(j) == CASE j.fmt \in Qcow2Out -> L1Clusters(j) * OutCluster
               [] j.fmt \in {"vmdk", "vmdkc"} -> Tables(j)
               [] j.fmt = "vhd" -> Units(j)
               [] OTHER -> VhdxBatEntries(j)
\* The table buffer is cleared for each new table: a grain table's by one
\* output sector, a stream-optimized one's by a whole buffer.
FreshTable(j, tab) ==
    [x \in 1..TabLen(j) |-> IF j.fmt = "vmdk" /\ x > Oss(j) THEN tab[x] ELSE Zero]
Slot(j, v) == (v.k % PerTable(j)) * Width(j) + 1

\* inc_refcount.
Bump(rc, hosts) ==
    [h \in DOMAIN rc |-> IF h \in hosts THEN rc[h] + 1 ELSE rc[h]]
\* compute_subcluster_bitmap.
Bitmap(b) == Bits({x \in DOMAIN b : b[x] # Zero})

\* One cluster of convert_to_qcow2: the table's place is taken before the
\* place of its first cluster.
Qcow2Unit(j, v, b) ==
    LET fresh == v.at = NoPlace
        at == IF fresh THEN v.next + OutCluster ELSE v.next
        full == Padded(b, OutCluster)
        tab == [v.tab EXCEPT ![Slot(j, v)] = Plain(at, 0)]
    IN Step([v EXCEPT !.at = IF fresh THEN v.next ELSE @, !.next = at + OutCluster,
                      !.tab = IF j.fmt = "extl2"
                              THEN [tab EXCEPT ![Slot(j, v) + 1] = Bitmap(full)] ELSE tab],
            <<At(at, full)>>)

HostsFirst(at, n) == {at \div OutCluster}
Hosts(at, n) == (at \div OutCluster)..((at + n - 1) \div OutCluster)
\* One cluster of convert_to_qcow2_compressed: packed at the write position,
\* or, when it does not shrink, at the next cluster boundary.
Qcow2Packed(j, v, b, len) ==
    LET full == Padded(b, OutCluster)
        n == AlignUp(len, Small)
        at == IF len > 0 THEN v.next ELSE AlignUp(v.next, OutCluster)
        took == IF len > 0 THEN n ELSE OutCluster
    IN Step([v EXCEPT !.at = 0, !.next = at + took, !.rc = Bump(@, Hosts(at, took)),
                      !.tab[Slot(j, v)] = IF len > 0 THEN Packed(at, len) ELSE Plain(at, 0)],
            <<At(at, IF len > 0 THEN Padded(Deflated(full, len), n) ELSE full)>>)

\* One grain of convert_to_vmdk.
VmdkUnit(j, v, b) ==
    LET fresh == v.at = NoPlace
        gt == IF fresh THEN AlignUp(v.next, Oss(j)) ELSE v.at
        at == AlignUp(IF fresh THEN gt + AlignUp(GtEntries, Oss(j)) ELSE v.next, Oss(j))
    IN Step([v EXCEPT !.at = gt, !.next = at + AlignUp(Grain, Oss(j)),
                      !.tab[Slot(j, v)] = Plain(at, 0)],
            <<At(at, Padded(b, Grain))>>)

\* One grain of convert_to_vmdk_compressed: a marker and the deflated grain.
VmdkPacked(j, v, b, len) ==
    LET n == AlignUp(1 + len, Small)
    IN Step([v EXCEPT !.at = 0, !.next = @ + n, !.tab[Slot(j, v)] = Plain(v.next, 0)],
            <<At(v.next, Padded(<<Marker(len)>> \o Deflated(Padded(b, Grain), len), n))>>)

\* The end of a table: written if it has an entry, and entered above.
TableClosed(j, v) ==
    LET g == (v.k \div PerTable(j))
        l2 == AlignUp(v.next, OutCluster)
        gt == AlignUp(v.next, Small)
    IN CASE v.at = NoPlace -> Step(v, <<>>)
         [] v.at # NoPlace /\ j.fmt \in {"qcow2", "extl2"} ->
              Step([v EXCEPT !.at = NoPlace, !.top[g * TopWidth + 1] = Plain(v.at, 0)],
                   <<At(v.at, v.tab)>>)
         [] v.at # NoPlace /\ j.fmt = "qcow2c" ->
              Step([v EXCEPT !.at = NoPlace, !.top[g * TopWidth + 1] = Plain(l2, 0),
                             !.rc = Bump(@, Hosts(l2, OutCluster)), !.next = l2 + OutCluster],
                   <<At(l2, v.tab)>>)
         [] v.at # NoPlace /\ j.fmt = "vmdk" ->
              Step([v EXCEPT !.at = NoPlace, !.top[g + 1] = Plain(v.at, 0)],
                   <<At(v.at, v.tab)>>)
         [] v.at # NoPlace /\ j.fmt = "vmdkc" ->
              Step([v EXCEPT !.at = NoPlace, !.top[g + 1] = Plain(gt + Small, 0),
                             !.next = gt + Small + TabLen(j)],
                   <<At(gt, Padded(<<Marker(0)>>, Small)), At(gt + Small, v.tab)>>)

\* Chunks of at most a buffer, as the vhd and vhdx writers read a block.
RECURSIVE Chunks(_, _, _, _), Scan(_, _, _, _), Stream(_, _, _, _, _, _, _)
Chunks(j, off, end, s) ==
    IF off >= end THEN Good(<<>>, s)
    ELSE LET rest(a) == IF a.ok THEN Then(a, Chunks(j, off + Big, end, a.st)) ELSE a
         IN rest(Window(j, off, Min({Big, end - off}), s))
\* The first pass over a block, up to the first chunk that is not zero.
ScanFirst(j, off, end, s) ==
    LET rest(a) == IF off < end /\ ~AllZero(a.bytes) THEN a ELSE Good(<<>>, s)
    IN rest(Window(j, off, Min({Big, end - off}), s))
Scan(j, off, end, s) ==
    IF off >= end THEN Good(<<>>, s)
    ELSE LET rest(a) == IF a.ok /\ AllZero(a.bytes)
                        THEN Scan(j, off + Big, end, a.st) ELSE a
         IN rest(Window(j, off, Min({Big, end - off}), s))
\* The second pass of convert_to_vhd: the bitmap shifts the data, so a buffer
\* is what the last read left over and what fits of the next.
Stream(j, base, n, left, head, got, s) ==
    LET space == Big - Len(head)
        want == IF space > 0 THEN Min({Big, n - got}) ELSE 0
        fits == Min({space, want})
        rest(a) == IF ~a.ok THEN a
                   ELSE Then(Good(Padded(head \o SubSeq(a.bytes, 1, fits), Big), a.st),
                             Stream(j, base, n, left - 1, SubSeq(a.bytes, fits + 1, want),
                                    got + want, a.st))
    IN IF left = 0 THEN Good(<<>>, s) ELSE rest(Window(j, base + got, want, s))

VhdBat(j) == AlignUp(AlignUp(Small, Oss(j)) + 2 * Small, Oss(j))
VhdBlock(j, v, s) ==
    LET at == AlignUp(v.next, Oss(j))
        took == AlignUp(Small + VBlock, Oss(j))
        placed(a) ==
            [read |-> a, w |-> [v EXCEPT !.next = at + took, !.top[v.k + 1] = Plain(at, 0)],
             puts |-> <<At(at, a.bytes)>>]
    IN placed(Stream(j, v.k * VBlock, Span(j, v.k), took \div Oss(j),
                     [x \in 1..Small |-> Ones], 0, s))

VhdxBlock(j, v, s) ==
    LET fixed == j.fmt = "vhdxf"
        at == IF fixed THEN VhdxFixedData(j) + v.k * VBlock ELSE AlignUp(v.next, MbAlign)
        n == Span(j, v.k)
        pad == AlignUp(at + n, Oss(j))
        placed(a) ==
            [read |-> a,
             w |-> IF fixed THEN v
                   ELSE [v EXCEPT !.next = at + VBlock,
                                  !.top[BatIndex(v.k) + 1] = Plain(at, 0)],
             puts |-> <<At(at, Padded(a.bytes, AlignUp(n, Oss(j))))>>
                      \o (IF fixed \/ pad >= at + VBlock THEN <<>>
                          ELSE <<At(pad, Zeros(at + VBlock - pad))>>)]
    IN placed(Chunks(j, v.k * VBlock, v.k * VBlock + n, s))

\* What is written before the first block, with the tables still empty.
VhdxPrologue(j) ==
    LET items == At(VhdxMeta(j) + Big, Padded(<<Header(<<"items", Declared(j)>>)>>, Oss(j)))
        table == At(VhdxMeta(j), Padded(<<Header(<<"metadata">>)>>, Big))
        entry(x) == IF x % 2 = 1 /\ x <= VhdxBatEntries(j)
                    THEN Plain(VhdxFixedData(j) + (x \div 2) * VBlock, 0) ELSE Zero
        bat == At(VhdxBat, [x \in 1..AlignUp(VhdxBatEntries(j), Oss(j)) |->
                              IF j.fmt = "vhdxf" THEN entry(x) ELSE Zero])
    IN <<At(0, Padded(<<Header(<<"vhdx">>)>>, Big)),
         At(Big, Padded(<<Header(<<1>>)>>, Big)),
         At(2 * Big, Padded(<<Header(<<2>>)>>, Big)),
         At(3 * Big, Padded(<<Header(<<VhdxBat, VhdxMeta(j)>>)>>, Big)),
         At(4 * Big, Padded(<<Header(<<VhdxBat, VhdxMeta(j)>>)>>, Big)),
         At(VhdxLog, Zeros(Oss(j)))>>
       \o (IF j.fmt = "vhdxf" THEN <<table, items, bat>> ELSE <<bat, table, items>>)
VhdFooter(j) == Padded(<<Header(<<"vhd", Declared(j)>>)>>, AlignUp(Small, Oss(j)))
VhdPrologue(j) ==
    <<At(0, VhdFooter(j)),
      At(AlignUp(Small, Oss(j)),
         Padded(<<Header(<<VhdBat(j), Units(j)>>)>>, AlignUp(2 * Small, Oss(j)))),
      At(VhdBat(j), [x \in 1..AlignUp(Units(j), Oss(j)) |-> Ones])>>
Prologue(j) == CASE j.fmt = "vhd" -> VhdPrologue(j)
                 [] j.fmt \in {"vhdx", "vhdxf"} -> VhdxPrologue(j)
                 [] OTHER -> <<>>

\* calculate_refcount_layout: the blocks count the clusters they themselves
\* take, ten rounds at most.
RefcountLayout(used) ==
    LET round[i \in 0..10] ==
          IF i = 0 THEN [table |-> 1, blocks |-> 1]
          ELSE LET r == round[i - 1]
                   blocks == CeilDiv(used + r.table + r.blocks, 2 * OutCluster)
               IN [table |-> CeilDiv(blocks * TopWidth, OutCluster), blocks |-> blocks]
    IN round[10]

\* write_qcow2_metadata: top table, count blocks, count table, header.
Qcow2Metadata(j, v) ==
    LET C == OutCluster
        l1 == v.next
        used == (l1 \div C) + L1Clusters(j)
        lay == RefcountLayout(used)
        rt == used * C
        rb == rt + lay.table * C
        total == used + lay.table + lay.blocks
        rc == Bump(v.rc, {0} \cup (l1 \div C)..(total - 1))
        count(c) == CASE c >= total -> 0
                      [] c < total /\ j.fmt = "qcow2c" /\ c < MaxCounts -> rc[c]
                      [] c < total /\ ~(j.fmt = "qcow2c" /\ c < MaxCounts) -> 1
    IN <<At(l1, v.top),
         At(rb, [x \in 1..(lay.blocks * C) |-> Counts(count(2 * x - 2), count(2 * x - 1))]),
         At(rt, [x \in 1..(lay.table * C) |->
                   IF (x - 1) % TopWidth = 0 /\ (x - 1) \div TopWidth < lay.blocks
                   THEN Plain(rb + ((x - 1) \div TopWidth) * C, 0) ELSE Zero]),
         At(0, Padded(<<Header(<<l1, rt, lay.table, Declared(j)>>)>>, C))>>

VmdkHeader(j, gd) == Padded(<<Header(<<gd, Declared(j)>>)>>, Small)
VmdkDescriptor == Padded(<<Header(<<"descriptor">>)>>, Small)
VmdkClose(j, v) ==
    LET oss == Oss(j)
        gd == AlignUp(v.next, oss)
        hdr == VmdkHeader(j, gd)
    IN <<At(gd, Padded(v.top, Max({oss, AlignUp(Tables(j), oss)})))>>
       \o (IF oss >= 2 * Small THEN <<At(0, Padded(hdr \o VmdkDescriptor, oss))>>
           ELSE <<At(0, hdr), At(Small, VmdkDescriptor)>>)

\* The stream-optimized tail: the directory, padding that leaves the file a
\* whole number of buffers long, footer and end marker; then the header, which
\* says that the directory is found from the end.
VmdkPackedClose(j, v) ==
    LET gd == AlignUp(v.next, Small) + Small
        dir == Padded(v.top, Max({Small, AlignUp(Tables(j), Small)}))
        end == gd + Len(dir)
        pad == AlignUp(end + 3 * Small, Big) - (end + 3 * Small)
    IN <<At(gd - Small, Padded(<<Marker(0)>>, Small)), At(gd, dir),
         At(end, Zeros(pad)),
         At(end + pad, Padded(<<Marker(0)>>, Small)),
         At(end + pad + Small, VmdkHeader(j, gd)),
         At(end + pad + 2 * Small, Zeros(Small)),
         At(0, VmdkHeader(j, NoPlace)),
         At(Small, VmdkDescriptor)>>

BatSectors(j, v, fill) ==
    [x \in 1..AlignUp(TopLen(j), Oss(j)) |-> IF x <= TopLen(j) THEN v.top[x] ELSE fill]
VhdClose(j, v) ==
    <<At(VhdBat(j), BatSectors(j, v, Ones)), At(AlignUp(v.next, Oss(j)), VhdFooter(j))>>
VhdxClose(j, v) ==
    (IF v.k = 0 THEN <<At(VhdxData(j) - Oss(j), Zeros(Oss(j)))>> ELSE <<>>)
    \o <<At(VhdxBat, BatSectors(j, v, Zero))>>
Epilogue(j, v) == CASE j.fmt \in Qcow2Out -> Qcow2Metadata(j, v)
                    [] j.fmt = "vmdk" -> VmdkClose(j, v)
                    [] j.fmt = "vmdkc" -> VmdkPackedClose(j, v)
                    [] j.fmt = "vhd" -> VhdClose(j, v)
                    [] j.fmt = "vhdx" -> VhdxClose(j, v)
                    [] OTHER -> <<>>

(***************************************************************************)
(* One unit of a writer's loop: read, skipped if zero, placed.             *)
(***************************************************************************)
Grouped(j, v, s, len) ==
    LET u == IF v.k % PerTable(j) = 0 THEN [v EXCEPT !.tab = FreshTable(j, @)] ELSE v
        place(a) == CASE ~a.ok \/ (j.skip /\ AllZero(a.bytes)) -> Step(u, <<>>)
                      [] OTHER -> CASE j.fmt \in {"qcow2", "extl2"} -> Qcow2Unit(j, u, a.bytes)
                                    [] j.fmt = "qcow2c" -> Qcow2Packed(j, u, a.bytes, len)
                                    [] j.fmt = "vmdk" -> VmdkUnit(j, u, a.bytes)
                                    [] j.fmt = "vmdkc" -> VmdkPacked(j, u, a.bytes, len)
        last == (v.k + 1) % PerTable(j) = 0 \/ v.k + 1 = Units(j)
        close(x) == IF last THEN TableClosed(j, x) ELSE Step(x, <<>>)
        failed(puts) == j.fmt = "vmdkc" /\ len = 0 /\ puts # <<>>
        both(a, placed, closed) ==
            [ok |-> a.ok /\ ~failed(placed.puts), st |-> a.st, w |-> closed.w,
             puts |-> placed.puts \o closed.puts]
        filled(a, placed) == both(a, placed, close(placed.w))
        entered(a) == filled(a, place(a))
    IN entered(IF j.fmt \in Qcow2Out THEN Pieces(j, v.k * OutCluster, Span(j, v.k), s)
               ELSE Window(j, v.k * Grain, Span(j, v.k), s))
Blocked(j, v, s) ==
    LET wrote(r) == [ok |-> r.read.ok, st |-> r.read.st, w |-> r.w, puts |-> r.puts]
        then(scan) ==
            IF ~scan.ok \/ (scan.bytes = <<>> /\ (j.skip \/ j.fmt = "vhdxf"))
            THEN [ok |-> scan.ok, st |-> scan.st, w |-> v, puts |-> <<>>]
            ELSE wrote(IF j.fmt = "vhd" THEN VhdBlock(j, v, scan.st)
                       ELSE VhdxBlock(j, v, scan.st))
    IN then(Scan(j, v.k * VBlock, v.k * VBlock + Span(j, v.k), s))
Compresses(j) == j.fmt \in {"qcow2c", "vmdkc"}

FirstFree(j) == CASE j.fmt \in Qcow2Out -> OutCluster
                  [] j.fmt \in {"vmdk", "vmdkc"} -> AlignUp(2 * Small, Oss(j))
                  [] j.fmt = "vhd" -> VhdBat(j) + AlignUp(Units(j), Oss(j))
                  [] j.fmt \in {"vhdx", "vhdxf"} -> VhdxData(j)
                  [] j.fmt \in Raw -> 0
Start(j) ==
    [k |-> 0, acc |-> <<>>, at |-> NoPlace, next |-> FirstFree(j),
     tab |-> IF j.fmt \in Qcow2Out \cup {"vmdk", "vmdkc"}
             THEN [x \in 1..TabLen(j) |-> Stale] ELSE <<>>,
     top |-> IF j.fmt \in Raw THEN <<>>
             ELSE [x \in 1..TopLen(j) |-> IF j.fmt = "vhd" THEN Ones ELSE Zero],
     rc |-> [c \in 0..(IF j.fmt = "qcow2c" THEN MaxCounts - 1 ELSE -1) |-> 0]]
\* BackingStore::open: a dense raw output and a fixed vhdx are as long as the
\* device from the start.
Allocated(j) == IF j.fmt = "vhdxf" \/ (j.fmt \in Raw /\ ~j.skip)
                THEN OutputCapacity(j) ELSE 0
Init ==
    /\ job \in Jobs
    /\ w = Start(job)
    /\ st = FreshStaging
    /\ todo = Put(job, Prologue(job))
    /\ dev = [u \in 0..(DeviceSectors(job) * Oss(job) - 1) |-> Zero]
    /\ size = Allocated(job)
    /\ phase = "copy"

Running == phase \in {"copy", "closing"}
Chunk ==
    /\ phase = "copy" /\ todo = <<>> /\ job.fmt \in Raw /\ w.k < job.len
    /\ \E a \in {Read(job.chain, 1, job.start + w.k, RawSpan(job, w.k, Len(w.acc)), st)} :
         IF a.ok
         THEN \E r \in {RawChunk(job, w, a.bytes)} :
                /\ w' = r.w /\ st' = a.st /\ todo' = Put(job, r.puts)
                /\ UNCHANGED <<job, dev, size, phase>>
         ELSE phase' = "failed" /\ UNCHANGED <<job, w, st, todo, dev, size>>
Block ==
    /\ phase = "copy" /\ todo = <<>> /\ job.fmt \notin Raw /\ w.k < Units(job)
    /\ \E len \in IF Compresses(job) THEN CompLens ELSE {0} :
       \E r \in {IF job.fmt \in {"vhd", "vhdx", "vhdxf"} THEN Blocked(job, w, st)
                 ELSE Grouped(job, w, st, len)} :
         IF r.ok
         THEN /\ w' = [r.w EXCEPT !.k = @ + 1] /\ st' = r.st
              /\ todo' = Put(job, r.puts)
              /\ UNCHANGED <<job, dev, size, phase>>
         ELSE phase' = "failed" /\ UNCHANGED <<job, w, st, todo, dev, size>>
Close ==
    /\ phase = "copy" /\ todo = <<>>
    /\ w.k >= IF job.fmt \in Raw THEN job.len ELSE Units(job)
    /\ phase' = "closing"
    /\ todo' = Put(job, Epilogue(job, w))
    /\ UNCHANGED <<job, w, st, dev, size>>

\* write_output_sector, and BackingStore::write_at behind it.
Write ==
    /\ Running /\ todo # <<>>
    /\ LET t == Head(todo)
           from == t.sector * Oss(job)
           end == from + Oss(job)
       IN IF t.sector < DeviceSectors(job) /\ end <= OutputCapacity(job)
          THEN /\ dev' = [u \in DOMAIN dev |-> IF u \in from..(end - 1)
                                               THEN t.cells[u - from + 1] ELSE dev[u]]
               /\ size' = Max({size, end})
               /\ todo' = Tail(todo)
               /\ UNCHANGED <<job, w, st, phase>>
          ELSE /\ phase' = IF job.fmt \in Raw /\ t.sector >= DeviceSectors(job)
                           THEN phase ELSE "failed"
               /\ todo' = <<>>
               /\ UNCHANGED <<job, w, st, dev, size>>

\* run_convert, once the guest has stopped: the length of the file.
FinalSize(j, n) == CASE j.fmt = "flat" -> j.len
                     [] j.fmt = "raw" /\ j.dd -> AlignUp(j.len, j.ss)
                     [] j.fmt = "raw" /\ ~j.dd /\ j.skip -> j.len
                     [] OTHER -> n
Complete ==
    /\ phase = "closing" /\ todo = <<>>
    /\ phase' = "ok"
    /\ size' = FinalSize(job, size)
    /\ UNCHANGED <<job, w, st, todo, dev>>
\* A read or a write fails.
Fault ==
    /\ Running
    /\ phase' = "failed"
    /\ UNCHANGED <<job, w, st, todo, dev, size>>
\* The guest stops short of its completion message: the host still sets the
\* length, unless it is the host that was stopped.
Halt ==
    /\ Running
    /\ phase' = "halted"
    /\ size' \in {size, FinalSize(job, size)}
    /\ UNCHANGED <<job, w, st, todo, dev>>

Next == Chunk \/ Block \/ Close \/ Write \/ Complete \/ Fault \/ Halt
Spec == Init /\ [][Next]_vars

(***************************************************************************)
(* Reading the output back.                                                *)
(***************************************************************************)
Cell(u) == IF u < size /\ u \in DOMAIN dev THEN dev[u] ELSE Zero
Names(c) == c[1] \in {2, 5}
Fields == Cell(0)[2]
Footer == Cell(size - 2 * Small)
Readable ==
    CASE job.fmt \in Raw -> TRUE
      [] job.fmt \in Qcow2Out \cup {"vmdk"} -> Cell(0)[1] = 4
      [] job.fmt = "vmdkc" -> Cell(0)[1] = 4 /\ Footer[1] = 4
      [] job.fmt = "vhd" -> \A u \in {0, AlignUp(Small, Oss(job))} : Cell(u)[1] = 4
      [] job.fmt \in {"vhdx", "vhdxf"} ->
           \A u \in {0, Big, 3 * Big, VhdxMeta(job), VhdxMeta(job) + Big} : Cell(u)[1] = 4
Inflated(at, len, x) ==
    LET b == Cell(at)[2]
    IN IF len > 0 /\ \A y \in 0..(len - 1) : Cell(at + y) = <<6, b, y + 1>>
       THEN b[x + 1] ELSE Stale
\* The entry of unit k in its table, and of its table above.
TopEntry(k) ==
    LET g == k \div PerTable(job)
    IN CASE job.fmt \in Qcow2Out -> Cell(Fields[1] + g * TopWidth)
         [] job.fmt = "vmdk" -> Cell(Fields[1] + g)
         [] job.fmt = "vmdkc" -> Cell(Footer[2][1] + g)
TableCell(k) == TopEntry(k)[2] + (k % PerTable(job)) * Width(job)
UnitEntry(k) ==
    CASE job.fmt = "vhd" -> Cell(VhdBat(job) + k)
      [] job.fmt \in {"vhdx", "vhdxf"} -> Cell(VhdxBat + BatIndex(k))
      [] OTHER -> IF Names(TopEntry(k)) THEN Cell(TableCell(k)) ELSE Zero
OutByte(v) ==
    LET k == v \div UnitSize(job)
        x == v % UnitSize(job)
        e == UnitEntry(k)
    IN IF job.fmt \in Raw THEN Cell(v)
       ELSE IF ~Names(e) THEN Zero
       ELSE CASE e[1] = 5 -> Inflated(e[2], e[3], x)
              [] e[1] = 2 /\ job.fmt = "vmdkc" -> Inflated(e[2] + 1, Cell(e[2])[2], x)
              [] e[1] = 2 /\ job.fmt = "vhd" -> Cell(e[2] + Small + x)
              [] e[1] = 2 /\ job.fmt = "extl2" ->
                   IF (x + 1) \in Cell(TableCell(k) + 1)[2] THEN Cell(e[2] + x) ELSE Zero
              [] e[1] = 2 /\ job.fmt \notin {"vmdkc", "vhd", "extl2"} -> Cell(e[2] + x)
Want(v) == IF v < job.len THEN ChainByte(job.chain, 1, job.start + v) ELSE Zero
\* Every reference to a host cluster of a qcow2 output.
References ==
    LET C == OutCluster
        rt == Fields[2]
        top == {g \in 0..(Tables(job) - 1) : Names(Cell(Fields[1] + g * TopWidth))}
        mapped == {k \in 0..(Units(job) - 1) : Names(UnitEntry(k))}
        blocks == {x \in 0..(Fields[3] * L2Entries - 1) : Names(Cell(rt + x * TopWidth))}
        last(e) == e[2] + (IF e[1] = 5 THEN AlignUp(e[3], Small) ELSE C) - 1
    IN {<<0, 0, 0>>}
       \cup {<<1, x, (Fields[1] \div C) + x>> : x \in 0..(L1Clusters(job) - 1)}
       \cup {<<2, x, (rt \div C) + x>> : x \in 0..(Fields[3] - 1)}
       \cup {<<3, x, Cell(rt + x * TopWidth)[2] \div C>> : x \in blocks}
       \cup {<<4, g, Cell(Fields[1] + g * TopWidth)[2] \div C>> : g \in top}
       \cup UNION {{<<5, k, u \div C>> : u \in UnitEntry(k)[2]..last(UnitEntry(k))} :
                      k \in mapped}
CountOf(c) ==
    LET per == 2 * OutCluster
        e == Cell(Fields[2] + (c \div per) * TopWidth)
    IN IF Names(e) THEN Cell(e[2] + ((c % per) \div 2))[2 + (c % 2)] ELSE 0

\* A conversion that reports success has copied its window: every unit of the
\* declared size reads back from the output, through its own tables, as the
\* input chain's first layer that holds it, whatever chunks, splits, carries
\* and buffers it went through, and a raw file has the length promised.
ConvertedExact ==
    phase = "ok" =>
      /\ Readable
      /\ \A v \in 0..(Declared(job) - 1) : OutByte(v) = Want(v)
      /\ job.fmt \in Raw => size >= job.len /\ size <= AlignUp(job.len, job.ss)
      /\ job.fmt = "flat" \/ (job.fmt = "raw" /\ job.skip) => size = job.len

\* Whenever a copy is stopped, what it leaves is no other image: a qcow2 or
\* vmdk output that carries its header is complete, and for qcow2 every
\* count is the number of references, the shared clusters of compressed data
\* included; any other output reads as the input or still as zeros.
Whole ==
    Readable =>
      /\ \A v \in 0..(Declared(job) - 1) :
           OutByte(v) \in {Want(v)} \cup
             (IF job.fmt \in Qcow2Out \cup {"vmdk", "vmdkc"} THEN {} ELSE {Zero})
      /\ job.fmt \in Qcow2Out =>
           \A c \in 0..(CeilDiv(size, OutCluster) - 1) :
             CountOf(c) = Cardinality({r \in References : r[3] = c})
=============================================================================
