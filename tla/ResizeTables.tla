---------------------------- MODULE ResizeTables ----------------------------
(***************************************************************************)
(* instar resize on the other formats: raw, fixed and dynamic VHD, VHDX    *)
(* and sparse VMDK.  Only raw shrinks.  The others grow by writing in      *)
(* place where the block table has room, or by appending a longer copy of  *)
(* it and switching to that; the guest splits every patch at the sectors   *)
(* of the device, with no barrier, and the host then sets the length.      *)
(*                                                                         *)
(* A file is a sequence of cells, each the size of a table entry.  A       *)
(* structure (footer, header, region table) stands in the first cell of    *)
(* its sector, which holds all of its fields; the rest of it is filler.    *)
(* Left out are the images the planners refuse (differencing VHD, VHDX     *)
(* with a parent, a pending log or fixed, other VMDK subformats) and, as   *)
(* the README says, fixed VHDs whose size is not in sectors and VMDKs with *)
(* zeroed grains.                                                          *)
(***************************************************************************)
EXTENDS Resize

CONSTANTS
    SC,        \* cells in a sector
    BLK,       \* cells in a VHD block and in a VMDK grain; a multiple of SC
    MB,        \* cells in a VHDX block and in the unit of its regions
    Ratio,     \* chunk_ratio: payload entries per sector-bitmap entry
    GTES,      \* num_gtes_per_gt
    Room,      \* bound: cells of the device
    Disks,     \* the images the first invocation may find
    NewSizes   \* the virtual sizes asked for, in cells

VARIABLES
    disk,      \* the file: its kind, its variety and its cells
    patches,   \* the sector writes the running invocation has left
    task       \* the last invocation: what was asked, file found, its end

tableVars == <<disk, patches, task>>

RoundUp(n, unit) == CeilDiv(n, unit) * unit

\* A cell: what it belongs to, and up to two fields.
Zero == <<"zero", 0, 0>>
Free == <<"free", 0, 0>>               \* BAT_UNALLOCATED
To(place) == <<"to", place, 0>>        \* an entry that names a place
ZeroBlock == <<"zeroed", 0, 0>>        \* PAYLOAD_BLOCK_ZERO
Lost == <<"lost", 0, 0>>               \* a read that fails
Zeros(n) == [i \in 1..n |-> Zero]

FileLen(d) == Len(d.cells)
Cell(d, p) ==
    IF p \in 0..(FileLen(d) - 1) THEN d.cells[p + 1]
    ELSE IF p \in 0..(RoundUp(FileLen(d), SC) - 1) THEN Zero ELSE Lost
Cells(d, p, n) == [i \in 1..n |-> Cell(d, p + i - 1)]
\* What an entry names; a word of another structure may be any small number.
Place(e) == IF e[1] = "to" THEN e[2] ELSE 0

(***************************************************************************)
(* The structures, and what a reader makes of them.                        *)
(***************************************************************************)
Footer(size) == [i \in 1..SC |-> <<"foot", size, i>>]
IsFooter(c) == c[1] = "foot" /\ c[3] = 1
DynAt == SC
DynHeader(table, n) == [i \in 1..(2 * SC) |-> <<"dyn", table, n>>]

\* VHDX: two headers, two region tables and the metadata region.
Head1 == SC
Head2 == 2 * SC
Regions1 == 3 * SC
Regions2 == 4 * SC
\* A region table names the BAT, its length, and the metadata region.
RegionTable(table, n, meta) == <<<<"rt", table, n>>, <<"rtmeta", meta, 0>>>>
\* bat_entry_count, for an image with no parent
BatEntries(size) ==
    LET blocks == CeilDiv(size, MB) IN blocks + (blocks - 1) \div Ratio

\* VMDK: the header in sector 0, the descriptor after it.
DescAt == SC
GdEntries(capacity) == CeilDiv(capacity, GTES * BLK)

\* What is in use of a file: does it open, its virtual size, where its first
\* table is and how many entries of it count.
OpenedFixed(d) ==
    LET f == Cell(d, RoundUp(FileLen(d), SC) - SC)
    IN  [ok |-> IsFooter(f), size |-> f[2], table |-> 0, n |-> 0]
OpenedVpc(d) ==
    LET f == Cell(d, 0)
        h == Cell(d, DynAt)
    IN  [ok |-> IsFooter(f) /\ h[1] = "dyn" /\ h[2] + h[3] <= RoundUp(FileLen(d), SC),
         size |-> f[2], table |-> h[2], n |-> h[3]]
OpenedVhdx(d) ==
    LET r == Cell(d, Regions1)
        meta == Cell(d, Regions1 + 1)[2]
        vds == Cell(d, meta)
    IN  [ok |-> /\ "head" \in {Cell(d, Head1)[1], Cell(d, Head2)[1]}
                /\ r[1] = "rt" /\ vds[1] = "vds" /\ BatEntries(vds[2]) <= r[3],
         size |-> vds[2], table |-> r[2], n |-> r[3], meta |-> meta]
OpenedVmdk(d) ==
    LET h == Cell(d, 0)
    IN  [ok |-> h[1] = "vmdk" /\ h[3] * SC + GdEntries(h[2]) <= RoundUp(FileLen(d), SC),
         size |-> h[2], table |-> h[3] * SC, n |-> GdEntries(h[2])]
Opened(d) ==
    CASE d.kind = "raw" -> [ok |-> TRUE, size |-> FileLen(d), table |-> 0, n |-> 0]
      [] d.kind = "fixed" -> OpenedFixed(d)
      [] d.kind = "vpc" -> OpenedVpc(d)
      [] d.kind = "vhdx" -> OpenedVhdx(d)
      [] d.kind = "vmdk" -> OpenedVmdk(d)
      [] d.kind = "absent" -> [ok |-> FALSE, size |-> 0, table |-> 0, n |-> 0]

\* A block that lies in a region of the file's own is refused.
InRegion(o, at) ==
    \/ at < o.meta + MB /\ o.meta < at + MB
    \/ at < o.table + o.n /\ o.table < at + MB

\* What shows where an image has nothing of its own.
Blanks(d, g) == IF d.sub = "child" THEN <<"parent", g, 0>> ELSE Zero

\* block_lookup and grain_lookup, and the cell they lead to.
ShownVpc(d, o, g) ==
    LET e == Cell(d, o.table + g \div BLK)
    IN  IF g \div BLK >= o.n \/ e = Free THEN Blanks(d, g)
        ELSE Cell(d, Place(e) * SC + SC + (g % BLK))
ShownVhdx(d, o, g) ==
    LET e == Cell(d, o.table + g \div MB + (g \div MB) \div Ratio)
    IN  IF e = Zero THEN Blanks(d, g)
        ELSE IF e = ZeroBlock THEN Zero
        ELSE IF Place(e) = 0 \/ InRegion(o, Place(e) * MB) THEN Lost
        ELSE Cell(d, Place(e) * MB + (g % MB))
ShownVmdk(d, o, g) ==
    LET gd == Cell(d, o.table + g \div (GTES * BLK))
        gt == Cell(d, Place(gd) * SC + ((g \div BLK) % GTES))
    IN  IF gd = Zero \/ gt = Zero THEN Blanks(d, g)
        ELSE Cell(d, Place(gt) * SC + (g % BLK))
Shown(d, o, g) ==
    CASE d.kind \in {"raw", "fixed"} -> Cell(d, g)
      [] d.kind = "vpc" -> ShownVpc(d, o, g)
      [] d.kind = "vhdx" -> ShownVhdx(d, o, g)
      [] d.kind = "vmdk" -> ShownVmdk(d, o, g)

(***************************************************************************)
(* The host's probe: the virtual size it finds, and whether it finds one.  *)
(* A VHD is known by the footer at its end.                                *)
(***************************************************************************)
TailFooter(d) == Cell(d, FileLen(d) - SC)
Probes(d) == d.kind \in {"fixed", "vpc"} => FileLen(d) >= SC /\ IsFooter(TailFooter(d))
Probed(d) ==
    CASE d.kind \in {"fixed", "vpc"} -> TailFooter(d)[2]
      [] OTHER -> Opened(d).size

(***************************************************************************)
(* The plans: patches in order, and the length of the file after them.     *)
(***************************************************************************)
Patch(at, cells) == [at |-> at, cells |-> cells]
Plan(list, total) == [list |-> list, total |-> total]

\* plan_resize_raw: no patches; set_len does it all.
RawPlan(size) == Plan(<<>>, size)

\* plan_fixed_grow
FixedPlan(d, size) ==
    Plan(<<Patch(size, Footer(size)), Patch(Probed(d), Zeros(SC))>>, size + SC)

\* first_allocated_block_offset, over the whole sectors of the BAT; the tail
\* footer when no block is allocated.
FirstBlock(d) ==
    LET h == Cell(d, DynAt)
        named == {e \in Range(Cells(d, h[2], RoundUp(h[3], SC))) : e # Free}
    IN  IF named = {} THEN FileLen(d) - SC ELSE Min({Place(e) * SC : e \in named})

\* Mutant of VpcInPlace: the BAT may grow up to the tail footer.
VpcInPlaceToTail(d, size) == Cell(d, DynAt)[2] + CeilDiv(size, BLK) <= FileLen(d) - SC

\* decide_dynamic_action
VpcInPlace(d, size) == Cell(d, DynAt)[2] + CeilDiv(size, BLK) <= FirstBlock(d)

\* plan_dynamic_grow_in_place: the BAT goes on where it ends.
VpcGrown(d, h, n, size) ==
    LET added == [i \in 1..(IF n > h[3] THEN n - h[3] ELSE 0) |-> Free]
    IN  Plan(<<Patch(h[2] + h[3], added), Patch(DynAt, DynHeader(h[2], n)),
               Patch(FileLen(d) - SC, Footer(size)), Patch(0, Footer(size))>>, FileLen(d))
\* plan_dynamic_grow_relocate: a longer BAT over the old tail footer.
VpcMoved(d, h, n, size) ==
    LET at == FileLen(d) - SC
        added == [i \in 1..(IF n > h[3] THEN n - h[3] ELSE 0) |-> Free]
        old == Cells(d, h[2], Smaller(h[3], n))
    IN  Plan(<<Patch(at, old \o added), Patch(DynAt, DynHeader(at, n)),
               Patch(at + n, Footer(size)), Patch(0, Footer(size))>>, at + n + SC)
VpcPlan(d, size) ==
    LET h == Cell(d, DynAt)
        n == CeilDiv(size, BLK)
    IN  IF VpcInPlace(d, size) THEN VpcGrown(d, h, n, size) ELSE VpcMoved(d, h, n, size)

\* The headers are rewritten in turn, the one not in use first.
HeaderSeq(d, at) == Cell(d, at)[2]
VhdxHeaders(d) ==
    LET first == HeaderSeq(d, Head1) >= HeaderSeq(d, Head2)
        seq == Larger(HeaderSeq(d, Head1), HeaderSeq(d, Head2))
    IN  <<Patch(IF first THEN Head2 ELSE Head1, <<<<"head", seq + 1, 0>>>>),
          Patch(IF first THEN Head1 ELSE Head2, <<<<"head", seq + 2, 0>>>>)>>

\* plan_grow and decide_action: the BAT's region holds what the size needs.
VhdxInPlace(o, size) == BatEntries(size) <= o.n
NewSize(o, size) == Patch(o.meta, <<<<"vds", size, 0>>>>)
\* plan_bat_grow_relocate
VhdxMoved(d, o, size) ==
    LET n == RoundUp(BatEntries(size), MB)
        regions == RegionTable(FileLen(d), n, o.meta)
    IN  Plan(<<Patch(FileLen(d), Cells(d, o.table, o.n) \o Zeros(n - o.n)), NewSize(o, size),
               Patch(Regions1, regions), Patch(Regions2, regions)>> \o VhdxHeaders(d),
             FileLen(d) + n)
VhdxPlan(d, o, size) ==
    IF VhdxInPlace(o, size) THEN Plan(<<NewSize(o, size)>> \o VhdxHeaders(d), FileLen(d))
    ELSE VhdxMoved(d, o, size)

\* plan_grow and decide_action: the directory's sectors hold what the
\* capacity needs.
VmdkInPlace(o, capacity) == GdEntries(capacity) <= RoundUp(o.n, SC)
NewDescriptor(capacity) == Patch(DescAt, <<<<"desc", capacity, 0>>>>)
\* plan_metadata_only
VmdkGrown(d, o, capacity) ==
    Plan(<<NewDescriptor(capacity), Patch(0, <<<<"vmdk", capacity, o.table \div SC>>>>)>>,
         FileLen(d))
\* plan_gd_grow_relocate
VmdkMoved(d, o, capacity) ==
    LET n == RoundUp(GdEntries(capacity), SC)
    IN  Plan(<<Patch(FileLen(d), Cells(d, o.table, o.n) \o Zeros(n - o.n)),
               NewDescriptor(capacity), Patch(0, <<<<"vmdk", capacity, FileLen(d) \div SC>>>>)>>,
             FileLen(d) + n)
\* The capacity is in grains.
VmdkPlan(d, o, size) ==
    LET capacity == RoundUp(size, BLK)
    IN  IF VmdkInPlace(o, capacity) THEN VmdkGrown(d, o, capacity)
        ELSE VmdkMoved(d, o, capacity)

TablePlan(d, size) ==
    CASE d.kind = "raw" -> RawPlan(size)
      [] d.kind = "fixed" -> FixedPlan(d, size)
      [] d.kind = "vpc" -> VpcPlan(d, size)
      [] d.kind = "vhdx" -> VhdxPlan(d, Opened(d), size)
      [] d.kind = "vmdk" -> VmdkPlan(d, Opened(d), size)

(***************************************************************************)
(* Running a plan: write_byte_range cuts a patch at the sectors it meets,  *)
(* and reads, changes and writes each of them whole.                       *)
(***************************************************************************)
Split(p) ==
    LET last == p.at + Len(p.cells) - 1
        piece(s) == LET from == Larger(p.at, s * SC)
                        to == Smaller(last, s * SC + SC - 1)
                    IN  Patch(from, SubSeq(p.cells, from - p.at + 1, to - p.at + 1))
    IN  IF p.cells = <<>> THEN <<>>
        ELSE [k \in 1..(last \div SC - p.at \div SC + 1) |-> piece(p.at \div SC + k - 1)]

\* What is cut off is gone, what is added is zeros.
SetLen(d, n) == [d EXCEPT !.cells = [x \in 1..n |-> IF x <= Len(@) THEN @[x] ELSE Zero]]

PutSector(d, p) ==
    LET whole == SetLen(d, Larger(FileLen(d), (p.at \div SC + 1) * SC))
    IN  [whole EXCEPT !.cells =
           [x \in DOMAIN @ |-> IF x - p.at \in DOMAIN p.cells THEN p.cells[x - p.at] ELSE @[x]]]

\* The sector writes of a list of patches.
Sectored(list) == FlattenSeq([k \in 1..Len(list) |-> Split(list[k])])

TableIdle == patches = <<>> /\ task.done /\ ops < MaxOps

\* A request for the size the image has changes nothing.  What the planners
\* refuse is not touched: a file that does not open because its making was
\* cut short, and the varieties they do not know.
StartTable(size) ==
    /\ TableIdle
    /\ disk.kind # "absent" /\ disk.sub = "plain"
    /\ task.op = "cut" => Opened(disk).ok
    /\ Probes(disk)
    /\ disk.kind = "raw" \/ size > Probed(disk)
    /\ disk.kind = "fixed" => size % SC = 0
    /\ \E plan \in {TablePlan(disk, size)} :
         /\ RoundUp(plan.total, SC) <= Room
         /\ patches' = Sectored(plan.list)
         /\ task' = [task EXCEPT !.op = "resize", !.size = size, !.total = plan.total,
                      !.done = FALSE, !.before = IF Opened(disk).ok THEN disk ELSE @]
    /\ ops' = ops + 1
    /\ UNCHANGED <<disk, faults>>

WriteSector ==
    /\ patches # <<>>
    /\ disk' = PutSector(disk, Head(patches))
    /\ patches' = Tail(patches)
    /\ UNCHANGED <<task, ops, faults>>

\* The guest has reported.  A resize, and the making of a raw file, end with
\* the host's set_len.
Finished ==
    /\ ~task.done /\ patches = <<>>
    /\ disk' = IF task.op = "resize" \/ disk.kind = "raw" THEN SetLen(disk, task.total)
               ELSE disk
    /\ task' = [task EXCEPT !.done = TRUE]
    /\ UNCHANGED <<patches, ops, faults>>

\* A write fails or the process dies: the rest is not done, the length is
\* left as the writes made it.
CutTable ==
    /\ ~task.done
    /\ faults < MaxFaults
    /\ faults' = faults + 1
    /\ patches' = <<>>
    /\ task' = [task EXCEPT !.done = TRUE, !.op = IF @ = "create" THEN "cut" ELSE @]
    /\ UNCHANGED <<disk, ops>>

(***************************************************************************)
(* Properties.                                                             *)
(***************************************************************************)

\* The one place where a plan leaves a file that does not open: a VHDX whose
\* new size is written and whose region table still names the shorter BAT.
BetweenSizeAndRegions ==
    /\ disk.kind = "vhdx"
    /\ Opened(disk).size > Opened(task.before).size
    /\ Cell(disk, Regions1) = Cell(task.before, Regions1)

\* A VMDK's size is in grains; a VHDX is created with a size in sectors.
Wanted ==
    CASE disk.kind = "vmdk" -> RoundUp(task.size, BLK)
      [] disk.kind = "vhdx" /\ task.op # "resize" -> RoundUp(task.size, SC)
      [] OTHER -> task.size

\* The copies that other readers go by agree with what was asked for.
CopiesAgree ==
    /\ disk.kind \in {"fixed", "vpc"} => IsFooter(TailFooter(disk)) /\ Probed(disk) = task.size
    /\ disk.kind = "vhdx" => Cell(disk, Regions2) = Cell(disk, Regions1)
    /\ disk.kind = "vmdk" => Cell(disk, DescAt)[2] = Wanted

\* At every sector of every plan, cut short there or not, the file opens
\* with its old or its new size (but for the one window) and shows below
\* the smaller of the two what it showed before: a block table is extended
\* only over room no block has, and a copy of it is complete before anything
\* names it.  A resize that was not cut short ends with the size asked for,
\* zeros in what it added, and every copy of the size agreeing.
ResizeKeeps ==
    LET kept(was, is) ==
          /\ is.ok \/ BetweenSizeAndRegions
          /\ is.ok =>
               /\ is.size \in {was.size, Wanted}
               /\ \A g \in 0..(Smaller(was.size, is.size) - 1) :
                     Shown(disk, is, g) = Shown(task.before, was, g)
          /\ task.done /\ faults = 0 =>
               /\ is.size = Wanted
               /\ \A g \in was.size..(is.size - 1) : Shown(disk, is, g) = Zero
               /\ CopiesAgree
    IN  task.op = "resize" => kept(Opened(task.before), Opened(disk))
=============================================================================
