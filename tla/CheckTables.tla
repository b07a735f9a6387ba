---------------------------- MODULE CheckTables -----------------------------
(***************************************************************************)
(* instar check on a VHD, VHDX or VMDK: read only, it goes by the first    *)
(* sector (a fixed VHD by the last), stops at the first fault of the       *)
(* header structures, walks the whole block table, and counts the blocks   *)
(* that lie outside the file or fall into a slot that is taken.            *)
(*                                                                         *)
(* Left out: fields that no operation here writes otherwise (versions,     *)
(* checksums, sector sizes), redundant grain directories, compressed       *)
(* grains and the footer that may hold a stream's directory, and images    *)
(* with more slots than the scratch bitmap has bits.                       *)
(***************************************************************************)
EXTENDS Create

\* The device holds whole sectors.
DevLen(d) == RoundUp(FileLen(d), SC)
LastSector(d) == Cell(d, DevLen(d) - SC)

\* The blocks of a walk that land in the slot of an earlier one, by their slots.
Again(slots) == {k \in DOMAIN slots : \E j \in 1..(k - 1) : slots[j] = slots[k]}

If(fault, name) == IF fault THEN {name} ELSE {}

(***************************************************************************)
(* check_vhd                                                               *)
(***************************************************************************)
FixedFaults(d) ==
    IF ~IsFooter(LastSector(d)) THEN {"footer"}
    ELSE If(d.kind = "fixed" /\ DevLen(d) < LastSector(d)[2] + SC, "truncated")

\* The BAT walk, and the comparison of the two footers.
VpcWalk(d, h) ==
    LET entries == Cells(d, h[2], h[3])
        alloc == SelectSeq(entries, LAMBDA e : e # Free)
        inside == SelectSeq(alloc, LAMBDA e : Place(e) * SC + SC + BLK <= DevLen(d))
    IN  If(Len(inside) < Len(alloc), "block outside")
        \cup If(Again([k \in DOMAIN inside |-> (Place(inside[k]) * SC) \div (SC + BLK)]) # {}, "overlap")
        \cup If(IsFooter(LastSector(d)) /\ LastSector(d)[2] # Cell(d, 0)[2], "footers differ")
VpcFaults(d) ==
    LET h == Cell(d, DynAt)
    IN  IF DynAt >= DevLen(d) \/ h[1] # "dyn" THEN {"dynamic header"}
        ELSE IF h[2] + h[3] > DevLen(d) THEN {"BAT"} ELSE VpcWalk(d, h)

(***************************************************************************)
(* check_vhdx                                                              *)
(***************************************************************************)
\* A block lies in the file, as far as the disk needs it, and in no region.
BlockGood(d, o, b, at) ==
    /\ at + Smaller(o.size - b * MB, MB) <= DevLen(d)
    /\ at # 0 /\ ~InRegion(o, at)
VhdxWalk(d, o) ==
    LET blocks == CeilDiv(o.size, MB)
        entry(b) == Cell(d, o.table + b + b \div Ratio)
        named == SelectSeq([b \in 1..blocks |-> b - 1], LAMBDA b : entry(b)[1] = "to")
        at(b) == Place(entry(b)) * MB
        kept == SelectSeq(named, LAMBDA b : BlockGood(d, o, b, at(b)))
    IN  If(\E b \in 0..(blocks - 1) : entry(b)[1] \notin {"zero", "zeroed", "to"}, "entry")
        \cup If(Len(kept) < Len(named), "block outside")
        \cup If(Again([k \in DOMAIN kept |-> at(kept[k]) \div MB]) # {}, "overlap")

GoodHeads(d) == {p \in {Head1, Head2} : Cell(d, p)[1] = "head"}
\* The two region tables say the same, and regions begin at a megabyte.
RegionFaults(d, o) ==
    If(Cells(d, Regions2, 2) # Cells(d, Regions1, 2), "region tables")
    \cup If(o.table % MB # 0 \/ o.meta % MB # 0, "alignment")
\* The structures before the BAT; a fault among the last three ends the check.
VhdxFaults(d, o) ==
    LET early == If(Cardinality(GoodHeads(d)) < 2, "header")
        copies == RegionFaults(d, o)
    IN  IF DevLen(d) < Regions2 + SC \/ GoodHeads(d) = {} THEN {"header"}
        ELSE IF Cell(d, Regions1)[1] # "rt" \/ o.table >= DevLen(d) \/ o.meta >= DevLen(d)
        THEN early \cup {"regions"}
        ELSE IF Cell(d, o.meta)[1] # "vds" THEN early \cup copies \cup {"metadata"}
        ELSE IF BatEntries(o.size) > o.n THEN early \cup copies \cup {"BAT"}
        ELSE early \cup copies \cup VhdxWalk(d, o)

(***************************************************************************)
(* check_vmdk: the slots of header, descriptor, directory and tables are   *)
(* taken; a grain must find its own free.                                  *)
(***************************************************************************)
SlotsOf(at, n) == (at \div BLK)..((at + n - 1) \div BLK)
VmdkWalk(d, o) ==
    LET gt(i) == Place(Cell(d, o.table + i)) * SC
        used == {i \in 0..(o.n - 1) : Cell(d, o.table + i) # Zero}
        good == {i \in used : gt(i) + GTES <= DevLen(d)}
        grains == {x \in good \X (0..(GTES - 1)) : Cell(d, gt(x[1]) + x[2]) # Zero}
        at(x) == Place(Cell(d, gt(x[1]) + x[2])) * SC
        inside == {x \in grains : at(x) + BLK <= DevLen(d)}
        before(x, y) == x[1] < y[1] \/ (x[1] = y[1] /\ x[2] < y[2])
        taken(y) == {0} \cup SlotsOf(DescAt, SC) \cup SlotsOf(o.table, o.n)
                    \cup UNION {SlotsOf(gt(i), GTES) : i \in {k \in good : k <= y[1]}}
                    \cup {at(x) \div BLK : x \in {z \in inside : before(z, y)}}
    IN  If(good # used, "table outside") \cup If(inside # grains, "grain outside")
        \cup If(\E y \in inside : at(y) \div BLK \in taken(y), "overlap")
VmdkFaults(d, o) ==
    IF o.size = 0 \/ DescAt + SC > DevLen(d) THEN {"header"}
    ELSE IF o.table + o.n > DevLen(d) THEN {"directory"} ELSE VmdkWalk(d, o)

(***************************************************************************)
(* _start: what the image is taken for, and the answer.                    *)
(***************************************************************************)
Answer(how, found) == [how |-> how, found |-> found]
Checked(d) ==
    LET c == Cell(d, 0)
        child == d.sub = "child"
        vhdx(o, found) == IF child /\ Cell(d, o.meta)[1] = "vds" THEN Answer("refused", {})
                          ELSE Answer("checked", found)
    IN  CASE DevLen(d) = 0 -> Answer("unread", {})
          [] c[1] = "fileid" -> vhdx(Opened(d), VhdxFaults(d, Opened(d)))
          [] c[1] = "vmdk" -> Answer("checked", VmdkFaults(d, Opened(d)))
          [] IsFooter(c) -> IF child THEN Answer("refused", {})
                            ELSE Answer("checked", VpcFaults(d))
          [] OTHER -> IF IsFooter(LastSector(d)) THEN Answer("checked", FixedFaults(d))
                      ELSE Answer("unsupported", {})

\* check agrees with those who write and those who read: what a create or a
\* resize completed is found in order (a differencing image is refused), and
\* what it finds in order opens and can be read to its last cell.
CheckAgrees ==
    LET agrees(v, o) ==
          /\ task.op \in {"create", "resize"} /\ task.done /\ faults = 0 /\ disk.kind # "raw" =>
               /\ v.found = {}
               /\ v.how = IF disk.sub = "child" /\ disk.kind # "vmdk" THEN "refused" ELSE "checked"
          /\ v.how = "checked" /\ v.found = {} =>
               o.ok /\ \A g \in 0..(o.size - 1) : Shown(disk, o, g) # Lost
    IN  disk.kind \notin {"none", "absent"} => agrees(Checked(disk), Opened(disk))

\* At every sector of every plan of resize and create, cut short there or
\* not, a file of another format than qcow2 is what it was or what was asked
\* for, and check says of it what its readers find.
TablesKept == ResizeKeeps /\ CreateKeeps /\ CheckAgrees
=============================================================================
