------------------------------- MODULE Create -------------------------------
(***************************************************************************)
(* instar create: the guest resolves the size, checks the parent of a      *)
(* differencing VHD or VHDX, plans the metadata of an empty image and      *)
(* writes it a sector at a time to an output the host has truncated; the   *)
(* host then preallocates a qcow2 image's data, sets a raw file's length,  *)
(* and removes the file if anything failed.  What create leaves is what    *)
(* resize finds, so the two run on the same file.                          *)
(*                                                                         *)
(* Left out: a qcow2 image with a backing file, the two files of a         *)
(* monolithicFlat VMDK, and option values the planners refuse.             *)
(***************************************************************************)
EXTENDS ResizeTables

CONSTANTS
    NewImages,  \* the qcow2 images asked for: size and preallocation mode
    NewFiles,   \* the files asked for in the other formats
    Slack       \* clusters that the output device has past the virtual size

(***************************************************************************)
(* qcow2.  plan_qcow2 and emit_qcow2_l2_and_extend: header, L1 table,      *)
(* refcount table and blocks, then the L2 tables and the last sector of an *)
(* image whose data is preallocated.                                       *)
(***************************************************************************)
\* A table of n clusters whose first entries name m clusters from `at` on.
Filled(n, m, at) ==
    [k \in 1..n |-> [x \in Entry |->
        LET i == (k - 1) * E + x IN IF i < m THEN at + i ELSE 0]]
FreshProg(size, mode) ==
    LET data == IF mode = "off" THEN 0 ELSE CeilDiv(size, CS)
        l2n == IF mode = "off" THEN 0 ELSE L1Need(size)
        prog(lay, rtAt, blAt, l2At, dataAt) ==
          Header([size |-> size, l1 |-> 1, l1n |-> lay.l1n, rt |-> rtAt,
                  rtN |-> lay.table, snaps |-> {}])
          \o Region(1, Filled(rtAt - 1, l2n, l2At))
          \o Region(rtAt, Filled(lay.table, lay.blocks, blAt))
          \o Region(blAt, [k \in 1..lay.blocks |-> [x \in Entry |->
               IF (k - 1) * E + x < dataAt + data THEN 1 ELSE 0]])
          \o Region(l2At, Filled(l2n, data, dataAt))
          \o (IF mode = "off" THEN <<>>
              ELSE <<[op |-> "cl", c |-> dataAt + data - 1, s |-> CS - 1,
                      content |-> [x \in Entry |-> 0]]>>)
          \o (IF mode \notin {"falloc", "full"} THEN <<>>
              ELSE <<[op |-> "finish", mode |-> mode, from |-> dataAt,
                      to |-> dataAt + data]>>)
        placed(lay, rtAt, blAt) ==
          prog(lay, rtAt, blAt, blAt + lay.blocks, blAt + lay.blocks + l2n)
        sized(lay, l1c) == placed(lay, 1 + l1c, 1 + l1c + lay.table)
    IN  sized(LayoutWith(size, l2n + data), L1Clusters(L1Need(size)))

\* A sector past the end of the output device is not written: the guest
\* reports a failed write.
OnDevice(prog, capacity) ==
    LET past == {k \in DOMAIN prog : prog[k].op = "cl" /\ prog[k].c >= capacity}
    IN  IF past = {} THEN prog
        ELSE SubSeq(prog, 1, Min(past) - 1) \o <<[op |-> "gone"]>>

CreateImage(size, mode) ==
    /\ todo = <<>> /\ ops < MaxOps
    /\ ops' = ops + 1
    /\ img' = NoImage
    /\ todo' = OnDevice(FreshProg(size, mode), CeilDiv(size, CS) + Slack)
    /\ job' = [op |-> "create", size |-> size, before |-> NoImage, done |-> FALSE]
    /\ UNCHANGED faults

\* A write or the preallocation fails and the host removes the file.
ImageRemoved ==
    /\ job.op = "create" /\ todo # <<>>
    /\ faults < MaxFaults
    /\ faults' = faults + 1
    /\ img' = NoImage
    /\ todo' = <<>>
    /\ job' = [op |-> "none", size |-> 0, before |-> NoImage, done |-> TRUE]
    /\ UNCHANGED ops

(***************************************************************************)
(* The other formats.  A request is a record: kind and sub the file to be  *)
(* made, size its size (0: the parent's), parent what -b names, hint the   *)
(* format -F gives it.  A parent is known by its format, size and whether  *)
(* it has a parent itself; a footer or header that identifies it is read   *)
(* with them.                                                              *)
(***************************************************************************)
NoParent == [kind |-> "none", size |-> 0, child |-> FALSE]

\* probe_backing; parent_format_matches; the size check.  A raw, qcow2 or
\* VMDK parent is not asked whether it has a parent.
ParentOK(f) ==
    /\ f.parent.kind \in {"vpc", "vhdx"} => ~f.parent.child
    /\ f.kind \in {"vpc", "fixed", "vhdx"} =>
         /\ f.parent.kind = (IF f.kind = "vhdx" THEN "vhdx" ELSE "vpc")
         /\ f.hint \in {"none", f.parent.kind}
         /\ f.size # 0 => f.size = f.parent.size
    /\ f.kind # "fixed" /\ f.sub # "whole"

Resolved(f) == IF f.size # 0 THEN f.size ELSE f.parent.size

Accepted(f) ==
    /\ Resolved(f) > 0
    /\ f.parent # NoParent => ParentOK(f)

\* plan_vhd: what fills up the BAT's last sector is zeros, in which resize's
\* first_allocated_block_offset sees a block at offset 0.
VpcFile(f, size) ==
    LET n == CeilDiv(size, BLK)
        table == DynAt + 2 * SC + (IF f.sub = "child" THEN SC ELSE 0)
        bat == [i \in 1..RoundUp(n, SC) |-> IF i <= n THEN Free ELSE Zero]
        locator == [i \in 1..SC |-> <<"locator", 0, 0>>]
    IN  <<Patch(0, Footer(size)), Patch(DynAt, DynHeader(table, n))>>
        \o (IF f.sub = "child" THEN <<Patch(DynAt + 2 * SC, locator)>> ELSE <<>>)
        \o <<Patch(table, bat), Patch(table + Len(bat), Footer(size))>>
FixedFile(size) == <<Patch(size, Footer(size))>>

\* plan_vmdk: header, descriptor, grain directory, end-of-stream marker.
VmdkFile(f, size) ==
    LET capacity == RoundUp(size, BLK)
        gd == DescAt + SC
        n == RoundUp(GdEntries(capacity), SC)
    IN  <<Patch(0, <<<<"vmdk", capacity, gd \div SC>>>>),
          Patch(DescAt, <<<<"desc", capacity, 0>>>>), Patch(gd, Zeros(n))>>
        \o (IF f.sub = "stream" THEN <<Patch(gd + n, <<<<"eos", 0, 0>>>>)>> ELSE <<>>)

\* vhdx::layout: log, BAT, metadata region; a fixed image's data further on.
BatAt == RoundUp(Regions2 + SC, MB) + MB
VhdxLayout(size, child) ==
    LET blocks == CeilDiv(size, MB)
        entries == IF child THEN CeilDiv(blocks, Ratio) * (Ratio + 1) ELSE BatEntries(size)
        meta == BatAt + RoundUp(entries, MB)
    IN  [entries |-> entries, meta |-> meta, data |-> meta + 5 * MB]

\* fill_fixed_bat, and the sectors emit_vhdx_fixed_bat streams of it
FixedBat(lay, zeroed) ==
    [i \in 1..RoundUp(lay.entries, SC) |->
       LET x == i - 1 IN
       IF x >= lay.entries \/ x % (Ratio + 1) = Ratio THEN Zero
       ELSE IF zeroed THEN ZeroBlock
       ELSE To(lay.data \div MB + (x - x \div (Ratio + 1)))]

\* plan_vhdx: what makes the image known, the metadata region last.  A fixed
\* image's BAT is written before all of it; any other BAT is a hole.
VhdxFile(f, size) ==
    LET lay == VhdxLayout(size, f.sub = "child")
        regions == RegionTable(BatAt, lay.meta - BatAt, lay.meta)
        known == <<Patch(0, <<<<"fileid", 0, 0>>>>), Patch(Head1, <<<<"head", 1, 0>>>>),
                   Patch(Head2, <<<<"head", 2, 0>>>>), Patch(Regions1, regions),
                   Patch(Regions2, regions),
                   Patch(lay.meta, <<<<"vds", size, 0>>>> \o Zeros(MB - 1))>>
    IN  IF f.sub = "whole" THEN <<Patch(BatAt, FixedBat(lay, f.zeroed))>> \o known ELSE known

FilePatches(f, size) ==
    CASE f.kind = "raw" -> <<>>
      [] f.kind = "fixed" -> FixedFile(size)
      [] f.kind = "vpc" -> VpcFile(f, size)
      [] f.kind = "vhdx" -> VhdxFile(f, RoundUp(size, SC))
      [] f.kind = "vmdk" -> VmdkFile(f, size)

\* The length the host gives the file when it opens it.
OpenLen(f, size) ==
    IF f.sub = "whole" THEN VhdxLayout(RoundUp(size, SC), FALSE).data + RoundUp(size, SC) ELSE 0

NoFile == [kind |-> "absent", sub |-> "plain", cells |-> <<>>]
Idle(d) == [op |-> "none", size |-> 0, total |-> 0, done |-> TRUE, before |-> d,
            parent |-> NoParent]

\* The output is truncated first; what the guest refuses is then removed.
CreateFile(f) ==
    /\ TableIdle
    /\ ops' = ops + 1
    /\ IF ~Accepted(f)
       THEN disk' = NoFile /\ patches' = <<>> /\ task' = Idle(NoFile)
       ELSE /\ disk' = [kind |-> f.kind, sub |-> f.sub, cells |-> Zeros(OpenLen(f, Resolved(f)))]
            /\ patches' = Sectored(FilePatches(f, Resolved(f)))
            /\ task' = [op |-> "create", size |-> Resolved(f), total |-> Resolved(f),
                        done |-> FALSE, before |-> NoFile, parent |-> f.parent]
    /\ UNCHANGED faults

\* Nothing can be read at the parent's path: the host gives up with the
\* output truncated and leaves it there.
ParentMissing(f) ==
    /\ TableIdle
    /\ f.parent # NoParent
    /\ ops' = ops + 1
    /\ disk' = [kind |-> f.kind, sub |-> f.sub, cells |-> <<>>]
    /\ task' = [Idle(NoFile) EXCEPT !.op = "cut", !.size = Resolved(f), !.parent = f.parent]
    /\ UNCHANGED <<patches, faults>>

FileRemoved ==
    /\ task.op = "create" /\ ~task.done
    /\ faults < MaxFaults
    /\ faults' = faults + 1
    /\ disk' = NoFile
    /\ patches' = <<>>
    /\ task' = Idle(NoFile)
    /\ UNCHANGED ops

(***************************************************************************)
(* A behaviour is about a qcow2 image or about a file of another format.   *)
(***************************************************************************)
NoDisk == [kind |-> "none", sub |-> "plain", cells |-> <<>>]

AnyInit ==
    \/ Init /\ disk = NoDisk /\ patches = <<>> /\ task = Idle(NoDisk)
    \/ /\ disk \in Disks /\ patches = <<>> /\ task = Idle(disk)
       /\ img = NoImage
       /\ todo = <<>> /\ ops = 0 /\ faults = 0
       /\ job = [op |-> "none", size |-> 0, before |-> img, done |-> TRUE]

Qcow2Step ==
    /\ disk = NoDisk
    /\ Next \/ (\E f \in NewImages : CreateImage(f.size, f.mode)) \/ ImageRemoved
    /\ UNCHANGED tableVars
TableStep ==
    /\ disk # NoDisk
    /\ \/ \E size \in NewSizes : StartTable(size)
       \/ \E f \in NewFiles : CreateFile(f) \/ ParentMissing(f)
       \/ WriteSector \/ Finished \/ CutTable \/ FileRemoved
    /\ UNCHANGED <<img, todo, job>>

AnySpec == AnyInit /\ [][Qcow2Step \/ TableStep]_<<vars, tableVars>>

(***************************************************************************)
(* Properties.                                                             *)
(***************************************************************************)

\* A file whose making was cut short anywhere does not open, or opens as what
\* was asked for: its size right, nothing but zeros (or its parent) in it,
\* and every block of a fixed VHDX in its BAT.  One whose making ended opens
\* so, with its copies of the size agreeing; and a differencing VHD or VHDX
\* has a parent of its own format and size.
CreateKeeps ==
    LET named(o) == \A b \in 0..(CeilDiv(o.size, MB) - 1) :
                       Cell(disk, o.table + b + b \div Ratio) # Zero
        made(is) ==
          /\ is.ok =>
               /\ is.size = Wanted \/ disk.cells = <<>>
               /\ \A g \in 0..(is.size - 1) : Shown(disk, is, g) = Blanks(disk, g)
               /\ disk.sub = "whole" => named(is)
          /\ task.op = "create" /\ task.done =>
               /\ is.ok /\ is.size = Wanted
               /\ CopiesAgree
               /\ disk.sub = "child" /\ disk.kind # "vmdk" =>
                    task.parent.kind = disk.kind /\ task.parent.size = is.size
    IN  task.op \in {"create", "cut"} => made(Opened(disk))
=============================================================================
