------------------------------- MODULE Rebase -------------------------------
(***************************************************************************)
(* rebase of a qcow2 overlay (operations/rebase, crates/rebase): every     *)
(* guest cluster the overlay does not map and that reads differently       *)
(* through the old and the new backing chain is copied from the old one    *)
(* through the write engine, the engine is flushed, and then the backing   *)
(* name in the header is rewritten in place.  -u does only the last part.  *)
(*                                                                         *)
(* The overlay is the output device, which is never fsynced: the writes    *)
(* reach it in their order, and what may end an invocation early is a      *)
(* refusal, an I/O error, or the process being killed.  check --repair     *)
(* (module Repair) and the renaming of a backing file may come between two *)
(* invocations.                                                            *)
(***************************************************************************)
EXTENDS GuestWrite, Repair

CONSTANTS
    Files,     \* names of backing files
    Length,    \* the length of each name
    Content,   \* what each reads like, cluster by cluster, its chain included
    Slots,     \* L2 tables the engine keeps staged
    Present,   \* the files that exist at first
    Careful    \* the user repairs an overlay before a second attempt

VARIABLES
    files,   \* the backing files that exist
    want     \* what the guest read when it all began

rvars == <<vars, files, want>>

NGuest == L1Size * L2Size
GuestIdx == 1..NGuest
L1Of(k) == ((k - 1) \div L2Size) + 1
L2Of(k) == ((k - 1) % L2Size) + 1

(***************************************************************************)
(* The backing name.  The header has room for `len` bytes of a text that   *)
(* is rewritten in place: read with another length than its own it is no   *)
(* name of any file.                                                       *)
(***************************************************************************)
NoBacking == "none"
Torn == "torn"
Name(h) == IF h.len = 0 THEN NoBacking
           ELSE IF h.len = Length[h.text] THEN h.text ELSE Torn

\* read_chain_cluster: without a chain every cluster reads as zeros.
Chain(f) == IF f \in Files THEN Content[f] ELSE [k \in GuestIdx |-> 0]

MapsTo(l1, cl, k) ==
    IF l1[L1Of(k)].to = 0 THEN 0 ELSE L2At(cl, l1[L1Of(k)].to)[L2Of(k)].to

ReadThrough(m, f) ==
    [k \in GuestIdx |->
        LET d == MapsTo(m.l1, m.cl, k)
        IN  IF d = 0 THEN Chain(f)[k] ELSE DataAt(m.cl, d)]

-----------------------------------------------------------------------------
(***************************************************************************)
(* The comparison loop.  `s` is what the run has staged and emitted so far:*)
(* v, the image as it will be when everything is flushed; win and dirty,   *)
(* the staged L2 tables by their L1 index; prog, the writes; ok.           *)
(***************************************************************************)
\* The walk ascends, so the least recently used table is the lowest.
MakeRoom(s, i) ==
    IF i \in s.win \/ Cardinality(s.win) < Slots THEN s
    ELSE LET v == Min(s.win)
             t == s.v.l1[v].to
         IN  [s EXCEPT !.win = @ \ {v}, !.dirty = @ \ {v},
                       !.prog = IF v \in s.dirty THEN @ \o ClStep(t, s.v.cl[t]) ELSE @]

CopyCluster(s, k, value) ==
    LET i == L1Of(k)
        r == MakeRoom(s, i)
        p == Plan(r.v, i, L2Of(k))
    IN  IF ~p.ok THEN [r EXCEPT !.ok = FALSE]
        ELSE [r EXCEPT
                !.v = [@ EXCEPT !.l1 = p.l1, !.rc = p.rc,
                                !.cl[p.t] = Table2(p.tab), !.cl[p.d] = Data(value)],
                !.win = @ \cup {i}, !.dirty = @ \cup {i},
                !.prog = @ \o ClStep(p.d, Data(value))]

\* The skip probe looks at the overlay as it was before the run, and a read
\* of a chain fails at cluster `bad`.
Step(m, s, k, old, new, bad) ==
    IF ~s.ok \/ MapsTo(m.l1, m.cl, k) # 0 THEN s
    ELSE IF k = bad THEN [s EXCEPT !.ok = FALSE]
    ELSE IF old[k] = new[k] THEN s
    ELSE CopyCluster(s, k, old[k])

Walk(m, old, new, bad) ==
    LET run[k \in 0..NGuest] ==
            IF k = 0
            THEN [v |-> m, win |-> {}, dirty |-> {}, prog |-> <<>>, ok |-> TRUE]
            ELSE Step(m, run[k - 1], k, old, new, bad)
    IN  run[NGuest]

\* plan_flush: dirty tables, the L1 if it changed, the refcounts last.
FlushProg(m, s) ==
    FlattenSeq([i \in L1Idx |->
        IF i \in s.dirty THEN ClStep(s.v.l1[i].to, s.v.cl[s.v.l1[i].to]) ELSE <<>>])
      \o (IF s.v.l1 = m.l1 THEN <<>> ELSE L1Step(s.v.l1))
      \o RcSteps(m.rc, s.v.rc)

\* plan_rebase_qcow2: the path bytes, then offset and size in the header.
PatchProg(m, new) ==
    IF new = NoBacking THEN HdrStep([m.hdr EXCEPT !.len = 0])
    ELSE HdrStep([m.hdr EXCEPT !.text = new])
           \o HdrStep([m.hdr EXCEPT !.text = new, !.len = Length[new]])

\* Mutant of SafeProg: the header names the new backing before the tables
\* that hold the copies are written.
SafeProgNamesFirst(m, s, new) ==
    s.prog \o (IF s.ok THEN PatchProg(m, new) \o FlushProg(m, s) ELSE <<>>)
\* Mutant of SafeProg: the refcounts are not flushed.
SafeProgNoCounts(m, s, new) ==
    s.prog \o (IF s.ok THEN SelectSeq(FlushProg(m, s), LAMBDA x : x.op # "rc")
                            \o PatchProg(m, new) ELSE <<>>)
SafeProg(m, s, new) ==
    s.prog \o (IF s.ok THEN FlushProg(m, s) \o PatchProg(m, new) ELSE <<>>)

(***************************************************************************)
(* The gates.                                                              *)
(***************************************************************************)
\* Host: both chains are discovered, -u or not.
HostOpens(m, new) ==
    /\ Name(m.hdr) \in files \cup {NoBacking}
    /\ new \in files \cup {NoBacking}

\* compute_path_target: the name must fit where the old one is.
Fits(m, new) == new # NoBacking => Length[new] <= m.hdr.len

\* overlay_file_end_clusters and plan_refcount_growth (module GrowthPlan): an
\* overlay with snapshots is provisioned for the worst case or refused.
FileEnd(rc) == Max({0} \cup {c \in Cluster : rc[c] > 0})
Provision(m) == m.hdr.nb > 0 => FileEnd(m.rc) + 2 * NGuest <= N

(***************************************************************************)
(* The invocations.                                                        *)
(***************************************************************************)
Allowed == Careful => Counted(mem)

Safe(new, bad) ==
    LET s == Walk(mem, Chain(Name(mem.hdr)), Chain(new), bad)
    IN  /\ Idle /\ Allowed
        /\ HostOpens(mem, new) /\ Fits(mem, new)
        /\ ~mem.hdr.corrupt /\ Provision(mem)
        /\ Begin("rebase", [new |-> new, ok |-> s.ok], SafeProg(mem, s, new))
        /\ UNCHANGED <<files, want>>

\* -u, by a user who is right that the new backing reads like the old one.
Unsafe(new) ==
    /\ Idle
    /\ HostOpens(mem, new) /\ Fits(mem, new) /\ ~mem.hdr.corrupt
    /\ ReadThrough(mem, new) = want
    /\ Begin("unsafe", [new |-> new, ok |-> TRUE], PatchProg(mem, new))
    /\ UNCHANGED <<files, want>>

\* check --repair
Mend ==
    /\ \E all \in BOOLEAN : Check(all, NoFailure)
    /\ UNCHANGED <<files, want>>

\* A backing file is renamed.
Rename(f, g) ==
    /\ Idle
    /\ f \in files /\ g \notin files /\ Content[f] = Content[g]
    /\ files' = (files \ {f}) \cup {g}
    /\ UNCHANGED <<vars, want>>

RInit ==
    /\ Init
    /\ files = Present
    /\ want = ReadThrough(mem, Name(mem.hdr))

Rebases == \E new \in Files \cup {NoBacking} :
               Unsafe(new) \/ \E bad \in 0..NGuest : Safe(new, bad)
Renames == \E f, g \in Files : Rename(f, g)
Device == (Write \/ Fsync \/ WriteFails) /\ UNCHANGED <<files, want>>

RNext == Rebases \/ Mend \/ Renames \/ Device

RSpec == RInit /\ [][RNext]_rvars

-----------------------------------------------------------------------------
\* Whatever ends a rebase, a guest that opens the overlay reads what it read
\* before: through the old backing until the header names the new one, and
\* through the new one from then on.
ViewKept ==
    Name(mem.hdr) # Torn => ReadThrough(mem, Name(mem.hdr)) = want

\* A rebase that reports success on an overlay with exact counts leaves one,
\* with COPIED only on clusters counted once, that names the new backing.
ExactCounts(m) == \A c \in Cluster : m.rc[c] = GuestRefs(m, c)

Qcow2Exact ==
    /\ Idle /\ last.op = "rebase" /\ last.arg.ok /\ mem = last.after
    /\ ExactCounts(last.before) /\ CopiedSound(last.before)
    => ExactCounts(mem) /\ CopiedSound(mem) /\ Name(mem.hdr) = last.arg.new

-----------------------------------------------------------------------------
(***************************************************************************)
(* rebase -u of a monolithicSparse VMDK overlay (operations/rebase,        *)
(* crates/rebase): the parentCID and parentFileNameHint lines of the       *)
(* embedded descriptor are rewritten in its slot.  Safe mode is refused    *)
(* before anything is read.  A behaviour is one of a qcow2 overlay, above, *)
(* or one of a VMDK overlay.                                               *)
(*                                                                         *)
(* A descriptor is the sequence of its lines, each ended by a newline, in  *)
(* a slot of one sector, which the device writes whole or not at all.      *)
(* An older chain is not looked up: discovery takes a sparse VMDK's parent *)
(* from nowhere.                                                           *)
(***************************************************************************)

CONSTANTS
    Descriptors,   \* the descriptors overlays start with
    CidOf,         \* the CID of each backing file, Sentinel for one without
    Room           \* the bytes of the descriptor slot

VARIABLES
    slot,    \* the descriptor in the file
    vtask    \* the invocation: what it will write, and what was last written

vmdkVars == <<slot, vtask>>

Sentinel == "ffffffff"
Cid == [kind |-> "cid"]
Pcid(c) == [kind |-> "parentCID", val |-> c]
Hint(f) == [kind |-> "hint", val |-> f]
Other(i) == [kind |-> "other", id |-> i]

NoSlot == <<>>
Quiet(text) == [todo |-> NoSlot, new |-> NoBacking, cid |-> Sentinel, ops |-> 0,
                named |-> <<>>, text |-> text]

Of(text, kind) == {i \in DOMAIN text : text[i].kind = kind}
\* Bytes of a line, its newline included.
Bytes(line) ==
    CASE line.kind = "cid" -> 13
      [] line.kind = "parentCID" -> 19
      [] line.kind = "hint" -> 22 + (IF line.val = NoBacking THEN 0 ELSE Length[line.val])
      [] line.kind = "other" -> 30
Size(text) == FoldLeft(LAMBDA n, line : n + Bytes(line), 0, text)

\* rewrite_descriptor: every parent line is replaced where it is; the first
\* CID line gets a parentCID line behind it unless one came before it; what
\* is still missing goes to the end.
Rewritten(text, f, c) ==
    LET inserts(i) == i \in Of(text, "cid")
                        /\ \A j \in 1..(i - 1) : text[j].kind \notin {"cid", "parentCID"}
        line(i) == CASE text[i].kind = "parentCID" -> <<Pcid(c)>>
                     [] text[i].kind = "hint" -> <<Hint(f)>>
                     [] OTHER -> <<text[i]>>
    IN FlattenSeq([i \in DOMAIN text |-> line(i) \o (IF inserts(i) THEN <<Pcid(c)>> ELSE <<>>)])
         \o (IF Of(text, "cid") \cup Of(text, "parentCID") = {} THEN <<Pcid(c)>> ELSE <<>>)
         \o (IF Of(text, "hint") = {} THEN <<Hint(f)>> ELSE <<>>)

\* The new parent's CID is the sentinel for a detach, for a backing that is
\* no VMDK, and for one that cannot be read.
ParentCids(f) == {Sentinel} \cup (IF f = NoBacking THEN {} ELSE {CidOf[f]})

\* plan_rebase_vmdk, plan_vmdk_unsafe: the patch is the whole slot.
Planned(text) == IF Size(text) <= Room THEN text ELSE NoSlot

\* run_vmdk_unsafe up to the write.  A text that does not fit is refused.
VmdkRebase(f, c) ==
    /\ vtask.todo = NoSlot /\ vtask.ops < MaxOps
    /\ f \in files \cup {NoBacking} /\ c \in ParentCids(f)
    /\ \E text \in {Rewritten(slot, f, c)} :
         vtask' = [vtask EXCEPT !.ops = @ + 1, !.new = f, !.cid = c,
                                !.todo = Planned(text)]
    /\ UNCHANGED slot
\* apply_rebase_plan: the slot is written.
VmdkWrite ==
    /\ vtask.todo # NoSlot
    /\ slot' = vtask.todo
    /\ vtask' = [vtask EXCEPT !.todo = NoSlot, !.named = <<vtask.new, vtask.cid>>]
\* The write fails, or the process is killed before it.
VmdkFails ==
    /\ vtask.todo # NoSlot
    /\ vtask' = [vtask EXCEPT !.todo = NoSlot]
    /\ UNCHANGED slot

VmdkNext ==
    /\ \/ \E f \in Files \cup {NoBacking} : \E c \in ParentCids(f) : VmdkRebase(f, c)
       \/ VmdkWrite
       \/ VmdkFails
    /\ UNCHANGED rvars

AnyInit ==
    \/ RInit /\ slot = NoSlot /\ vtask = Quiet(NoSlot)
    \/ /\ RInit /\ mem = CHOOSE m \in Images : TRUE
       /\ slot \in Descriptors /\ vtask = Quiet(slot)
AnyNext ==
    \/ slot = NoSlot /\ RNext /\ UNCHANGED vmdkVars
    \/ slot # NoSlot /\ VmdkNext
AnySpec == AnyInit /\ [][AnyNext]_<<rvars, vmdkVars>>

-----------------------------------------------------------------------------
\* However often a VMDK overlay is rebased, and whichever of the attempts
\* fail or are refused, its descriptor says one thing about its parent,
\* whether a reader takes the first line or the last: what the last rewrite
\* that reached the file was asked for, and what it said at first if none
\* did.  The other lines are the first ones, in their order.
Others(text) == SelectSeq(text, LAMBDA x : x.kind \notin {"parentCID", "hint"})
DescriptorExact ==
    /\ Others(slot) = Others(vtask.text)
    /\ Size(slot) <= Room
    /\ IF vtask.named = <<>> THEN slot = vtask.text
       ELSE /\ {slot[i] : i \in Of(slot, "hint")} = {Hint(vtask.named[1])}
            /\ {slot[i] : i \in Of(slot, "parentCID")} = {Pcid(vtask.named[2])}

\* A rebase that reports success has done what was asked, to the counts of a
\* qcow2 overlay and to the descriptor of a VMDK one.
RebasedExact == Qcow2Exact /\ DescriptorExact
=============================================================================
