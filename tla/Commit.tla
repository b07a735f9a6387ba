------------------------------- MODULE Commit -------------------------------
(***************************************************************************)
(* The qcow2 runner of the commit guest: every data cluster of the overlay *)
(* is written into the backing image through the write engine, the staged  *)
(* metadata is flushed, and then the overlay's entries are zeroed.  The    *)
(* engine appears at the grain of its device writes (Qcow2Write has its    *)
(* windows and stages); the operation may stop anywhere and be run again.  *)
(***************************************************************************)
EXTENDS Integers, FiniteSets

CONSTANTS NGuest,     \* overlay_cluster_count
          Entries,    \* entries of an L2 table
          NHost,      \* clusters of the backing device
          Slots,      \* L2 tables the engine keeps staged
          MaxRuns,    \* bound: invocations of commit
          Overlays,   \* kinds of the overlay's L2 entries a run starts with
          Backings    \* the backing images a run starts with

Guest == 0..(NGuest - 1)
Table == 0..((NGuest - 1) \div Entries)
Index == 0..(Entries - 1)
Host == 1..NHost
Kind == {"none", "data", "zero", "zeroAt", "compressed"}
Torn == 99
NoRun == [l1 |-> [t \in Table |-> 0], rc |-> [h \in Host |-> 0]]
EmptyTable == [x \in Index |-> 0]
\* The parts of the staged metadata besides the tables.
L1 == -1
Refcounts == -2

ASSUME CommitAssumption ==
    /\ NGuest \in Nat \ {0} /\ Entries \in Nat \ {0} /\ NHost \in Nat
    /\ Slots \in Nat \ {0} /\ MaxRuns \in Nat
    /\ Overlays \subseteq [Guest -> Kind]

VARIABLES
    ov, orc,    \* the overlay device: entry kinds, counts of their clusters
    osnap,      \* the overlay has internal snapshots
    dev,        \* the backing device: l1, l2, rc, data
    kept,       \* backing clusters its snapshots hold, with their contents
    saved,      \* the backing device at the last fsync
    want,       \* what the guest saw when commit was first invoked
    sov,        \* staged overlay entries
    st,         \* staged backing: l1, rc
    win,        \* the L2 window: staged table -> its entries
    dirty,      \* what to write back: tables, L1 and Refcounts
    limit,      \* backing clusters covered by refcount blocks
    i, pc,
    runs, flushed, cut  \* cut: power has been lost

overlay == <<ov, orc, osnap>>
staged == <<sov, st, win, dirty, limit>>
ghosts == <<kept, want, runs, flushed, cut>>
vars == <<overlay, dev, saved, staged, i, pc, ghosts>>

TableOf(c) == c \div Entries
Entry(tbl, c) == tbl[c % Entries]

\* What the backing image alone reads at c: nothing deeper is allocated.
BackingView(c) ==
    LET h == dev.l1[TableOf(c)]
        d == IF h = 0 THEN 0 ELSE Entry(dev.l2[h], c)
    IN IF d = 0 THEN 0 ELSE dev.data[d]

OverlayData(c) == 10 + c
ChainRead(c) ==
    CASE ov[c] = "none" -> BackingView(c)
      [] ov[c] \in {"zero", "zeroAt"} -> 0
      [] OTHER -> OverlayData(c)

HasHost(k) == k \in {"data", "zeroAt", "compressed"}

Init ==
    /\ ov \in Overlays
    /\ orc = [c \in Guest |-> IF HasHost(ov[c]) THEN 1 ELSE 0]
    /\ osnap \in BOOLEAN
    /\ \E b \in Backings : dev = b.dev /\ kept = b.kept
    /\ saved = dev
    /\ want = [c \in Guest |-> ChainRead(c)]
    /\ sov = ov /\ st = NoRun /\ win = <<>> /\ dirty = {} /\ limit = 0
    /\ i = 0 /\ pc = "idle" /\ runs = 0 /\ flushed = FALSE /\ cut = FALSE

-----------------------------------------------------------------------------
\* The entries the merge loop will write: zero flags are not looked at.
Allocated(entries) == {c \in Guest : entries[c] \in {"data", "zeroAt"}}

MaxOf(S) == CHOOSE x \in S : \A y \in S : y <= x
\* backing_file_end_clusters: from refcounts alone.
FileEnd(rc) == MaxOf({0} \cup {h \in Host : rc[h] > 0})

\* A data cluster and an L2 table for each.
WorstCase(entries) == 2 * Cardinality(Allocated(entries))

\* The growth planner refuses what its buffers cannot hold.
RefuseGrowth ==
    /\ pc = "idle" /\ runs < MaxRuns
    /\ FileEnd(dev.rc) + WorstCase(ov) > NHost
    /\ pc' = "exhausted" /\ runs' = runs + 1
    /\ UNCHANGED <<overlay, dev, saved, staged, i, kept, want, flushed, cut>>

\* Stage both images and grow the refcounts for the worst case.
Start ==
    /\ pc = "idle" /\ runs < MaxRuns
    /\ FileEnd(dev.rc) + WorstCase(ov) <= NHost
    /\ sov' = ov
    /\ st' = [l1 |-> dev.l1, rc |-> dev.rc]
    /\ win' = <<>> /\ dirty' = {}
    /\ limit' = FileEnd(dev.rc) + WorstCase(ov)
    /\ i' = 0 /\ pc' = "merge" /\ runs' = runs + 1
    /\ UNCHANGED <<overlay, dev, saved, kept, want, flushed, cut>>

Refuse ==
    /\ pc' = "refused"
    /\ UNCHANGED <<overlay, dev, saved, staged, i, ghosts>>

\* alloc_cluster: the lowest free cluster that a refcount block covers.
Free(rc) == {h \in 1..limit : rc[h] = 0}
Lowest(S) == CHOOSE x \in S : \A y \in S : x <= y

StagedRc(h) == IF h = 0 THEN 0 ELSE st.rc[h]
\* Mutant of Owned: sharing is not looked at.
OwnedBlind(h) == StagedRc(h) >= 1
\* classify_l2_entry, validate_l1_entry: written in place, replaced by a new
\* cluster (unallocated or shared), or refused.
Owned(h) == StagedRc(h) = 1
Replaced(h) == ~Owned(h) /\ (h = 0 \/ StagedRc(h) > 1)
Uncounted(h) == h # 0 /\ ~Owned(h) /\ StagedRc(h) = 0

\* Take a cluster, and give back the shared one it replaces.
Claim(h, old) ==
    [x \in Host |-> IF x = h THEN 1
                    ELSE IF x = old THEN st.rc[x] - 1 ELSE st.rc[x]]

SkipEntry ==
    /\ pc = "merge" /\ i < NGuest /\ sov[i] \in {"none", "zero"}
    /\ i' = i + 1
    /\ UNCHANGED <<overlay, dev, saved, staged, pc, ghosts>>

RefuseCompressed ==
    /\ pc = "merge" /\ i < NGuest /\ sov[i] = "compressed"
    /\ Refuse

Merging == pc = "merge" /\ i < NGuest /\ sov[i] \in {"data", "zeroAt"}
T == TableOf(i)
Here == st.l1[T]

\* The walk is ascending, so the least recently used table is the lowest one.
\* Its write-back is the only metadata write before the flush.
Evict ==
    /\ Merging /\ T \notin DOMAIN win /\ Cardinality(DOMAIN win) = Slots
    /\ LET v == Lowest(DOMAIN win)
       IN /\ dev' = IF v \in dirty
                    THEN [dev EXCEPT !.l2[st.l1[v]] = win[v]] ELSE dev
          /\ win' = [t \in DOMAIN win \ {v} |-> win[t]]
          /\ dirty' = dirty \ {v}
    /\ UNCHANGED <<overlay, saved, sov, st, limit, i, pc, ghosts>>

NeedsTable == Merging /\ T \notin DOMAIN win /\ Cardinality(DOMAIN win) < Slots

\* An owned table is loaded; none, or a shared one, gets a cluster.
LoadTable ==
    /\ NeedsTable /\ Owned(Here)
    /\ win' = [t \in DOMAIN win \cup {T} |->
                 IF t = T THEN dev.l2[Here] ELSE win[t]]
    /\ UNCHANGED <<overlay, dev, saved, sov, st, dirty, limit, i, pc, ghosts>>

NewTable ==
    /\ NeedsTable /\ Replaced(Here)
    /\ Free(st.rc) # {}
    /\ LET h == Lowest(Free(st.rc))
       IN st' = [l1 |-> [st.l1 EXCEPT ![T] = h], rc |-> Claim(h, Here)]
    /\ win' = [t \in DOMAIN win \cup {T} |->
                 IF t # T THEN win[t]
                 ELSE IF Here = 0 THEN EmptyTable ELSE dev.l2[Here]]
    /\ dirty' = dirty \cup {T, L1, Refcounts}
    /\ UNCHANGED <<overlay, dev, saved, sov, limit, i, pc, ghosts>>

Ready == Merging /\ T \in DOMAIN win
Old == Entry(win[T], i)

\* Mutant of Overwrite: a cluster the backing already has is left alone.
OverwriteSkips ==
    /\ Ready /\ Owned(Old)
    /\ i' = i + 1
    /\ UNCHANGED <<overlay, dev, saved, staged, pc, ghosts>>
Overwrite ==
    /\ Ready /\ Owned(Old)
    /\ dev' = [dev EXCEPT !.data[Old] = OverlayData(i)]
    /\ i' = i + 1
    /\ UNCHANGED <<overlay, saved, staged, pc, ghosts>>

\* Unallocated, or shared with a snapshot.
Place ==
    /\ Ready /\ Replaced(Old)
    /\ Free(st.rc) # {}
    /\ LET h == Lowest(Free(st.rc))
       IN /\ dev' = [dev EXCEPT !.data[h] = OverlayData(i)]
          /\ st' = [st EXCEPT !.rc = Claim(h, Old)]
          /\ win' = [win EXCEPT ![T][i % Entries] = h]
    /\ dirty' = dirty \cup {T, Refcounts}
    /\ i' = i + 1
    /\ UNCHANGED <<overlay, saved, sov, limit, pc, ghosts>>

\* RefcountInconsistent: something referenced has refcount 0.
RefuseUncounted ==
    /\ (NeedsTable /\ Uncounted(Here)) \/ (Ready /\ Uncounted(Old))
    /\ Refuse

Merged1 ==
    /\ pc = "merge" /\ i = NGuest
    /\ pc' = "flush"
    /\ UNCHANGED <<overlay, dev, saved, staged, i, ghosts>>

\* plan_flush: tables, then the L1, then the refcounts.
FlushTable ==
    /\ pc = "flush"
    /\ \E t \in dirty \cap Table :
          /\ dev' = [dev EXCEPT !.l2[st.l1[t]] = win[t]]
          /\ dirty' = dirty \ {t}
    /\ UNCHANGED <<overlay, saved, sov, st, win, limit, i, pc, ghosts>>

FlushL1 ==
    /\ pc = "flush" /\ dirty \cap Table = {} /\ L1 \in dirty
    /\ dev' = [dev EXCEPT !.l1 = st.l1]
    /\ dirty' = dirty \ {L1}
    /\ UNCHANGED <<overlay, saved, sov, st, win, limit, i, pc, ghosts>>

\* Mutant of FlushRefcounts: they are dropped from the flush.
FlushNoRefcounts ==
    /\ pc = "flush" /\ dirty = {Refcounts}
    /\ dirty' = {}
    /\ UNCHANGED <<overlay, dev, saved, sov, st, win, limit, i, pc, ghosts>>
FlushRefcounts ==
    /\ pc = "flush" /\ dirty = {Refcounts}
    /\ dev' = [dev EXCEPT !.rc = st.rc]
    /\ dirty' = {}
    /\ UNCHANGED <<overlay, saved, sov, st, win, limit, i, pc, ghosts>>

\* Mutant of Flushed: the clear pass does not wait for the flush.
FlushedEarly ==
    /\ pc = "flush" /\ (dirty = {} \/ ~osnap)
    /\ pc' = IF osnap THEN "ok" ELSE "clear"
    /\ i' = 0 /\ flushed' = TRUE
    /\ UNCHANGED <<overlay, dev, saved, staged, kept, want, runs, cut>>
\* The clear pass is skipped for an overlay with snapshots.
Flushed ==
    /\ pc = "flush" /\ dirty = {}
    /\ pc' = IF osnap THEN "ok" ELSE "clear"
    /\ i' = 0 /\ flushed' = TRUE
    /\ UNCHANGED <<overlay, dev, saved, staged, kept, want, runs, cut>>

\* Mutant of ClearEntry: the count is zeroed before the entry.
ClearCountFirst ==
    /\ pc = "clear" /\ i < NGuest /\ sov[i] \in {"data", "zeroAt"}
    /\ orc' = [orc EXCEPT ![i] = 0] /\ pc' = "clearCount"
    /\ UNCHANGED <<ov, osnap, dev, saved, staged, i, ghosts>>
\* Two writes for each merged cluster: its entry, then its refcount.
ClearEntry ==
    /\ pc = "clear" /\ i < NGuest /\ sov[i] \in {"data", "zeroAt"}
    /\ ov' = [ov EXCEPT ![i] = "none"] /\ pc' = "clearCount"
    /\ UNCHANGED <<orc, osnap, dev, saved, staged, i, ghosts>>
ClearCount ==
    /\ pc = "clearCount"
    /\ orc' = [orc EXCEPT ![i] = 0]
    /\ i' = i + 1 /\ pc' = "clear"
    /\ UNCHANGED <<ov, osnap, dev, saved, staged, ghosts>>

ClearSkip ==
    /\ pc = "clear" /\ i < NGuest /\ sov[i] \notin {"data", "zeroAt"}
    /\ i' = i + 1
    /\ UNCHANGED <<overlay, dev, saved, staged, pc, ghosts>>

Cleared ==
    /\ pc = "clear" /\ i = NGuest
    /\ pc' = "ok"
    /\ UNCHANGED <<overlay, dev, saved, staged, i, ghosts>>

Running == pc \in {"merge", "flush", "clear", "clearCount"}

\* A device error or a killed process; a data write in flight may be torn.
Stop ==
    /\ Running
    /\ \/ UNCHANGED dev
       \/ Ready /\ Owned(Old) /\ dev' = [dev EXCEPT !.data[Old] = Torn]
    /\ pc' = "failed"
    /\ UNCHANGED <<overlay, saved, staged, i, ghosts>>

\* The host loses power: the overlay's writes were kept, the backing's lost.
PowerCut ==
    /\ Running
    /\ dev' = saved
    /\ pc' = "failed" /\ cut' = TRUE /\ flushed' = FALSE
    /\ UNCHANGED <<overlay, saved, staged, i, kept, want, runs>>

\* The operator runs the command again.
Again ==
    /\ pc \in {"ok", "refused", "exhausted", "failed"} /\ runs < MaxRuns
    /\ pc' = "idle"
    /\ UNCHANGED <<overlay, dev, saved, staged, i, ghosts>>

Merge == SkipEntry \/ RefuseCompressed \/ Evict \/ LoadTable \/ NewTable
         \/ Overwrite \/ Place \/ RefuseUncounted \/ Merged1
Flush == FlushTable \/ FlushL1 \/ FlushRefcounts \/ Flushed
Clear == ClearEntry \/ ClearCount \/ ClearSkip \/ Cleared

Next == RefuseGrowth \/ Start \/ Merge \/ Flush \/ Clear \/ Stop \/ PowerCut \/ Again

Spec == Init /\ [][Next]_vars
-----------------------------------------------------------------------------

\* Reading through the overlay returns the same bytes before, during and after
\* commit, wherever it is stopped and however often it is run, as long as no
\* power is lost: "reading through it returns the same bytes the backing now
\* has".
ChainView == ~cut => \A c \in Guest : ChainRead(c) = want[c]

\* After a successful commit the backing alone has what the guest saw.
Merged == pc = "ok" /\ ~cut => \A c \in Guest : BackingView(c) = want[c]

\* The clear pass leaves at worst a leak: an overlay entry that still names a
\* cluster has it counted.
OverlayCounted == \A c \in Guest : HasHost(ov[c]) => orc[c] = 1

\* What the backing's snapshots hold is never written, by any run.
SnapshotsKept ==
    \A h \in DOMAIN kept.data : dev.data[h] = kept.data[h]
SnapshotTables ==
    \A h \in DOMAIN kept.l2 : dev.l2[h] = kept.l2[h]
BackingSnapshots == SnapshotsKept /\ SnapshotTables

\* Once a run has flushed, no later run meets metadata it has to refuse:
\* "Subsequent `instar commit` invocations are idempotent".
Rerunnable == flushed => pc # "refused"

-----------------------------------------------------------------------------
(***************************************************************************)
(* The commit guest: _start reads the overlay's format and hands over to   *)
(* the qcow2 runner, above, or to the vmdk runner (CommitVmdk).            *)
(***************************************************************************)

CONSTANTS NGrain, GrainEntries, FileSize, MinHint, VmdkOverlays

VARIABLES format,   \* of the overlay: "qcow2" or "vmdk"
          vov, vgd, vgt, vdata, vwant, vsov, vsgt, vdirty, vnext, vi, vpc

V == INSTANCE CommitVmdk WITH
        Entries <- GrainEntries, Overlays <- VmdkOverlays,
        ov <- vov, gd <- vgd, gt <- vgt, data <- vdata, want <- vwant,
        sov <- vsov, sgt <- vsgt, dirty <- vdirty, next <- vnext,
        i <- vi, pc <- vpc

vmdk == <<vov, vgd, vgt, vdata, vwant, vsov, vsgt, vdirty, vnext, vi, vpc>>
Absent == <<>>

\* The runner that was not chosen keeps a state it never leaves.
NoQcow2 == /\ Init
           /\ ov = [c \in Guest |-> "none"] /\ ~osnap
           /\ dev.l1 = [t \in Table |-> 0]
NoVmdk == /\ vov = Absent /\ vgd = Absent /\ vgt = Absent /\ vdata = Absent
          /\ vwant = Absent /\ vsov = Absent /\ vsgt = Absent
          /\ vdirty = Absent /\ vnext = Absent /\ vi = Absent /\ vpc = Absent

OpInit == \/ format = "qcow2" /\ Init /\ NoVmdk
          \/ format = "vmdk" /\ V!Init /\ NoQcow2

Qcow2Step == format = "qcow2" /\ Next /\ UNCHANGED <<format, vmdk>>
VmdkStep == format = "vmdk" /\ V!Next /\ UNCHANGED <<format, vars>>

OpSpec == OpInit /\ [][Qcow2Step \/ VmdkStep]_<<format, vars, vmdk>>
-----------------------------------------------------------------------------
\* Reading through the overlay returns the same bytes before, during and after
\* commit, wherever it is stopped and however often it is run (for qcow2, as
\* long as no power is lost): an entry or grain of the overlay is cleared only
\* once the backing has what it held.
OverlayView == ChainView /\ (format = "vmdk" => V!ChainView)
=============================================================================
