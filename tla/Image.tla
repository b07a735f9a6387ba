------------------------------- MODULE Image -------------------------------
(***************************************************************************)
(* One qcow2 image that the mutating operations (snapshot, check --repair, *)
(* bitmap, amend, a guest write) change in place, one after another.       *)
(*                                                                         *)
(* Every one of these operations stages what it reads and computes all its *)
(* changes in guest memory before its first write, so an invocation is a   *)
(* program: a sequence of writes and barriers (`todo`).  This module holds *)
(* the image, the executor of such a program, and what may go wrong while  *)
(* it runs: a failed write, a failed fsync, and a crash that leaves any    *)
(* mix of the unflushed sectors on the disk.                               *)
(*                                                                         *)
(* An image is a record:                                                   *)
(*   hdr  sector 0: the version (ver), the snapshot table pointer (nb,     *)
(*        tab), in version 3 the corrupt bit, the lazy-refcounts bit and   *)
(*        the bitmaps autoclear bit (auto), the length of the backing      *)
(*        format name in the first extension (fmt; 0 for none), and the    *)
(*        bitmaps extension (bm)                                           *)
(*   l1   the active L1 table                                              *)
(*   rc   the refcounts, RcPerSector of them to a sector                   *)
(*   cl   the contents of the clusters the refcounts count                 *)
(* The header, L1, refcount table and refcount block clusters are fixed    *)
(* and not among the clusters 1..N.                                        *)
(***************************************************************************)
EXTENDS Naturals, Sequences, FiniteSets, FiniteSetsExt, SequencesExt

CONSTANTS
    N,            \* clusters 1..N; 0 is "no cluster"
    L1Size,       \* entries of an L1 table
    L2Size,       \* entries of an L2 table
    RcMax,        \* the largest count a refcount entry holds
    RcPerSector,  \* refcount entries in one sector
    Images,       \* the images the first invocation may find
    MaxOps,       \* bound on the number of invocations
    MaxFaults,    \* bound on the number of faults
    FaultFree     \* operations that run to their end undisturbed

VARIABLES
    mem,     \* the image as reads see it
    disk,    \* the image that is certain to survive a crash
    todo,    \* what the running invocation still has to write
    last,    \* the last invocation: its name, its arguments, the image it
             \* found and the one it leaves if nothing goes wrong
    ops,     \* invocations so far
    faults   \* faults so far

vars == <<mem, disk, todo, last, ops, faults>>

Cluster == 1..N
L1Idx == 1..L1Size
L2Idx == 1..L2Size
Sector == 0..((N - 1) \div RcPerSector)
SectorOf(c) == (c - 1) \div RcPerSector

(***************************************************************************)
(* Contents of a cluster.  A reader that finds another kind of content     *)
(* than it expects finds an empty table, or a value no guest wrote.        *)
(***************************************************************************)
Data(v) == [data |-> v]
Table2(t) == [l2 |-> t]
Table1(t) == [l1 |-> t]
SnapTable(s) == [snaps |-> s]
Garbage == 99

NoEntry == [to |-> 0, copied |-> FALSE]

L2At(cl, c) ==
    IF "l2" \in DOMAIN cl[c] THEN cl[c].l2 ELSE [j \in L2Idx |-> NoEntry]

L1At(cl, c) ==
    IF "l1" \in DOMAIN cl[c] THEN cl[c].l1 ELSE [i \in L1Idx |-> NoEntry]

DataAt(cl, c) ==
    IF "data" \in DOMAIN cl[c] THEN cl[c].data ELSE Garbage

Snaps(m) ==
    IF m.hdr.nb = 0 \/ "snaps" \notin DOMAIN m.cl[m.hdr.tab]
    THEN <<>>
    ELSE m.cl[m.hdr.tab].snaps

(***************************************************************************)
(* How often the chain below an L1 table refers to cluster c: the L2 table *)
(* of every used L1 entry, and the data cluster of every used L2 entry.    *)
(***************************************************************************)
ChainRefs(l1, cl, c) ==
    Cardinality({i \in L1Idx : l1[i].to = c})
      + Cardinality({p \in L1Idx \X L2Idx :
                       /\ l1[p[1]].to # 0
                       /\ L2At(cl, l1[p[1]].to)[p[2]].to = c})

(***************************************************************************)
(* The update of the refcounts over a whole chain, and the dry run that    *)
(* refuses one that would leave 0..RcMax.                                  *)
(***************************************************************************)
Raise(rc, l1, cl) == [c \in Cluster |-> rc[c] + ChainRefs(l1, cl, c)]
Lower(rc, l1, cl) == [c \in Cluster |-> rc[c] - ChainRefs(l1, cl, c)]

CanRaise(rc, l1, cl) ==
    \A c \in Cluster : ChainRefs(l1, cl, c) > 0 =>
        rc[c] + ChainRefs(l1, cl, c) <= RcMax
CanLower(rc, l1, cl) == \A c \in Cluster : ChainRefs(l1, cl, c) <= rc[c]

LowerOne(rc, c) == IF c = 0 THEN rc ELSE [rc EXCEPT ![c] = @ - 1]

(***************************************************************************)
(* First fit: the lowest cluster from `cursor` on whose count is zero; 0   *)
(* when there is none.                                                     *)
(***************************************************************************)
FirstFree(rc, cursor) ==
    LET free == {c \in Cluster : c >= cursor /\ rc[c] = 0}
    IN  IF free = {} THEN 0 ELSE Min(free)

(***************************************************************************)
(* COPIED is set on exactly the entries whose cluster is counted once.     *)
(***************************************************************************)
Fresh(e, rc) ==
    IF e.to = 0 THEN e ELSE [e EXCEPT !.copied = (rc[e.to] = 1)]

FreshL1(l1, rc) == [i \in L1Idx |-> Fresh(l1[i], rc)]
FreshL2(t, rc) == [j \in L2Idx |-> Fresh(t[j], rc)]

(***************************************************************************)
(* The steps of a program.                                                 *)
(***************************************************************************)
HdrStep(h) == <<[op |-> "hdr", hdr |-> h]>>
L1Step(l1) == <<[op |-> "l1", l1 |-> l1]>>
ClStep(c, content) == <<[op |-> "cl", c |-> c, content |-> content]>>

\* The sectors of the refcount blocks in which `new` differs from `old`.
RcSteps(old, new) ==
    FlattenSeq([k \in 1..Cardinality(Sector) |->
        IF \E c \in Cluster : SectorOf(c) = k - 1 /\ old[c] # new[c]
        THEN <<[op |-> "rc", s |-> k - 1, rc |-> new]>>
        ELSE <<>>])

\* A barrier whose failure ends the invocation, and one whose result the
\* code ignores.
Sync == <<[op |-> "sync", checked |-> TRUE]>>
SyncIgnored == <<[op |-> "sync", checked |-> FALSE]>>

\* The L2 tables of a chain, refreshed, for the tables in `keep`.
L2Steps(l1, cl, rc, keep) ==
    FlattenSeq([i \in L1Idx |->
        IF l1[i].to \in keep
        THEN ClStep(l1[i].to, Table2(FreshL2(L2At(cl, l1[i].to), rc)))
        ELSE <<>>])

Apply(m, s) ==
    CASE s.op = "hdr" -> [m EXCEPT !.hdr = s.hdr]
      [] s.op = "l1" -> [m EXCEPT !.l1 = s.l1]
      [] s.op = "cl" -> [m EXCEPT !.cl[s.c] = s.content]
      [] s.op = "rc" -> [m EXCEPT !.rc =
                           [c \in Cluster |-> IF SectorOf(c) = s.s
                                              THEN s.rc[c] ELSE m.rc[c]]]
      [] OTHER -> m

Outcome(m, prog) ==
    LET run[k \in 0..Len(prog)] ==
            IF k = 0 THEN m ELSE Apply(run[k - 1], prog[k])
    IN  run[Len(prog)]

(***************************************************************************)
(* What an image says: the guest's disk below an L1 table, and every       *)
(* reference to a cluster from the active chain and the snapshots'.        *)
(***************************************************************************)
Disk(l1, cl) ==
    [g \in L1Idx \X L2Idx |->
        LET t == l1[g[1]].to
            d == IF t = 0 THEN 0 ELSE L2At(cl, t)[g[2]].to
        IN  IF d = 0 THEN 0 ELSE DataAt(cl, d)]

SnapRefs(m, c) ==
    MapThenSumSet(LAMBDA k : ChainRefs(L1At(m.cl, Snaps(m)[k].l1), m.cl, c)
                               + (IF Snaps(m)[k].l1 = c THEN 1 ELSE 0),
                  1..Len(Snaps(m)))
      + (IF m.hdr.nb # 0 /\ m.hdr.tab = c THEN 1 ELSE 0)

GuestRefs(m, c) == ChainRefs(m.l1, m.cl, c) + SnapRefs(m, c)

Counted(m) == \A c \in Cluster : GuestRefs(m, c) <= m.rc[c]

Entries(l1, cl) ==
    {l1[i] : i \in L1Idx}
      \cup UNION {{L2At(cl, l1[i].to)[j] : j \in L2Idx} :
                   i \in {x \in L1Idx : l1[x].to # 0}}

CopiedSound(m) ==
    \A e \in Entries(m.l1, m.cl) : e.copied => m.rc[e.to] = 1

(***************************************************************************)
(* The executor.                                                           *)
(***************************************************************************)
Idle == todo = <<>>

Init ==
    /\ mem \in Images
    /\ disk = mem
    /\ todo = <<>>
    /\ last = [op |-> "none", arg |-> <<>>, before |-> mem, after |-> mem]
    /\ ops = 0
    /\ faults = 0

\* An invocation that passed its gates begins.
Begin(op, arg, prog) ==
    /\ ops < MaxOps
    /\ ops' = ops + 1
    /\ todo' = prog
    /\ last' = [op |-> op, arg |-> arg, before |-> mem,
                after |-> Outcome(mem, prog)]
    /\ UNCHANGED <<mem, disk, faults>>

\* write_input_byte_range succeeds on its next sector or cluster.
Write ==
    /\ todo # <<>>
    /\ Head(todo).op # "sync"
    /\ mem' = Apply(mem, Head(todo))
    /\ todo' = Tail(todo)
    /\ UNCHANGED <<disk, last, ops, faults>>

\* fsync_input succeeds.
Fsync ==
    /\ todo # <<>>
    /\ Head(todo).op = "sync"
    /\ disk' = mem
    /\ todo' = Tail(todo)
    /\ UNCHANGED <<mem, last, ops, faults>>

Fault == faults < MaxFaults /\ last.op \notin FaultFree /\ faults' = faults + 1

\* fsync_input fails: ERROR_IO where the result is looked at, and nothing
\* where it is not.
FsyncFails ==
    /\ todo # <<>>
    /\ Head(todo).op = "sync"
    /\ Fault
    /\ todo' = IF Head(todo).checked THEN <<>> ELSE Tail(todo)
    /\ UNCHANGED <<mem, disk, last, ops>>

\* A write fails: every operation returns at once, undoing nothing.
WriteFails ==
    /\ todo # <<>>
    /\ Head(todo).op # "sync"
    /\ Fault
    /\ todo' = <<>>
    /\ UNCHANGED <<mem, disk, last, ops>>

\* The host stops: of what was written since the last barrier, any part is
\* on the disk.
Crash ==
    /\ mem # disk
    /\ Fault
    /\ \E h \in {mem.hdr, disk.hdr}, t \in {mem.l1, disk.l1},
          S \in SUBSET {SectorOf(c) : c \in {x \in Cluster : mem.rc[x] # disk.rc[x]}},
          C \in SUBSET {c \in Cluster : mem.cl[c] # disk.cl[c]} :
         mem' = [hdr |-> h, l1 |-> t,
                 rc |-> [c \in Cluster |-> IF SectorOf(c) \in S
                                           THEN mem.rc[c] ELSE disk.rc[c]],
                 cl |-> [c \in Cluster |-> IF c \in C
                                           THEN mem.cl[c] ELSE disk.cl[c]]]
    /\ disk' = mem'
    /\ todo' = <<>>
    /\ UNCHANGED <<last, ops>>

=============================================================================
