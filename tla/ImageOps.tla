------------------------------ MODULE ImageOps ------------------------------
(***************************************************************************)
(* The operations that change a qcow2 image in place, one after another on *)
(* the same image, and what must be true of the image they leave: when     *)
(* they finish, when a write or an fsync fails, and when the host stops.   *)
(***************************************************************************)
EXTENDS Snapshot, Repair, GuestWrite, Bitmap, Amend

CONSTANTS Ops,        \* the operations a behaviour may invoke
          ReadFaults, \* whether a read of the check walk may fail
          Cautious    \* the user puts an image right, see Allowed

(***************************************************************************)
(* What an image says.                                                     *)
(***************************************************************************)
View(m) ==
    [fmt |-> m.hdr.fmt, disk |-> Disk(m.l1, m.cl),
     snaps |-> [k \in 1..Len(Snaps(m)) |->
                  [name |-> Snaps(m)[k].name, id |-> Snaps(m)[k].id,
                   disk |-> Disk(L1At(m.cl, Snaps(m)[k].l1), m.cl)]]]

\* The bits and the enabled flag of every bitmap.
BitmapView(m) ==
    {[name |-> Dir(m)[k].name, auto |-> Dir(m)[k].auto,
      bits |-> [i \in TabIdx |->
                 LET x == BitTableAt(m.cl, Dir(m)[k].tab)[i]
                 IN  IF x = 0 THEN {} ELSE IF x = Ones THEN Bit
                     ELSE BitsAt(m.cl, x)]] :
     k \in 1..Len(Dir(m))}

(***************************************************************************)
(* The references the bitmaps make to a cluster: to the directory, the     *)
(* tables and the bits.                                                    *)
(***************************************************************************)
BitmapRefs(m, c) ==
    MapThenSumSet(LAMBDA k :
                    Cardinality({i \in TabIdx : BitTableAt(m.cl, Dir(m)[k].tab)[i] = c})
                      + (IF Dir(m)[k].tab = c THEN 1 ELSE 0),
                  1..Len(Dir(m)))
      + (IF m.hdr.bm.nb # 0 /\ m.hdr.bm.dir = c THEN 1 ELSE 0)

-----------------------------------------------------------------------------
(***************************************************************************)
(* One operation runs at a time.  A cautious user repairs an image whose   *)
(* references are not counted before anything else touches it, repairs no  *)
(* image that holds bitmaps, and does nothing with inconsistent bitmaps    *)
(* but remove the last one, or amend the image.                            *)
(***************************************************************************)
Allowed(op) ==
    /\ op \in Ops
    /\ Idle /\ ops < MaxOps
    /\ Cautious =>
         /\ ~Counted(mem) => op = "check"
         /\ mem.hdr.bm.nb > 0 => op # "check"
         /\ Inconsistent(mem) => op = "amend" \/ (op = "bitmap" /\ mem.hdr.bm.nb = 1)

\* snapshot -c, -d, -a
Snapshots ==
    \E n \in Names : \/ Allowed("create") /\ Create(n)
                     \/ Allowed("delete") /\ Delete(n)
                     \/ Allowed("apply") /\ Revert(n)

\* check --repair and --repair=all; one read of the walk may fail.
Repairs ==
    /\ Allowed("check")
    /\ \E all \in (IF Cautious /\ mem.hdr.ver = 2 THEN {FALSE} ELSE BOOLEAN),
          bad \in {NoFailure} \cup (IF ReadFaults THEN ReadFailures ELSE {}) :
         Check(all, bad)

\* A guest write of a cluster, through commit, rebase or bench -w.
Writes ==
    /\ Allowed("write")
    /\ \E i \in L1Idx, j \in L2Idx, v \in Values : GuestWrite(i, j, v)

\* bitmap
Bitmaps ==
    /\ Allowed("bitmap")
    /\ \E n \in BNames :
         \/ \E a \in ActionLists : BitmapRun(n, a)
         \/ \E s \in MergeLists : Merge(n, s)

\* amend
Amendments == Allowed("amend") /\ \E r \in Amends : Amend(r)

Next ==
    \/ Snapshots \/ Repairs \/ Writes \/ Bitmaps \/ Amendments
    \/ Write \/ Fsync \/ FsyncFails \/ WriteFails \/ Crash

Spec == Init /\ [][Next]_vars

-----------------------------------------------------------------------------
(***************************************************************************)
(* Properties.                                                             *)
(***************************************************************************)
\* Whatever interrupts a snapshot, repair or bitmap operation, and in
\* whatever part its unflushed writes survive, no cluster that the active
\* image or a snapshot refers to is counted fewer times than it is referred
\* to (the write groups of run_create, run_delete and run_apply).
NoDangling ==
    Idle /\ last.op # "write" /\ Counted(last.before) => Counted(mem)

\* An operation that runs to its end on an image whose counts are exact, and
\* whose COPIED flags mark only clusters counted once, leaves such an image.
Exact(m) == \A c \in Cluster : m.rc[c] = GuestRefs(m, c) + BitmapRefs(m, c)

NothingLeaks ==
    Idle /\ mem = last.after /\ Exact(last.before) /\ CopiedSound(last.before)
      => Exact(mem) /\ CopiedSound(mem)

\* An all-tier repair that ran to its end left exact counts and flags,
\* whatever the image was like; one that did not left the corrupt bit set,
\* or the image as it was (repair_all_qcow2 and its four steps).  The leaks
\* tier never lowers the count of a cluster that is referred to
\* (repair_leaks_qcow2).
RepairMends ==
    /\ Idle /\ last.op = "all" /\ ~mem.hdr.corrupt =>
         \/ mem = last.before
         \/ /\ mem = last.after /\ Exact(mem)
            /\ \A e \in Entries(mem.l1, mem.cl) :
                 e.copied <=> (e.to # 0 /\ mem.rc[e.to] = 1)
    /\ last.op = "leaks" =>
         \A c \in Cluster : GuestRefs(mem, c) + BitmapRefs(mem, c) > 0 =>
             mem.rc[c] >= last.before.rc[c]

\* While the autoclear bit is set, every cluster of a bitmap is counted once
\* and nothing else refers to it.
BitmapsSound(m) ==
    m.hdr.auto => \A c \in Cluster : BitmapRefs(m, c) > 0 =>
        BitmapRefs(m, c) + GuestRefs(m, c) = 1 /\ m.rc[c] = 1

TrustedBitmaps ==
    Idle /\ BitmapsSound(last.before) => BitmapsSound(mem)

\* What a bitmap invocation promises to make of the bitmaps v.
Named(v, n) == {b \in v : b.name = n}
ActionPromise(v, n, a) ==
    CASE a = "add" -> v \cup {[name |-> n, auto |-> TRUE,
                               bits |-> [i \in TabIdx |-> {}]]}
      [] a = "remove" -> v \ Named(v, n)
      [] a = "clear" -> (v \ Named(v, n))
            \cup {[b EXCEPT !.bits = [i \in TabIdx |-> {}]] : b \in Named(v, n)}
      [] OTHER -> (v \ Named(v, n))
            \cup {[b EXCEPT !.auto = (a = "enable")] : b \in Named(v, n)}

Promise(v, n, actions) ==
    LET p[k \in 0..Len(actions)] ==
            IF k = 0 THEN v ELSE ActionPromise(p[k - 1], n, actions[k])
    IN  p[Len(actions)]

MergePromise(v, n, sources) ==
    LET from == {b \in v : \E k \in 1..Len(sources) : b.name = sources[k]}
        union(d) == [d EXCEPT !.bits = [i \in TabIdx |->
                       d.bits[i] \cup UNION {b.bits[i] : b \in from}]]
    IN  (v \ Named(v, n)) \cup {union(d) : d \in Named(v, n)}

\* Bitmaps that the autoclear bit vouches for are those the last invocation
\* found, or those it promised to make of them: a merge is the union of the
\* bits, and no crash shows a bitmap half changed.
BitmapsAtomic ==
    Idle /\ mem.hdr.auto /\ last.op \in {"bitmap", "merge"} =>
        LET v == BitmapView(last.before)
        IN  BitmapView(mem) \in
              {v, IF last.op = "merge"
                  THEN MergePromise(v, last.arg[1], last.arg[2])
                  ELSE Promise(v, last.arg[1], last.arg[2])}

\* The image refines the store its users are promised: every operation takes
\* effect at one write (the header of create and delete, the L1 of apply, the
\* L2 or L1 of a guest write), and a crash shows the image before or after it.
Store == INSTANCE SnapshotStore
           WITH now <- View(mem), stable <- View(disk),
                Guest <- L1Idx \X L2Idx, Start <- {View(m) : m \in Images}

StoreRefined == Store!SSpec
=============================================================================
