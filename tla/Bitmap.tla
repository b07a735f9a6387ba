------------------------------- MODULE Bitmap -------------------------------
(***************************************************************************)
(* The bitmap operation on the persistent dirty bitmaps of a qcow2 image   *)
(* (operations/bitmap/src/main.rs, crates/bitmap): a list of add, remove,  *)
(* clear, enable and disable actions on one bitmap, and merge.             *)
(*                                                                         *)
(* The bitmaps extension in the header names a directory; a directory      *)
(* entry names the table of a bitmap; a table entry is "all zeroes" (0),   *)
(* "all ones" (Ones), or the cluster that holds the bits.  The autoclear   *)
(* bit says that the bitmaps may be believed.                              *)
(***************************************************************************)
EXTENDS Image

CONSTANTS
    BNames,       \* names of bitmaps
    ActionLists,  \* the action lists a user may give
    MergeLists,   \* the source lists a user may give
    TabSize,      \* entries of a bitmap table
    Bit,          \* the bits that one bitmap data cluster holds
    MaxBitmaps    \* entries a directory has room for

Ones == N + 1
TabIdx == 1..TabSize
Directory(d) == [dir |-> d]
BitTable(t) == [bt |-> t]
Bits(b) == [bits |-> b]
ZeroTable == BitTable([i \in TabIdx |-> 0])

BitTableAt(cl, c) ==
    IF "bt" \in DOMAIN cl[c] THEN cl[c].bt ELSE [i \in TabIdx |-> 0]
BitsAt(cl, c) == IF "bits" \in DOMAIN cl[c] THEN cl[c].bits ELSE {}

\* The staged directory: as many entries as the extension says.
Dir(m) ==
    IF m.hdr.bm.nb = 0 \/ "dir" \notin DOMAIN m.cl[m.hdr.bm.dir]
    THEN <<>>
    ELSE SubSeq(m.cl[m.hdr.bm.dir].dir, 1, m.hdr.bm.nb)

Find(dir, name) ==
    LET hits == {k \in 1..Len(dir) : dir[k].name = name}
    IN  IF hits = {} THEN 0 ELSE Min(hits)

\* The extension is there, but the autoclear bit is not.
Inconsistent(m) == m.hdr.bm.nb > 0 /\ ~m.hdr.auto

(***************************************************************************)
(* The gates of run_qcow2.                                                 *)
(***************************************************************************)
BitmapGates(m, actions) ==
    /\ m.hdr.ver = 3 /\ ~m.hdr.corrupt
    /\ Inconsistent(m) => \A k \in 1..Len(actions) : actions[k] = "remove"

(***************************************************************************)
(* One action on the staged directory and refcounts.  A table in `zeros`   *)
(* is still to be zeroed on the disk, so it has no clusters to free.       *)
(***************************************************************************)
FreeAll(rc, S) == [c \in Cluster |-> IF c \in S THEN 0 ELSE rc[c]]

DataClusters(cl, tab) == {BitTableAt(cl, tab)[i] : i \in TabIdx} \cap Cluster

Act(m, st, a, name) ==
    LET k == Find(st.dir, name)
        e == st.dir[k]
        t == FirstFree(st.rc, st.cursor)
        stale == \E z \in 1..Len(st.zeros) : st.zeros[z] = e.tab
        walked == IF stale THEN {} ELSE DataClusters(m.cl, e.tab)
    IN  CASE a = "add" ->
               IF k # 0 \/ t = 0 \/ Len(st.dir) >= MaxBitmaps
               THEN [st EXCEPT !.ok = FALSE]
               ELSE [st EXCEPT
                       !.rc[t] = 1, !.cursor = t + 1,
                       !.zeros = Append(@, t),
                       !.dir = Append(@, [name |-> name, tab |-> t,
                                          auto |-> TRUE, inuse |-> FALSE])]
          [] a = "remove" ->
               IF k = 0 THEN [st EXCEPT !.ok = FALSE]
               ELSE [st EXCEPT !.rc = FreeAll(@, {e.tab} \cup walked),
                               !.dir = RemoveAt(@, k)]
          [] a = "clear" ->
               IF k = 0 \/ e.inuse THEN [st EXCEPT !.ok = FALSE]
               ELSE [st EXCEPT !.rc = FreeAll(@, walked),
                               !.zeros = Append(@, e.tab)]
          [] OTHER ->
               IF k = 0 \/ e.inuse THEN [st EXCEPT !.ok = FALSE]
               ELSE [st EXCEPT !.dir[k].auto = (a = "enable")]

\* The action loop: nothing is written unless every action succeeds.
RunActions(m, name, actions) ==
    LET run[k \in 0..Len(actions)] ==
            IF k = 0
            THEN [ok |-> TRUE, rc |-> m.rc, dir |-> Dir(m), zeros |-> <<>>,
                  cursor |-> 1]
            ELSE IF run[k - 1].ok THEN Act(m, run[k - 1], actions[k], name)
                                  ELSE run[k - 1]
    IN  run[Len(actions)]

AutoStep(h, set) == HdrStep([h EXCEPT !.auto = set]) \o SyncIgnored

\* A directory written in place leaves what was behind its end.
OverDir(m, at, dir) ==
    LET old == IF "dir" \in DOMAIN m.cl[at] THEN m.cl[at].dir ELSE <<>>
    IN  Directory(dir \o SubSeq(old, Len(dir) + 1, Len(old)))

(***************************************************************************)
(* write_back: the autoclear bit off; zeroed tables, the directory and the *)
(* refcounts; the extension; the autoclear bit on while bitmaps are left.  *)
(***************************************************************************)
DirPlace(m, st) ==
    IF st.dir = <<>> THEN 0
    ELSE IF m.hdr.bm.dir # 0 THEN m.hdr.bm.dir ELSE FirstFree(st.rc, 1)

WriteBack(m, st) ==
    LET d == DirPlace(m, st)
        rc == IF d # 0 THEN [st.rc EXCEPT ![d] = 1]
              ELSE FreeAll(st.rc, {m.hdr.bm.dir} \ {0})
        off == [m.hdr EXCEPT !.auto = FALSE]
        ext == [off EXCEPT !.bm = [nb |-> Len(st.dir), dir |-> d]]
    IN  AutoStep(m.hdr, FALSE)
          \o FlattenSeq([z \in 1..Len(st.zeros) |->
                            ClStep(st.zeros[z], ZeroTable)])
          \o (IF d = 0 THEN <<>> ELSE ClStep(d, OverDir(m, d, st.dir)))
          \o RcSteps(m.rc, rc) \o SyncIgnored
          \o HdrStep(ext) \o SyncIgnored
          \o (IF d = 0 THEN <<>> ELSE AutoStep(ext, TRUE))

BitmapRun(name, actions) ==
    LET st == RunActions(mem, name, actions)
    IN  /\ Idle
        /\ BitmapGates(mem, actions)
        /\ st.ok
        /\ st.dir # <<>> => DirPlace(mem, st) # 0
        /\ Begin("bitmap", <<name, actions>>, WriteBack(mem, st))

(***************************************************************************)
(* merge: for every source and every table index, what merge_cluster_action*)
(* says, written at once; the refcounts follow when all sources are done.  *)
(* It stops where it stands when no cluster is free.                       *)
(***************************************************************************)

\* Mutant of MergeOne: the source's bits replace the destination's.
MergeOneCopies(st, sT, dT, i) ==
    LET src == BitTableAt(st.m.cl, sT)[i]
        dst == BitTableAt(st.m.cl, dT)[i]
        new == FirstFree(st.rc, st.cursor)
        entry(x) == ClStep(dT, BitTable([BitTableAt(st.m.cl, dT) EXCEPT ![i] = x]))
        then(prog, rc, cursor) ==
            [st EXCEPT !.m = Outcome(st.m, prog), !.prog = @ \o prog,
                       !.rc = rc, !.cursor = cursor]
    IN  CASE src = 0 \/ dst = Ones -> st
          [] src = Ones /\ dst # Ones ->
               then(entry(Ones), FreeAll(st.rc, {dst} \ {0}), st.cursor)
          [] src \in Cluster /\ dst \in Cluster ->
               then(ClStep(dst, Bits(BitsAt(st.m.cl, src))),
                    st.rc, st.cursor)
          [] OTHER ->
               IF new = 0 THEN [st EXCEPT !.ok = FALSE]
               ELSE then(ClStep(new, Bits(BitsAt(st.m.cl, src))) \o entry(new),
                         [st.rc EXCEPT ![new] = 1], new + 1)

MergeOne(st, sT, dT, i) ==
    LET src == BitTableAt(st.m.cl, sT)[i]
        dst == BitTableAt(st.m.cl, dT)[i]
        new == FirstFree(st.rc, st.cursor)
        entry(x) == ClStep(dT, BitTable([BitTableAt(st.m.cl, dT) EXCEPT ![i] = x]))
        then(prog, rc, cursor) ==
            [st EXCEPT !.m = Outcome(st.m, prog), !.prog = @ \o prog,
                       !.rc = rc, !.cursor = cursor]
    IN  CASE src = 0 \/ dst = Ones -> st
          [] src = Ones /\ dst # Ones ->
               then(entry(Ones), FreeAll(st.rc, {dst} \ {0}), st.cursor)
          [] src \in Cluster /\ dst \in Cluster ->
               then(ClStep(dst, Bits(BitsAt(st.m.cl, src) \cup BitsAt(st.m.cl, dst))),
                    st.rc, st.cursor)
          [] OTHER ->
               IF new = 0 THEN [st EXCEPT !.ok = FALSE]
               ELSE then(ClStep(new, Bits(BitsAt(st.m.cl, src))) \o entry(new),
                         [st.rc EXCEPT ![new] = 1], new + 1)

\* Mutant of MergeProg: the bitmaps are vouched for before they are counted.
MergeProgTrusts(m, dest, sources) ==
    LET dir == Dir(m)
        dT == dir[Find(dir, dest)].tab
        others == SelectSeq(sources, LAMBDA s : s # dest)
        tabs == [k \in 1..Len(others) |-> dir[Find(dir, others[k])].tab]
        off == AutoStep(m.hdr, FALSE)
        run[k \in 0..(Len(others) * TabSize)] ==
            IF k = 0
            THEN [ok |-> TRUE, m |-> m, rc |-> m.rc, cursor |-> 1, prog |-> <<>>]
            ELSE IF run[k - 1].ok
                 THEN MergeOne(run[k - 1], tabs[((k - 1) \div TabSize) + 1], dT,
                               ((k - 1) % TabSize) + 1)
                 ELSE run[k - 1]
        done == run[Len(others) * TabSize]
    IN  off \o done.prog
          \o (IF done.ok THEN SyncIgnored \o AutoStep(m.hdr, TRUE)
                              \o RcSteps(m.rc, done.rc) \o SyncIgnored
              ELSE <<>>)

MergeProg(m, dest, sources) ==
    LET dir == Dir(m)
        dT == dir[Find(dir, dest)].tab
        others == SelectSeq(sources, LAMBDA s : s # dest)
        tabs == [k \in 1..Len(others) |-> dir[Find(dir, others[k])].tab]
        off == AutoStep(m.hdr, FALSE)
        run[k \in 0..(Len(others) * TabSize)] ==
            IF k = 0
            THEN [ok |-> TRUE, m |-> m, rc |-> m.rc, cursor |-> 1, prog |-> <<>>]
            ELSE IF run[k - 1].ok
                 THEN MergeOne(run[k - 1], tabs[((k - 1) \div TabSize) + 1], dT,
                               ((k - 1) % TabSize) + 1)
                 ELSE run[k - 1]
        done == run[Len(others) * TabSize]
    IN  off \o done.prog
          \o (IF done.ok THEN SyncIgnored \o RcSteps(m.rc, done.rc) \o SyncIgnored
                              \o AutoStep(m.hdr, TRUE)
              ELSE <<>>)

\* merge_validate for every source, before any write.  A bitmap merged into
\* itself alone is left as it is.
MergeOK(m, dest, sources) ==
    LET dir == Dir(m)
        usable(n) == Find(dir, n) # 0 /\ ~dir[Find(dir, n)].inuse
    IN  /\ BitmapGates(m, <<"merge">>)
        /\ usable(dest)
        /\ \A k \in 1..Len(sources) : usable(sources[k])
        /\ \E k \in 1..Len(sources) : sources[k] # dest

Merge(dest, sources) ==
    /\ Idle
    /\ MergeOK(mem, dest, sources)
    /\ Begin("merge", <<dest, sources>>, MergeProg(mem, dest, sources))
=============================================================================
