------------------------------ MODULE Snapshot ------------------------------
(***************************************************************************)
(* The snapshot operation on an internal-snapshot qcow2 image: create,     *)
(* delete and apply, each as the program of writes and barriers it issues  *)
(* (operations/snapshot/src/main.rs, crates/snapshot).                     *)
(***************************************************************************)
EXTENDS Image

CONSTANTS
    Names,     \* what a user calls a snapshot; numbers, so a name may
               \* look like an ID
    MaxSnaps   \* entries the staged snapshot table has room for

\* mutating_feature_gates: a corrupt image, and one whose bitmaps are live,
\* is refused.
Gates(m) == ~m.hdr.corrupt /\ ~m.hdr.auto

\* The first entry whose field holds v.
Position(s, field, v) ==
    LET hits == {k \in 1..Len(s) : s[k][field] = v} IN IF hits = {} THEN 0 ELSE Min(hits)

MaxId(s) == IF s = <<>> THEN 0 ELSE Max({s[k].id : k \in 1..Len(s)})

L2Set(l1) == {l1[i].to : i \in L1Idx} \ {0}

WithTable(m, nb, tab) == HdrStep([m.hdr EXCEPT !.nb = nb, !.tab = tab])

(***************************************************************************)
(* create: copy the active L1 verbatim, raise every count below it, clear  *)
(* COPIED where a count is no longer one (group A); write the new table    *)
(* (B); switch the header to it (C); give the old table's cluster back (D).*)
(***************************************************************************)
\* Mutant of CreateProg: the old table keeps its count.
CreateProgKeeps(m, name) ==
    LET snaps == Snaps(m)
        a == FirstFree(m.rc, 1)
        b == FirstFree(m.rc, a + 1)
        taken == [m.rc EXCEPT ![a] = 1, ![b] = 1]
        rc == Raise(taken, m.l1, m.cl)
        new == [name |-> name, id |-> MaxId(snaps) + 1, l1 |-> a]
        groupA == ClStep(a, Table1(m.l1))
                    \o L2Steps(m.l1, m.cl, rc, L2Set(m.l1))
                    \o L1Step(FreshL1(m.l1, rc))
                    \o RcSteps(m.rc, rc)
    IN  groupA \o Sync
          \o ClStep(b, SnapTable(Append(snaps, new))) \o Sync
          \o WithTable(m, Len(snaps) + 1, b) \o Sync

CreateProg(m, name) ==
    LET snaps == Snaps(m)
        a == FirstFree(m.rc, 1)
        b == FirstFree(m.rc, a + 1)
        taken == [m.rc EXCEPT ![a] = 1, ![b] = 1]
        rc == Raise(taken, m.l1, m.cl)
        new == [name |-> name, id |-> MaxId(snaps) + 1, l1 |-> a]
        groupA == ClStep(a, Table1(m.l1))
                    \o L2Steps(m.l1, m.cl, rc, L2Set(m.l1))
                    \o L1Step(FreshL1(m.l1, rc))
                    \o RcSteps(m.rc, rc)
        groupD == RcSteps(rc, LowerOne(rc, m.hdr.tab))
    IN  groupA \o Sync
          \o ClStep(b, SnapTable(Append(snaps, new))) \o Sync
          \o WithTable(m, Len(snaps) + 1, b) \o Sync
          \o (IF snaps = <<>> THEN <<>> ELSE groupD \o Sync)

CreateOK(m) ==
    /\ Gates(m)
    /\ Len(Snaps(m)) < MaxSnaps
    /\ FirstFree(m.rc, 1) # 0
    /\ FirstFree(m.rc, FirstFree(m.rc, 1) + 1) # 0
    /\ CanRaise(m.rc, m.l1, m.cl)

(***************************************************************************)
(* delete: by name only.  A compacted table in a new cluster (A), unless   *)
(* no snapshot remains; the header (B); then the counts of everything the  *)
(* snapshot held, and the COPIED flags they change (C).                    *)
(***************************************************************************)
DeleteVictim(m, name) == Position(Snaps(m), "name", name)

\* Mutant of DeleteProg: the counts are lowered while the table still names
\* the snapshot.
DeleteProgFreesFirst(m, k) ==
    LET snaps == Snaps(m)
        dead == L1At(m.cl, snaps[k].l1)
        left == RemoveAt(snaps, k)
        b == IF left = <<>> THEN 0 ELSE FirstFree(m.rc, 1)
        taken == IF b = 0 THEN m.rc ELSE [m.rc EXCEPT ![b] = 1]
        rc == LowerOne(LowerOne(Lower(taken, dead, m.cl), snaps[k].l1),
                       m.hdr.tab)
        counted == {c \in Cluster : rc[c] > 0}
        groupA == ClStep(b, SnapTable(left)) \o RcSteps(m.rc, taken)
        groupC == RcSteps(taken, rc)
                    \o L1Step(FreshL1(m.l1, rc))
                    \o L2Steps(m.l1, m.cl, rc, L2Set(m.l1))
                    \o L2Steps(dead, m.cl, rc, L2Set(dead) \cap counted)
    IN  (IF left = <<>> THEN <<>> ELSE groupA \o Sync)
          \o groupC \o Sync
          \o WithTable(m, Len(left), b) \o Sync

DeleteProg(m, k) ==
    LET snaps == Snaps(m)
        dead == L1At(m.cl, snaps[k].l1)
        left == RemoveAt(snaps, k)
        b == IF left = <<>> THEN 0 ELSE FirstFree(m.rc, 1)
        taken == IF b = 0 THEN m.rc ELSE [m.rc EXCEPT ![b] = 1]
        rc == LowerOne(LowerOne(Lower(taken, dead, m.cl), snaps[k].l1),
                       m.hdr.tab)
        counted == {c \in Cluster : rc[c] > 0}
        groupA == ClStep(b, SnapTable(left)) \o RcSteps(m.rc, taken)
        groupC == RcSteps(taken, rc)
                    \o L1Step(FreshL1(m.l1, rc))
                    \o L2Steps(m.l1, m.cl, rc, L2Set(m.l1))
                    \o L2Steps(dead, m.cl, rc, L2Set(dead) \cap counted)
    IN  (IF left = <<>> THEN <<>> ELSE groupA \o Sync)
          \o WithTable(m, Len(left), b) \o Sync
          \o groupC \o Sync

DeleteOK(m, k) ==
    /\ Gates(m)
    /\ k # 0
    /\ CanLower(m.rc, L1At(m.cl, Snaps(m)[k].l1), m.cl)
    /\ m.rc[Snaps(m)[k].l1] >= 1
    /\ m.rc[m.hdr.tab] >= 1
    /\ Len(Snaps(m)) > 1 => FirstFree(m.rc, 1) # 0

(***************************************************************************)
(* apply: by ID, then by name.  Raise the counts below the snapshot (A),   *)
(* put its L1 over the active one (B), then lower the counts below the old *)
(* active L1 and bring COPIED up to date in both chains (C).               *)
(***************************************************************************)
ApplySource(m, arg) ==
    LET byId == Position(Snaps(m), "id", arg)
    IN  IF byId # 0 THEN byId
        ELSE Position(Snaps(m), "name", arg)

ApplyProg(m, k) ==
    LET at == Snaps(m)[k].l1
        l1 == L1At(m.cl, at)
        raised == Raise(m.rc, l1, m.cl)
        rc == Lower(raised, m.l1, m.cl)
        counted == {c \in Cluster : rc[c] > 0}
        groupC == RcSteps(raised, rc)
                    \o L1Step(FreshL1(l1, rc))
                    \o ClStep(at, Table1(FreshL1(l1, rc)))
                    \o L2Steps(l1, m.cl, rc, L2Set(l1))
                    \o L2Steps(m.l1, m.cl, rc, L2Set(m.l1) \cap counted)
    IN  RcSteps(m.rc, raised) \o Sync
          \o L1Step(l1) \o Sync
          \o groupC \o Sync

ApplyOK(m, k) ==
    /\ Gates(m)
    /\ k # 0
    /\ LET l1 == L1At(m.cl, Snaps(m)[k].l1)
       IN  /\ CanRaise(m.rc, l1, m.cl)
           /\ CanLower(m.rc, m.l1, m.cl)

(***************************************************************************)
(* The invocations.                                                        *)
(***************************************************************************)
Create(name) ==
    /\ Idle
    /\ CreateOK(mem)
    /\ Begin("create", <<name>>, CreateProg(mem, name))

Delete(name) ==
    LET k == DeleteVictim(mem, name)
    IN  /\ Idle
        /\ DeleteOK(mem, k)
        /\ Begin("delete", <<name>>, DeleteProg(mem, k))

Revert(arg) ==
    LET k == ApplySource(mem, arg)
    IN  /\ Idle
        /\ ApplyOK(mem, k)
        /\ Begin("apply", <<arg>>, ApplyProg(mem, k))
=============================================================================
