----------------------------- MODULE GuestWrite -----------------------------
(***************************************************************************)
(* One guest write of a whole cluster through the write engine, followed   *)
(* by its flush (crates/qcow2-write), as the program of writes and         *)
(* barriers that reaches the image.  The engine itself, with its windows,  *)
(* slots and partial clusters, is module Qcow2Write; here it is one more   *)
(* operation on the image the others work on.                              *)
(***************************************************************************)
EXTENDS Image

CONSTANT Values   \* what a guest may write

\* classify_l2_entry and its L1 analogue, on an engine opened for
\* copy-on-write: the COPIED flag is believed only with a count of one.
\* Mutant: an entry without COPIED is written in place all the same.
ClassInPlace(e, rc) == IF e.to = 0 THEN "none" ELSE "owned"
Class(e, rc) ==
    IF e.to = 0 THEN "none"
    ELSE IF ~e.copied \/ rc[e.to] >= 2 THEN "cow"
    ELSE IF rc[e.to] = 1 THEN "owned" ELSE "inconsistent"

Owned(c) == [to |-> c, copied |-> TRUE]

\* A cluster of a class other than "owned" is given up for a new one.
TakesNew(class) == class \in {"none", "cow"}
Release(rc, e) == IF Class(e, rc) = "cow" THEN LowerOne(rc, e.to) ELSE rc

Plan(m, i, j) ==
    LET l1e == m.l1[i]
        newT == TakesNew(Class(l1e, m.rc))
        t == IF newT THEN FirstFree(m.rc, 1) ELSE l1e.to
        rc1 == IF newT /\ t # 0 THEN [m.rc EXCEPT ![t] = 1] ELSE m.rc
        rc2 == Release(rc1, l1e)
        tab == IF l1e.to = 0 THEN [x \in L2Idx |-> NoEntry]
                             ELSE L2At(m.cl, l1e.to)
        newD == TakesNew(Class(tab[j], rc2))
        d == IF newD THEN FirstFree(rc2, IF newT THEN t + 1 ELSE 1)
                     ELSE tab[j].to
        rc3 == IF newD /\ d # 0 THEN [rc2 EXCEPT ![d] = 1] ELSE rc2
    IN  [t |-> t, d |-> d, newT |-> newT, newD |-> newD,
         tab |-> [tab EXCEPT ![j] = Owned(d)],
         l1 |-> [m.l1 EXCEPT ![i] = Owned(t)],
         rc |-> Release(rc3, tab[j]),
         ok |-> /\ Class(l1e, m.rc) # "inconsistent"
                /\ Class(tab[j], rc2) # "inconsistent"
                /\ Class(l1e, m.rc) = "cow" => m.rc[l1e.to] > 0
                /\ Class(tab[j], rc2) = "cow" => rc2[tab[j].to] > 0
                /\ t # 0 /\ d # 0]

\* The data, then the L2 table, then the L1, then the refcounts.
WriteProg(m, i, j, v) ==
    LET p == Plan(m, i, j)
    IN  ClStep(p.d, Data(v)) \o Sync
          \o (IF p.newD \/ p.newT THEN ClStep(p.t, Table2(p.tab)) \o Sync ELSE <<>>)
          \o (IF p.newT THEN L1Step(p.l1) \o Sync ELSE <<>>)
          \o (IF p.rc # m.rc THEN RcSteps(m.rc, p.rc) \o Sync ELSE <<>>)

GuestWrite(i, j, v) ==
    /\ Idle
    /\ ~mem.hdr.corrupt
    /\ Plan(mem, i, j).ok
    /\ Begin("write", <<i, j, v>>, WriteProg(mem, i, j, v))
=============================================================================
