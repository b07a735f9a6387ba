---------------------------- MODULE Qcow2Refines ----------------------------
(***************************************************************************)
(* The write engine implements CowRefs.  The abstract map is the staged    *)
(* metadata as it will be once the window has run: patches still in the    *)
(* window count, and a table that was evicted is read where its write-back *)
(* will put it.                                                            *)
(***************************************************************************)
EXTENDS Qcow2Write
LOCAL INSTANCE Functions

\* The effect of one step on the staged L1, the slots and the tables on disk.
After(m, s) ==
    CASE s.op = "patch1"  -> [m EXCEPT !.l1[s.at] = s.e]
      [] s.op = "patch2"  -> [m EXCEPT !.win[s.slot][s.at] = s.e]
      [] s.op = "zregion" -> [m EXCEPT !.win[s.slot] = EmptyTable]
      [] s.op = "load"    -> [m EXCEPT !.win[s.slot] = m.tab[s.h]]
      [] s.op = "wb"      -> [m EXCEPT !.tab[s.h] = m.win[s.slot]]
      [] OTHER            -> m

Settled ==
    LET run[n \in 0..Len(buf)] ==
            IF n = 0 THEN [l1 |-> l1, win |-> win, tab |-> dTab]
                     ELSE After(run[n - 1], buf[n])
    IN run[Len(buf)]

TableIn(m, i) ==
    IF \E k \in Slots : slot[k].valid /\ slot[k].l1 = i
    THEN m.win[CHOOSE k \in Slots : slot[k].valid /\ slot[k].l1 = i]
    ELSE IF m.l1[i].h = 0 THEN EmptyTable ELSE m.tab[m.l1[i].h]

\* An L1 entry is <<i>>, an L2 entry <<i, j>>.
EntryRef == {<<i>> : i \in L1Index} \cup (L1Index \X L2Index)
HostCluster == Cluster \ {0}

ActiveMap ==
    LET m == Settled
    IN [r \in EntryRef |-> IF Len(r) = 1 THEN m.l1[r[1]].h
                                         ELSE TableIn(m, r[1])[r[2]].h]

\* The reference a copy has displaced and not yet given back.
DroppedRefs == IF stage \in {"CowL2Decrement", "CowDataDecrement"}
               THEN {cur.src} ELSE {}

HeldRefs ==
    {h \in HostCluster : rc[h] = 1 /\ img.kept[h] = 0}
        \ (DroppedRefs \cup Range(ActiveMap))

TouchedClusters ==
    {h \in HostCluster : dTab[h] # img.tab[h] \/ dData[h] # InitData(img, h)}

Refs == INSTANCE CowRefs WITH
            Ref <- EntryRef, Cluster <- HostCluster, None <- 0, KeptCounts <- Nat,
            kept <- [h \in HostCluster |-> img.kept[h]],
            map <- ActiveMap,
            rc <- [h \in HostCluster |-> rc[h]],
            held <- HeldRefs, dropped <- DroppedRefs, touched <- TouchedClusters

\* Every step of the planner and of the executor claims a free cluster, links
\* a claimed one, gives back a displaced reference, writes a cluster it owns,
\* or changes nothing that the snapshots or the refcounts can see.
ImplementsRefs == Refs!Spec
=============================================================================
