---------------------------- MODULE Qcow2Layout ----------------------------
(***************************************************************************)
(* The qcow2 metadata the write engine reads and changes, and the pure     *)
(* decisions it takes on it: what an L1 or an L2 entry says, whether a     *)
(* cluster may be overwritten in place, which free cluster is allocated.   *)
(* Host clusters are numbers; cluster 0 holds the header, so 0 is also     *)
(* the null pointer, as offset 0 is in the format.                         *)
(***************************************************************************)
EXTENDS Integers, FiniteSets, Sequences

CONSTANTS NL1,        \* entries of the L1 table (l1_size)
          NL2,        \* entries of an L2 table (entries_per_l2)
          CS,         \* sectors per cluster (cluster_size)
          VSize,      \* virtual size in sectors (virtual_size)
          NBlocks,    \* staged refcount blocks
          EPB         \* refcounts per block (entries_per_refblock)

ASSUME GeometryAssumption ==
    /\ NL1 \in Nat \ {0} /\ NL2 \in Nat \ {0} /\ CS \in Nat \ {0}
    /\ NBlocks \in Nat \ {0} /\ EPB \in Nat \ {0}
    /\ VSize \in 1..(NL1 * NL2 * CS)

Cluster == 0..(NBlocks * EPB - 1)
Block   == 0..(NBlocks - 1)
L1Index == 0..(NL1 - 1)
L2Index == 0..(NL2 - 1)
Sector  == 0..(CS - 1)
VSector == 0..(VSize - 1)

\* An entry: host cluster, the COPIED flag, and which other flag bit it has
\* ("zero": reads as zeros; "comp": compressed; "bad": a reserved bit).
Flag  == {"none", "zero", "comp", "bad"}
Entry == [h : Cluster, cp : BOOLEAN, fl : Flag]

NoEntry    == [h |-> 0, cp |-> FALSE, fl |-> "none"]
Owned(h)   == [h |-> h, cp |-> TRUE, fl |-> "none"]
JunkEntry  == [h |-> 0, cp |-> TRUE, fl |-> "bad"]
Table      == [L2Index -> Entry]
EmptyTable == [j \in L2Index |-> NoEntry]
JunkTable  == [j \in L2Index |-> JunkEntry]

\* Position of a virtual sector in the two-level map.
GuestCluster(s) == s \div CS
L1Of(s) == GuestCluster(s) \div NL2
L2Of(s) == GuestCluster(s) % NL2

BlockOf(h) == h \div EPB

(***************************************************************************)
(* What a write may do with the cluster an L2 entry names.                 *)
(***************************************************************************)
SharedData(e, rc) == \/ e.fl = "none" /\ ~e.cp
                     \/ rc[e.h] > 1

ClassifyL2(e, rc, cow) ==
    LET mapped == e.h # 0 /\ e.fl \in {"none", "zero"}
    IN CASE e = NoEntry \/ (e.fl = "zero" /\ e.h = 0)        -> "unallocated"
         [] e.fl = "comp"                                    -> "compressed"
         [] mapped /\ SharedData(e, rc)                      ->
                IF cow THEN "cow" ELSE "shared"
         [] mapped /\ ~SharedData(e, rc) /\ rc[e.h] = 0      -> "inconsistent"
         [] mapped /\ ~SharedData(e, rc) /\ rc[e.h] = 1      ->
                IF e.fl = "zero" THEN "ownedzero" ELSE "owned"
         [] OTHER                                            -> "unknown"

ValidateL1(e, rc, cow) ==
    CASE e.fl # "none" \/ e.h = 0                            -> "unknown"
      [] e.fl = "none" /\ e.h # 0 /\ (~e.cp \/ rc[e.h] > 1)  ->
             IF cow THEN "cow" ELSE "shared"
      [] e.fl = "none" /\ e.h # 0 /\ e.cp /\ rc[e.h] = 0     -> "inconsistent"
      [] OTHER                                               -> "owned"

\* First fit from the cursor; the cursor never moves back.
FreeFrom(rc, cursor) == {h \in Cluster : h >= cursor /\ rc[h] = 0}
\* Mutant of FirstFit: takes the next cluster without reading its refcount.
NextFit(h, rc, cursor) == h \in Cluster /\ h = cursor
FirstFit(h, rc, cursor) ==
    h \in FreeFrom(rc, cursor) /\ \A k \in FreeFrom(rc, cursor) : h <= k

=============================================================================
