------------------------------ MODULE CowRefs ------------------------------
(***************************************************************************)
(* What the write engine promises about refcounts, without tables, windows *)
(* or a device: clusters are claimed, linked into the active map, written, *)
(* and references that a link displaced are dropped.  Snapshots and the    *)
(* image's own structures hold kept[c] references on cluster c; the engine *)
(* never sees them, only the refcounts.                                    *)
(***************************************************************************)
EXTENDS Integers

CONSTANTS Ref,        \* the entries of the active map (L1 and L2 entries)
          Cluster,    \* host clusters
          None,       \* the entry maps nothing
          KeptCounts  \* reference counts that snapshots may hold

ASSUME RefsAssumption == None \notin Cluster /\ KeptCounts \subseteq Nat

VARIABLES kept,       \* references held outside the active map
          map,        \* what each active entry references
          rc,         \* staged refcounts
          held,       \* claimed, not yet linked
          dropped,    \* displaced by a link, reference not yet given back
          touched     \* clusters whose content is not the original one

vars == <<kept, map, rc, held, dropped, touched>>

Mapped(c) == \E r \in Ref : map[r] = c
Injective == \A r, s \in Ref : map[r] = map[s] /\ map[r] # None => r = s

Counted(c) == kept[c] + (IF Mapped(c) \/ c \in held \/ c \in dropped
                         THEN 1 ELSE 0)

Init ==
    /\ kept \in [Cluster -> KeptCounts]
    /\ map \in [Ref -> Cluster \cup {None}] /\ Injective
    /\ held = {} /\ dropped = {} /\ touched = {}
    /\ rc = [c \in Cluster |-> Counted(c)]

\* alloc_cluster: only a cluster with refcount 0 is handed out.
Claim(c) ==
    /\ rc[c] = 0
    /\ rc' = [rc EXCEPT ![c] = 1]
    /\ held' = held \cup {c}
    /\ UNCHANGED <<kept, map, dropped, touched>>

\* Mutant of Link: the displaced reference is forgotten.
LinkForgets(r, c) ==
    /\ c \in held
    /\ map' = [map EXCEPT ![r] = c]
    /\ held' = held \ {c}
    /\ UNCHANGED <<kept, rc, dropped, touched>>

\* An L1 or L2 patch.
Link(r, c) ==
    /\ c \in held
    /\ map' = [map EXCEPT ![r] = c]
    /\ held' = held \ {c}
    /\ dropped' = dropped \cup ({map[r]} \ {None})
    /\ UNCHANGED <<kept, rc, touched>>

\* dec_refcount.
Drop(c) ==
    /\ c \in dropped
    /\ rc' = [rc EXCEPT ![c] = @ - 1]
    /\ dropped' = dropped \ {c}
    /\ UNCHANGED <<kept, map, held, touched>>

\* Mutant of Write: in place whatever the refcount.
WriteMapped(c) ==
    /\ c \in held \/ Mapped(c)
    /\ touched' \in {touched \cup {c}, touched \ {c}}
    /\ UNCHANGED <<kept, map, rc, held, dropped>>

\* A write goes to a claimed cluster, or in place where the refcount is 1.
Write(c) ==
    /\ c \in held \/ (Mapped(c) /\ rc[c] = 1)
    /\ touched' \in {touched \cup {c}, touched \ {c}}
    /\ UNCHANGED <<kept, map, rc, held, dropped>>

Next == \E c \in Cluster :
           Claim(c) \/ (\E r \in Ref : Link(r, c)) \/ Drop(c) \/ Write(c)

Spec == Init /\ [][Next]_vars
-----------------------------------------------------------------------------
\* The state variables hold refcounts, entries and sets of clusters.
TypeOK ==
    /\ kept \in [Cluster -> KeptCounts]
    /\ map \in [Ref -> Cluster \cup {None}]
    /\ rc \in [Cluster -> Nat]
    /\ held \subseteq Cluster /\ dropped \subseteq Cluster
    /\ touched \subseteq Cluster

\* Every refcount is exactly the references there are: the snapshots', the
\* active map's, and the ones being moved.  A cluster in use is never 0, so
\* it is never handed out again, and no copy drives a shared cluster to 3.
Exact == \A c \in Cluster : rc[c] = Counted(c)

\* Nothing a snapshot references is ever written: refcount 1 on a mapped
\* cluster is proof enough that no snapshot shares it.
SnapshotsUntouched == \A c \in touched : kept[c] = 0

\* No two active entries share a cluster, and a cluster is in one role only.
Disjoint ==
    /\ Injective
    /\ \A c \in held : ~Mapped(c) /\ c \notin dropped /\ kept[c] = 0
    /\ \A c \in dropped : ~Mapped(c)
=============================================================================
