--------------------------- MODULE CowRefsProofs ---------------------------
(***************************************************************************)
(* Refcounts are exact and snapshots are never written, for any number of  *)
(* clusters, entries and snapshots.  TypeOK, Exact, SnapshotsUntouched and *)
(* Disjoint are inductive together: exactness needs that a cluster has one *)
(* role only, and that a write is safe needs exactness.                    *)
(***************************************************************************)
EXTENDS CowRefs, TLAPS

IInv == TypeOK /\ Exact /\ SnapshotsUntouched /\ Disjoint

LEMMA KeptIsNat == ASSUME TypeOK PROVE \A c \in Cluster : kept[c] \in Nat
BY RefsAssumption DEF TypeOK, RefsAssumption

\* A cluster with refcount 0 has no reference of any kind.
LEMMA FreeIsUnused ==
    ASSUME IInv, NEW c \in Cluster, rc[c] = 0
    PROVE  kept[c] = 0 /\ ~Mapped(c) /\ c \notin held /\ c \notin dropped
<1>1. kept[c] \in Nat /\ rc[c] = Counted(c)
  BY KeptIsNat DEF IInv, Exact
<1>2. CASE Mapped(c) \/ c \in held \/ c \in dropped
  BY <1>1, <1>2 DEF Counted
<1>3. CASE ~(Mapped(c) \/ c \in held \/ c \in dropped)
  BY <1>1, <1>3 DEF Counted
<1> QED BY <1>2, <1>3

\* A mapped cluster with refcount 1 is not referenced by a snapshot.
LEMMA OwnedIsUnshared ==
    ASSUME IInv, NEW c \in Cluster, Mapped(c), rc[c] = 1
    PROVE  kept[c] = 0
<1>1. kept[c] \in Nat /\ rc[c] = Counted(c)
  BY KeptIsNat DEF IInv, Exact
<1> QED BY <1>1 DEF Counted

LEMMA InitIInv == Init => IInv
<1> SUFFICES ASSUME Init PROVE IInv
  OBVIOUS
<1>1. \A c \in Cluster : kept[c] \in Nat
  BY RefsAssumption DEF Init, RefsAssumption
<1>2. \A c \in Cluster : Counted(c) \in Nat
  BY <1>1 DEF Counted
<1>3. TypeOK /\ Exact
  BY <1>2 DEF Init, TypeOK, Exact
<1>4. SnapshotsUntouched /\ Disjoint
  BY DEF Init, SnapshotsUntouched, Disjoint
<1> QED BY <1>3, <1>4 DEF IInv

LEMMA ClaimIInv ==
    ASSUME IInv, NEW c \in Cluster, Claim(c)
    PROVE  IInv'
<1>1. kept[c] = 0 /\ ~Mapped(c) /\ c \notin held /\ c \notin dropped
  BY FreeIsUnused DEF Claim
<1>2. TypeOK'
  BY DEF IInv, TypeOK, Claim
<1>3. Exact'
  <2> SUFFICES ASSUME NEW d \in Cluster PROVE rc'[d] = Counted(d)'
    BY DEF Exact
  <2>1. CASE d = c
    BY <1>1, <2>1 DEF IInv, TypeOK, Claim, Counted, Mapped
  <2>2. CASE d # c
    BY <2>2 DEF IInv, TypeOK, Exact, Claim, Counted, Mapped
  <2> QED BY <2>1, <2>2
<1>4. SnapshotsUntouched'
  BY DEF IInv, SnapshotsUntouched, Claim
<1>5. Disjoint'
  BY <1>1 DEF IInv, TypeOK, Disjoint, Injective, Mapped, Claim
<1> QED BY <1>2, <1>3, <1>4, <1>5 DEF IInv

LEMMA LinkIInv ==
    ASSUME IInv, NEW r \in Ref, NEW c \in Cluster, Link(r, c)
    PROVE  IInv'
<1>1. ~Mapped(c) /\ c \notin dropped /\ c \in held
  BY DEF IInv, Disjoint, Link
<1>2. TypeOK'
  BY RefsAssumption DEF RefsAssumption, IInv, TypeOK, Link
<1>3. \A d \in Cluster : Mapped(d)' <=> d = c \/ (Mapped(d) /\ d # map[r])
  BY RefsAssumption DEF RefsAssumption, IInv, TypeOK, Disjoint, Injective, Mapped, Link
<1>4. \A d \in Cluster : d \in held' <=> d \in held /\ d # c
  BY DEF Link
<1>5. \A d \in Cluster : d \in dropped' <=> d \in dropped \/ d = map[r]
  BY RefsAssumption DEF RefsAssumption, Link
<1>6. \A d \in Cluster : d = map[r] => Mapped(d) /\ d # c
  BY <1>1 DEF Mapped
<1>7. Exact'
  <2> SUFFICES ASSUME NEW d \in Cluster PROVE rc'[d] = Counted(d)'
    BY DEF Exact
  <2>1. (Mapped(d)' \/ d \in held' \/ d \in dropped')
          <=> (Mapped(d) \/ d \in held \/ d \in dropped)
    BY <1>1, <1>3, <1>4, <1>5, <1>6
  <2> QED BY <2>1 DEF IInv, Exact, Counted, Link
<1>8. SnapshotsUntouched'
  BY DEF IInv, SnapshotsUntouched, Link
<1>9. Disjoint'
  <2>1. Injective'
    BY <1>1, RefsAssumption DEF RefsAssumption, IInv, TypeOK, Disjoint, Injective, Mapped, Link
  <2>2. \A d \in held' : ~Mapped(d)' /\ d \notin dropped' /\ kept'[d] = 0
    BY <1>3, <1>4, <1>5, <1>6 DEF IInv, TypeOK, Disjoint, Link
  <2>3. \A d \in dropped' : ~Mapped(d)'
    BY <1>1, <1>3, <1>5, <1>6, <1>2 DEF IInv, TypeOK, Disjoint
  <2> QED BY <2>1, <2>2, <2>3 DEF Disjoint
<1> QED BY <1>2, <1>7, <1>8, <1>9 DEF IInv

LEMMA DropIInv ==
    ASSUME IInv, NEW c \in Cluster, Drop(c)
    PROVE  IInv'
<1>1. ~Mapped(c) /\ c \notin held /\ c \in dropped
  BY DEF IInv, Disjoint, Drop
<1>2. rc[c] = kept[c] + 1 /\ kept[c] \in Nat
  BY <1>1, RefsAssumption DEF RefsAssumption, IInv, TypeOK, Exact, Counted
<1>3. TypeOK'
  BY <1>2 DEF IInv, TypeOK, Drop
<1>4. Exact'
  <2> SUFFICES ASSUME NEW d \in Cluster PROVE rc'[d] = Counted(d)'
    BY DEF Exact
  <2>1. CASE d = c
    BY <1>1, <1>2, <2>1 DEF IInv, TypeOK, Drop, Counted, Mapped
  <2>2. CASE d # c
    BY <2>2 DEF IInv, TypeOK, Exact, Drop, Counted, Mapped
  <2> QED BY <2>1, <2>2
<1>5. SnapshotsUntouched'
  BY DEF IInv, SnapshotsUntouched, Drop
<1>6. Disjoint'
  BY DEF IInv, Disjoint, Injective, Mapped, Drop
<1> QED BY <1>3, <1>4, <1>5, <1>6 DEF IInv

LEMMA WriteIInv ==
    ASSUME IInv, NEW c \in Cluster, Write(c)
    PROVE  IInv'
<1>1. kept[c] = 0
  <2>1. CASE c \in held
    BY <2>1 DEF IInv, Disjoint
  <2>2. CASE Mapped(c) /\ rc[c] = 1
    BY <2>2, OwnedIsUnshared
  <2> QED BY <2>1, <2>2 DEF Write
<1>2. TypeOK'
  BY DEF IInv, TypeOK, Write
<1>3. Exact'
  BY DEF IInv, Exact, Counted, Mapped, Write
<1>4. SnapshotsUntouched'
  BY <1>1 DEF IInv, SnapshotsUntouched, Write
<1>5. Disjoint'
  BY DEF IInv, Disjoint, Injective, Mapped, Write
<1> QED BY <1>2, <1>3, <1>4, <1>5 DEF IInv

LEMMA NextIInv == IInv /\ [Next]_vars => IInv'
<1> SUFFICES ASSUME IInv, [Next]_vars PROVE IInv'
  OBVIOUS
<1>1. CASE Next
  BY <1>1, ClaimIInv, LinkIInv, DropIInv, WriteIInv DEF Next
<1>2. CASE UNCHANGED vars
  BY <1>2 DEF vars, IInv, TypeOK, Exact, SnapshotsUntouched, Disjoint,
              Injective, Counted, Mapped
<1> QED BY <1>1, <1>2

LEMMA Invariance == Spec => []IInv
BY InitIInv, NextIInv, PTL DEF Spec

\* The refcounts the engine keeps are the references there are, whatever
\* snapshots exist: alloc_cluster never hands out a referenced cluster and
\* dec_refcount never reaches below the snapshots' references.
THEOREM RefcountsExact == Spec => []Exact
<1>1. IInv => Exact
  BY DEF IInv
<1> QED BY <1>1, Invariance, PTL

\* Copy-on-write is sound: a cluster any snapshot references keeps its content.
THEOREM CowSound == Spec => []SnapshotsUntouched
<1>1. IInv => SnapshotsUntouched
  BY DEF IInv
<1> QED BY <1>1, Invariance, PTL

\* Two active entries never come to share a cluster, and a claimed cluster
\* belongs to nobody else until it is linked.
THEOREM RolesDisjoint == Spec => []Disjoint
<1>1. IInv => Disjoint
  BY DEF IInv
<1> QED BY <1>1, Invariance, PTL
=============================================================================
