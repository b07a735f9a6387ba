------------------------------ MODULE MCCommit ------------------------------
(* Four guest clusters under two tables; backings that are empty, partly    *)
(* allocated, and shared with a snapshot at either level; four grains under *)
(* two tables, and a vmdk backing file of four grains.                      *)
EXTENDS Commit

MCGuest == 0..3
Kinds(K) == [MCGuest -> K]
PlainOverlays == Kinds({"none", "data"}) \cup
    {[c \in MCGuest |-> IF c = x THEN "compressed" ELSE "data"] : x \in MCGuest}
GrainOverlays == [0..3 -> {"none", "data"}]
ZeroOverlays == Kinds({"none", "zero", "zeroAt"})

\* A backing with tables l1, data clusters map (by guest cluster), and the
\* counts of the clusters that a snapshot shares.
Mk(l1, map, shared) ==
    LET used == ({l1[t] : t \in {0, 1}} \cup {map[c] : c \in MCGuest}) \ {0}
        l2(t) == [x \in 0..1 |-> map[2 * t + x]]
        table(h) == IF \E t \in {0, 1} : l1[t] = h
                    THEN l2(CHOOSE t \in {0, 1} : l1[t] = h) ELSE EmptyTable
        value(h) == IF \E c \in MCGuest : map[c] = h
                    THEN 20 + (CHOOSE c \in MCGuest : map[c] = h) ELSE 0
        d == [l1 |-> l1, l2 |-> [h \in Host |-> table(h)],
              rc |-> [h \in Host |-> IF h \in shared THEN 2
                                     ELSE IF h \in used THEN 1 ELSE 0],
              data |-> [h \in Host |-> value(h)]]
    IN [dev |-> d,
        kept |-> [data |-> [h \in shared |-> value(h)],
                  l2 |-> [h \in shared |-> table(h)]]]

Tables(a, b) == [t \in {0, 1} |-> IF t = 0 THEN a ELSE b]
Maps(a, b, c, d) == [x \in MCGuest |-> CASE x = 0 -> a [] x = 1 -> b
                                         [] x = 2 -> c [] x = 3 -> d]
MCBackings == {
    Mk(Tables(0, 0), Maps(0, 0, 0, 0), {}),
    Mk(Tables(1, 3), Maps(2, 0, 0, 4), {}),
    Mk(Tables(1, 0), Maps(2, 3, 0, 0), {1, 2, 3}),
    Mk(Tables(2, 4), Maps(1, 0, 5, 0), {1, 5, 4})}
=============================================================================
