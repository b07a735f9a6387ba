--------------------------- MODULE MCQcow2Write ---------------------------
(***************************************************************************)
(* Small images for the write engine: two L1 entries of two L2 entries,    *)
(* two sectors per cluster, a virtual size that ends inside a cluster.     *)
(***************************************************************************)
EXTENDS Qcow2Refines, TLC

Shared(h)     == [h |-> h, cp |-> FALSE, fl |-> "none"]
ZeroAt(h, cp) == [h |-> h, cp |-> cp, fl |-> "zero"]
Comp          == [h |-> 0, cp |-> FALSE, fl |-> "comp"]
Pair(a, b)    == [j \in 0..1 |-> IF j = 0 THEN a ELSE b]

\* kept: how many references snapshots and the header hold on each cluster.
MkImage(l1t, tabs, refs, keeps, back) ==
    [l1 |-> l1t,
     tab |-> [h \in Cluster |-> IF h \in DOMAIN tabs THEN tabs[h] ELSE JunkTable],
     rc |-> [h \in Cluster |-> IF h \in DOMAIN refs THEN refs[h] ELSE 0],
     kept |-> [h \in Cluster |-> IF h \in DOMAIN keeps THEN keeps[h] ELSE 0],
     backing |-> back, cow |-> TRUE]

Header == 0 :> 1 @@ 1 :> 1

\* Nothing allocated.
EmptyImage == MkImage(Pair(NoEntry, NoEntry), <<>>, Header, Header, FALSE)

\* The first table and its cluster are shared with a snapshot; the second
\* table is shared too and maps a shared zero cluster and a compressed one.
SnapImage == MkImage(Pair(Shared(2), Shared(4)),
                   2 :> Pair(Shared(3), NoEntry) @@ 4 :> Pair(ZeroAt(5, FALSE), Comp),
                   Header @@ 2 :> 2 @@ 3 :> 2 @@ 4 :> 2 @@ 5 :> 2,
                   Header @@ 2 :> 1 @@ 3 :> 1 @@ 4 :> 1 @@ 5 :> 1, FALSE)

\* Owned tables: an owned cluster, an owned zero cluster, a cluster that a
\* snapshot reaches through a table of its own, and one whose snapshot is gone
\* but whose COPIED flag was not set again.
MixedImage == MkImage(Pair(Owned(2), Owned(5)),
                    2 :> Pair(Owned(3), ZeroAt(4, TRUE))
                      @@ 5 :> Pair(Shared(6), Shared(7))
                      @@ 8 :> Pair(Shared(6), NoEntry),
                    Header @@ 2 :> 1 @@ 3 :> 1 @@ 4 :> 1 @@ 5 :> 1 @@ 6 :> 2 @@ 7 :> 1
                      @@ 8 :> 1,
                    Header @@ 6 :> 1 @@ 8 :> 1, FALSE)

\* An image with a backing file, partly mapped, partly compressed.
BackedImage == MkImage(Pair(Owned(2), Owned(4)),
                     2 :> Pair(Owned(3), ZeroAt(0, FALSE)) @@ 4 :> Pair(Comp, NoEntry),
                     Header @@ 2 :> 1 @@ 3 :> 1 @@ 4 :> 1, Header, TRUE)

AllImages == {EmptyImage, SnapImage, MixedImage, BackedImage}
=============================================================================
