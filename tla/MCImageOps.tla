----------------------------- MODULE MCImageOps -----------------------------
(***************************************************************************)
(* Small images: one L2 table of two entries, two refcounts to a sector.   *)
(***************************************************************************)
EXTENDS ImageOps, TLC

Own(c) == [to |-> c, copied |-> TRUE]
Bare(c) == [to |-> c, copied |-> FALSE]

PlainHdr == [nb |-> 0, tab |-> 0, corrupt |-> FALSE, auto |-> FALSE,
             ver |-> 3, lazy |-> FALSE, fmt |-> 3,
             bm |-> [nb |-> 0, dir |-> 0]]

Mk(h, l1t, counts, contents) ==
    [hdr |-> h, l1 |-> l1t,
     rc |-> [c \in Cluster |-> IF c \in DOMAIN counts THEN counts[c] ELSE 0],
     cl |-> [c \in Cluster |-> IF c \in DOMAIN contents THEN contents[c]
                                                        ELSE Data(Garbage)]]

\* An empty image.
Blank == Mk(PlainHdr, <<NoEntry>>, <<>>, <<>>)

\* One mapped cluster.
OneCluster == Mk(PlainHdr, <<Own(1)>>, 1 :> 1 @@ 2 :> 1,
                 1 :> Table2(<<Own(2), NoEntry>>) @@ 2 :> Data(1))

\* The same with a leak, an overcount and a cluster that is not counted.
Damaged == Mk(PlainHdr, <<Bare(1)>>, 1 :> 2 @@ 3 :> 1,
              1 :> Table2(<<Own(2), NoEntry>>) @@ 2 :> Data(1))

SnapImages == {OneCluster, Damaged}

-----------------------------------------------------------------------------
\* Two bitmaps: "a" with a data cluster and a full one, "b" with other bits,
\* in use or not.
Entry(n, t, u) == [name |-> n, tab |-> t, auto |-> TRUE, inuse |-> u]
TwoBitmaps(u) ==
    Mk([PlainHdr EXCEPT !.auto = TRUE, !.bm = [nb |-> 2, dir |-> 3]],
       <<Own(1)>>, [c \in 1..7 |-> 1],
       1 :> Table2(<<Own(2), NoEntry>>) @@ 2 :> Data(1)
         @@ 3 :> Directory(<<Entry("a", 4, FALSE), Entry("b", 6, u)>>)
         @@ 4 :> BitTable(<<5, Ones>>) @@ 5 :> Bits({1})
         @@ 6 :> BitTable(<<7, 0>>) @@ 7 :> Bits({2}))

BitmapImages == {Blank, TwoBitmaps(FALSE), TwoBitmaps(TRUE)}

AllImages == SnapImages \cup BitmapImages

SomeActions == {<<"add">>, <<"add", "disable">>, <<"remove">>,
                <<"remove", "add">>, <<"clear">>, <<"enable">>}
SomeMerges == {<<"a">>, <<"b", "a">>}
SomeAmends == {[compat |-> 2, lazy |-> "keep"], [compat |-> 3, lazy |-> "keep"],
               [compat |-> 0, lazy |-> "on"]}
=============================================================================
